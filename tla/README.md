# PostgreSQL Workbench: a verification project

TLA+ models of the parts of PostgreSQL Workbench whose correctness is a matter
of interleaving, failure and order; the TLC runs that check them; and theorems
about them that TLAPS proves. Paths below are relative to the repository root.

The Workbench is a VS Code extension (`vscode-extension/`) over a set of
packages (`packages/`). It is one JavaScript process: a step of a model is what
the code runs between two `await`s, and everything the code awaits (an answer of
PostgreSQL, a dialog, a timer, another promise) is a step of its own, so that
the interleavings the event loop can produce are behaviours of the model.

Contents: 1 inventory, 2 modules, 3 plan, 4 runs, 5 fairness, 6 proofs,
7 disagreements with the documentation, 8 what is not modelled.

## 1. Inventory

| component | state it keeps | operations | what makes it hard |
|---|---|---|---|
| **Scratchpad Transactions** (`scratchpad/transactions.ts`) | the open Transaction, opening session, promise chain and its Connection per Scratchpad; refusal counters | `execute`, `commit`, `rollback`, `runScratchpadChange`, `acquireConnectionChange`, `resolveClosedScratchpad`, `markFailed`, `shutdown` | chains queued behind each other, leases waiting for chains, shutdown at any await, failing COMMIT and ROLLBACK |
| **Scratchpad controller** (`scratchpad/registerCommands.ts`, `packages/rows/src/notebookClient.ts`) | running batches, the Association a batch was started with, cancellation | `execute`, `executeCell`, `executeStatementPlan`, cancellation, Association and Mode commands | Association and Mode captured before awaits, cancellation racing the end of a cell |
| **Data View edits** (`packages/rows/src/dataView/pendingEdits.ts`, `updates.ts`) | pending cell changes, removed and added rows, undo history | `set`, `removeRows`, `addRow`, `fillRow`, `discard`, `apply`, undo, redo | edits and undo while a write is in flight, a commit whose answer is lost, rows another client changed |
| **Index** (`packages/catalog/src/indexController.ts`) | published registries per database, staleness, epochs, queued runs, the engine session | `indexDatabase`, `indexPostgresDatabase`, `cancelDatabaseIndex`, `synchronizeDatabaseDdl`, `markDatabaseStale`, session close, `dispose` | runs superseded by newer ones, the engine session dying under a run, publication failing half way |
| **DDL sync** (`packages/catalog/src/ddlSync.ts`) | a listener per Connection, pending notifications, refresh debt, epochs | start, stop, reconnect, notification, flush, refresh, settings, provisioning, removal, dispose | notifications while indexing, a listener that dies, debt that must be paid, intents overtaking each other |
| **Connections** (`connection/openConnections.ts`, `savedConnections.ts`, `commands.ts`, `packages/catalog/src/postgresConnectionRegistry.ts`) | open sessions, transition tails, the saved configurations, passwords and open intents, debug capabilities and their epochs | connect, reconnect, disconnect, remove, replace, add, rename, change password, `checkDebugRequirements`, restore, `withConnectionChange` | transitions serialised per Connection behind a lease, a cancelled connect that answers late, dialogs over a store that changes, probes of a session that is gone |
| **Debugger** (`packages/dap/src/debugger`) | a DAP session's lifecycle, the target and the proxy connections, breakpoints | launch, `configurationDone`, step, continue, terminate, disconnect | target failing before its entry, terminate during any command, timeouts racing answers |
| **Orphan sessions** (`packages/dap/src/orphanSessions.ts`) | nothing: it reads `pg_stat_activity` | list, terminate | none: the statement that terminates looks the pid up again by its name |
| **Data View reading** (`dataView/dataViewDocument.ts`, `packages/rows/src/dataView/openRows.ts`, `offsetQuery.ts`, `packages/sql/src/query/model.ts`) | the query, its analysis, status and busy, the generation, the open rows | open, refresh, new text, navigation, cancel, dispose | loads, cancellations and navigations overtaking each other at every await; a parse between a text and its analysis |
| **Coverage** (`packages/coverage/src/runner.ts`) | the targets in use, a dedicated client and its transaction per run, the abort signal | `runSuite`, abort, deadline, the test callback's client | the ladder from cancel to terminate to disconnect, a callback that outlives its run, cleanup after each failure |
| **Runtime sessions** (`packages/runtime/src/sessions.ts`) | sessions, their busy flag and clients | open, use, close | an opening client while the session closes, limits |
| Captured results (`packages/rows/src/capturedResults.ts`) | a bounded list | record, trim | bound |
| SQL language (`packages/sql`) | none between calls | parsing, analysis, completion | pure |
| Scratchpad file format (`packages/scratchpad`) | none | (de)serialisation | pure |
| Views (`packages/presentation`, `packages/editor`) | view state | rendering | presentation |
| MCP server (`packages/mcp`), shell (`packages/shell`) | handles to the packages above | request dispatch | thin |
| Docker, sources, code lenses, site, scripts | files, containers | I/O | pure I/O |

How they interact. The controller runs every MANUAL cell through
`ScratchpadTransactionManager.execute` and every AUTO cell on a session of its
own. `openConnections` takes a lease of the manager (`acquireConnectionChange`)
before it closes or replaces a Connection, and announces the change to the index
and to DDL sync. DDL sync asks the index for refreshes and marks databases
stale; it keeps a listener of its own even while the Connection is closed. The
index reads the catalog over the Connection and publishes into registries all
views read. A lost or replaced Connection forgets its debug capability and probes it again. The
debugger, coverage and Data Views open sessions of their own; a Data View reloads after a save of its
edits.

What makes each component correct:

* Scratchpad Transactions: a Connection change works alone on its Connection; a
  refusal is lifted exactly once; no session is left open without an owner; COMMIT is
  sent only where it commits; shutdown ends and leaves nothing; leases are not starved.
* Scratchpad controller: a batch ends; what Stop cancels is the cell it was
  pressed for; a cancelled cell leaves a Transaction that can only be rolled back.
* Data View edits: what a save clears was written; nothing is written over a
  value the reader did not see; changes never held twice, nor where they cannot be written.
* Index: an older catalog never replaces a newer; the engine holds what views show.
* DDL sync: what was heard, or may have been missed, is indexed or owed; the saved setting prevails.
* Connections: at most one transition at a time; a cancelled open leaves no client; an open intent survives restore.
* Debugger: one resume at a time; every launch comes to a stop that is shown or to an end that is
  announced; no backend outlives the adapter.
* Data View reading: what is shown is what the query asks; busy means busy; what is superseded ends.
* Coverage: nothing a run does outlives its transaction; a routine is instrumented by one
  transaction at a time; every run ends and closes its client, whatever hangs.
* Runtime sessions: every session is given back on every path; the limit holds.
* Orphan sessions: only a session that is still the one listed is terminated.

## 2. Modules

| module | models | state and actions |
|---|---|---|
| `ScratchpadTransactions` | `transactions.ts`, the whole class | `queue[s]` is the chain of promises of a Scratchpad (`operationTails`); its first operation is at its turn and awaits in `phase[s]`, with its local client in `cur[s]`. One action per step of `execute`, `commit`, `rollback`, `resolveClosedScratchpad`, `runScratchpadChange`, of a lease (`Acquire`, `Drained`, `RollNext`, `Grant`, `Release`) and of `shutdown`. `session` is both the client object and its backend: a backend may end at any time. |
| `ScratchpadCells` | `registerCommands.ts`, `notebookClient.ts` | extends the manager. `assoc` and `mode` are the metadata of each Scratchpad, set by a change at its turn (`CellTurn`). `batch[b]` is one call of the execute handler, with the Association and Mode it captured, its current cell and its cancellation. `CancelHitsOther` is `pg_cancel_backend` arriving when the backend serves somebody else. |
| `ConnectionGate` | the contract of `beforeConnectionChange` | abstract: `work` is who works on which Connection, `asked` the Connection each change waits for, `granted` the changes that have theirs. Implemented by `ScratchpadTransactions`, relied on by `OpenConnections`. |
| `OpenConnections` | `openConnections.ts`, `savedConnections.ts`, `commands.ts`, `postgresConnectionRegistry.ts` | an instance of the gate inside. `tails[c]` is the tail of transitions, its first one awaits in `step[c]`; `saved`, `open` and the passwords are the store; `registry[c]` the session that is open, `probes` the checks of the debugger under way. `Init` is any store an earlier window may have left half way. |
| `DataViewEdits` | `pendingEdits.ts`, `updates.ts`, the document of VS Code | `held` is what waits, `written` what the statements of a write were built from; `history`, `at`, `saved` are the undo stack VS Code keeps, `db` the committed rows. Every move is an action; a write is `Apply`, `BuildStatements`, `RunStatement`, `SendCommit`, and its ends. `Load` is one step here: it forgets what the query cannot write. |
| `DataViewReading` | `dataViewDocument.ts`, `openRows.ts`, `offsetQuery.ts`, `model.ts` | `text` and `analysis` are the query's model, `parses` what the parser was asked, `latest` the call that raised the generation last. Each load, navigation and cancellation has its place `pc`, its `client`, and what it `waits` for when it closes the rows. `upset` only records that something was overtaken, or that the parser failed. |
| `DebugSession` | `PlpgsqlDebugSession.ts`, `startDebugLaunch.ts`, `lifecycle.ts`, the adapter's process | `life` is the lifecycle, `shown` what the client was told; `listener` and `target` are the two backends, `holds` the clients the session has, `cut` the sockets that are closed; `config` and `stepping[h]` are the handlers under way, `sets` the breakpoints of one source. |
| `CoverageRuns` | `runner.ts` | `run[r]` is a call of `runSuite` with its step, its callback and its cancellation; `link[r]` its client, what that has sent (`wire`), the transaction, its locks and the routines it has instrumented. |
| `IndexRuns` | `indexController.ts` for one database | `runs` is the chain `scopeRuns`; its first run is in one of the awaits of `executeIndexRun` / `publishAndReadCatalog`. A catalog is the set of DDL transactions it reflects, so older, newer, and incomplete catalogs can be told apart. `content` is what the engine holds. |
| `SchemaSync` | `ddlSync.ts` for one Connection | extends the index. `ops` is the lifecycle chain, `refreshes` the refresh chain, `listener` the client from its start to its end, `wire` the notifications on their way, `debt` the full refresh owed. Epochs are flags: `current` of an operation says that no newer intent arrived, `debt` of a refresh that the debt it read is still the newest. The commands of the user (enable, disable, provision, remove provisioning) share one action per phase: stop, store the setting, connect, run the script, reconcile. `stranded` is a history variable: nothing was reconciled since a command failed. |
| `MC*` | | instances for TLC |
| `ScratchpadTransactionsProofs`, `ScratchpadSessionProofs`, `OpenConnectionsProofs`, `DataViewEditsProofs`, `DataViewReadingProofs`, `CoverageRunsProofs`, `SchemaSyncProofs`, `DebugSessionProofs` | | the theorems of section 6 and their proofs |

Conventions. Definitions named for a mutation (`AcquireAheadOfOpening`,
`PaidWhatever`, ...) stand before the definition they would replace. No
specification uses them: each is a plausible bug of that definition, and the
property it is listed with in `PROJECT.json` fails when it takes its place.

Continuations. When a promise settles, its continuations run before any
input, timer or answer does. `IndexRuns` and `SchemaSync` model this directly:
while `Pending` holds, only callbacks step. `ScratchpadTransactions` lets other
steps come first, which only adds behaviours: its safety does not depend on
the order of continuations.

Assumptions between modules. `ScratchpadTransactions` on its own takes two things from its caller: that
what is queued on one chain executes on one Connection, whichever it is (`Agreed`), and
that a failed Statement is recorded (`markFailed`) before the next operation.
`ScratchpadCells` models the caller, whose batches keep the Association they were started with. Batches
that follow one another are callers of that kind: the theorem `SequentialCallers` says so of both assumptions, for every
instance, so that all that is proved of the manager holds under them, and the run `cells` shows of the second what it is
needed for. Batches that overlap are not: `cells_late_cancel` refutes the second, and section 7 describes how
the first fails. Nothing is checked or proved of a lease in that case.

Composition. Connections and Scratchpads meet in the hook `beforeConnectionChange`, and
`ConnectionGate` is what one promises and the other relies on: `ScratchpadTransactions` implements it
(`ImplementsGate`, `Gate == INSTANCE ConnectionGate WITH ...`), and `OpenConnections` carries an
instance of it in place of the manager. What `OpenConnections` shows holds therefore of
every manager that keeps the contract, and the state of both is never multiplied.
`ScratchpadCells` and `SchemaSync` compose with the whole of `ScratchpadTransactions` and `IndexRuns`,
because the hazards there are in the interleaving of the two.

## 3. Plan

Done, in this order: the Scratchpad Transactions and the controller; Data View edits; the index and
DDL synchronization; the gate and the Connections; the debugger; coverage; Data View
reading; for each the theorems of section 6.

What is left, most valuable first:

1. Several databases over one engine, the acceptance gate and `dispose` in `IndexRuns`; changes of the
   support schema in `SchemaSync`.
2. `ScratchpadCells`: Debug cells, which hand a Statement to the debugger, and the session of Mode AUTO as
   `openNotebookClient` opens it.
3. `DataViewReading` composed with `DataViewEdits`: a save that reloads while a load is under way.
4. Runtime sessions (open, use, close, limit) and orphan sessions.

Abstract specifications worth stating next to the gate: a table with optimistic writes
that `DataViewEdits` implements when no answer is lost; an index that only grows, for `IndexRuns`.

## 4. Runs

| run | instance | distinct states | what it shows |
|---|---|---|---|
| `chain` | 1 Scratchpad, 2 Connections, 2 sessions, 2 executions, 1 change, 1 lease, chain of 2 | 405 k | a held lease excludes work, refusals balance, no session without an owner, shutdown closes everything; the manager implements the gate; shutdown ends, a lease is granted |
| `cells` | 2 calls of 2 cells one after the other with 1 change, or 2 overlapping calls of 1 cell; shutdown at any time | 198 k | a late cancellation never hits the next batch, a cancelled cell leaves a failed Transaction, every batch ends |
| `cells_late_cancel` | overlapping batches of 2 cells, 1 change | violation | finding 1 |
| `edits` | 1 row, 2 values, 1 added row; with an undo stack of 1 move, or without one; COMMIT answers may be lost | 93 k | held changes are not applied and writable; what COMMIT clears was written; removed rows hold no edits, no blind update; writes end |
| `edits_dropped` | the same with 2 moves | violation | finding 2 |
| `reading` | 2 loads, 1 navigation, 1 cancellation at a time, 1 text and the blank one | 198 k | a ready view shows the rows of its query; busy and the work under way agree; what is superseded ends |
| `schema_sync` | 2 DDL transactions and 2 requests, 3 together, 1 fault | 605 k | registries never lose a DDL transaction; the engine holds what views show; what was heard is indexed, on its way or owed; the saved setting prevails, through removal of the Connection, provisioning and dispose |
| `sync_listen_gap` | 1 DDL transaction, 1 request, no fault | violation | finding 3 |
| `connections` | 1 Connection, 2 sessions, 1 Scratchpad, 2 transitions, 1 probe, any store to start from | 367 k | what is open is saved, no session is left, a change is undisturbed, capabilities belong to the session that is open, leases are given back |
| `debug` | 2 execution requests, 2 further stops, 2 `setBreakpoints`, 1 fault | 72 k | one resume at a time, pending breakpoints are replayed before a stop is shown, ends are announced, launches come to rest, nothing outlives the adapter |
| `debug_breakpoints` | 1 execution request, 1 further stop, 2 `setBreakpoints`, no fault | violation | finding 4 |
| `coverage` | 2 runs on any of 2 runners, 1 routine | 205 k | nothing persists, one instrumenter, every run ends |

Bounds. Every bound is a constant with `bound:` in its comment, and appears only
in the guard of an action of the environment (a call, a request, a fault, a
commit of another session), never in a handler. Where a set of calls or sessions is the bound
(`Cells`, `Loads`, `Clients`, ...) the identities of those that are over are used again, so
that it bounds how many are under way, not how many there are; only a coverage run is made once.

* A chain of 2 has one operation at its turn and one waiting behind it; with 2 executions, a
  change and a lease each may wait behind any other. Two Connections allow an execution
  on one after a Transaction or a chain on the other. Two sessions allow a Transaction and a
  session being opened or closed.
* Two cells in a batch are a cell and the next one; two calls are a batch and the next.
* Two values are a value that was seen and one that was written since; one row is enough
  for a history of moves on it to be taken apart from a write, and an added row for an insertion to happen twice.
* Two loads are one and the one that supersedes it; the navigation and the cancellation may come
  before, between and after both, any number of times. The blank text is a query that reads nothing.
* Two DDL transactions tell an older catalog from a newer one and give a flush two
  groups; two requests are an intent and one that supersedes it while it awaits (opening
  the Connection, closing it, removing it, saving it again, the settings, provisioning and its removal,
  closing the window, manual runs and cancellation count as requests). One fault reaches every failure path; its retries meet no second one. That
  bound is what keeps the instance finite: each listener that is lost is reopened.
* Connections do not share anything but the gate, which relates them to nothing; one of
  them, with two transitions on its tail, has a transition and what overtakes it. Two
  sessions are the one being opened and the one being closed. The theorems are for any number.
* One fault of the debugger is a lost connection or an error at any await; a second one
  would hit a session that is already ending. Two stops after the entry are one that is
  passed over and one that is shown.
* Two coverage runs compete for a routine on one runner or on two. The runs'
  loops over several routines are covered by the theorems, which are for any set of them.
* `schema_sync`, `debug` and `reading` may come to rest (every request made, the process gone, the
  tab closed), so deadlock is not checked in these and in the violations of the first two; everywhere else it is.

The run `cells_late_cancel` permutes sessions and calls of one kind, which the
specifications use only as identities. The other runs use no symmetry: most check liveness.

The type invariants of the manager, the edits, the readings, the Connections and the coverage runs are
no properties of runs: they are theorems (section 6). `CellsTypeOK`, `SyncTypeOK` and `DebugTypeOK` are checked.

## 5. Fairness

* `TimerSpec` (`ShutdownEnds`): only the steps of shutdown are fair. They are bounded by the
  timers of `settlesWithin` (`transactions.ts`), so no assumption is made on PostgreSQL or the user.
* `OperationsSettle` (`LeaseProceeds`): the operation at its turn goes on. A Statement ends by
  the statement timeout the session was opened with, dialogs are answered or dismissed, a
  lost backend rejects its query. Nothing is assumed of callers: they may keep
  queueing operations for ever, and a holder may keep its lease.
* `FairCellsSpec` (`BatchFinishes`): the same, and the awaits of a cancellation end, which
  `cancelNotebookClient` bounds by timers.
* `FairSpec` of `DataViewEdits` (`WriteEnds`): PostgreSQL answers each statement or the client fails.
* `FairSpec` of `DataViewReading` (`SupersededEnds`): clients connect or time out
  (`connectionTimeoutMillis`), sockets that were asked to end close, and the initialisation settles, whose
  queries have a statement timeout. No query of a load or a page is ever assumed to be
  answered: a user's query may run for ever, and what is superseded must end all the same. Nor is the parser.
* `FairSpec` of `SchemaSync` (`IntentPrevails`): callbacks run, commands of the engine answer or
  time out, queries and clients of PostgreSQL answer or fail, the flush and reconnection timers fire.
  Faults are bounded, so that a listener is not lost infinitely often; requests
  and DDL are bounded but not fair.
* `FairSpec` of `OpenConnections` (`LeaseGivenBack`): a transition that runs goes on (clients connect or
  time out, input boxes are answered or dismissed), Scratchpads finish their work, which
  is `LeaseProceeds` of the manager, and sessions asked to end do.
* `FairSpec` of `DebugSession` (`EndIsAnnounced`, `LaunchComesToRest`, `NothingOutlivesTheAdapter`):
  PostgreSQL answers, timers fire, the user's SQL goes on, and the client sends the `configurationDone` the
  protocol prescribes. Nobody has to step, disconnect or shut down, and no fault has to happen.
* `FairSpec` of `CoverageRuns` (`RunEnds`): the timers fire, `end()` of a client settles (it never
  rejects in `pg`), and PostgreSQL answers the statements the runner sends itself, which `lock_timeout`
  bounds. Nothing is assumed of the tests, of connections being opened, of the syntax service.

## 6. Proofs

| theorem | statement | module |
|---|---|---|
| `TypeCorrect` | `Spec => []TypeOK`; the refusal counters never become negative | `ScratchpadTransactionsProofs` |
| `RefusalsBalanced` | `Spec => []RefusalsBalance` | |
| `LeaseExclusive` | `Spec => []LeaseExcludesWork`, for any caller that keeps `Agreed` | |
| `GateImplemented` | `Spec => ImplementsGate`, the refinement | |
| `NoSessionOrphaned` | `Spec => []NoOrphanSession` | `ScratchpadSessionProofs` |
| `ShutdownComplete` | `Spec => []ShutdownClosesEverything` | |
| `CommitsAreSound` | `Spec => []CommitMeansCommitted`, for a caller that records failures in time | |
| `SequentialCallers` | `CellsSpec /\ ~habit.overlaps => Spec`: batches that do not overlap are callers the manager allows | |
| `SequentialLeases` | `CellsSpec => [](~habit.overlaps => LeaseExcludesWork)` | |
| `CellTypes`, `CancelledIsRolledBack`, `SequentialCommits` | `CellsSpec => []` of `CellsTypeOK`, `CancelledNeedsRollback`, `SequentialCommitsAreSound` | |
| `ConnTypeCorrect`, `OpenIsSaved`, `SessionsAreRegistered`, `ChangesAreLeased`, `CapabilityIsCurrent` | `Spec => []` of `ConnTypeOK`, `ConnectedIsKept`, `NoSessionLeft`, `ChangeUndisturbed`, `CapabilityOfLiveSession` | `OpenConnectionsProofs` |
| `EditsTypeCorrect`, `RemovalsAreFree` | `Spec => []` of `TypeOK`, `RemovedRowsHoldNoEdits` | `DataViewEditsProofs` |
| `UpdatesSeeWhatTheyOverwrite` | `Spec => NoBlindUpdate`, an action property | |
| `ShellHoldsWritable`, `ShellHoldsUnapplied` | `Spec => []` of `HeldIsWritable`, `HeldIsUnapplied` | |
| `ShellClearsWhatItWrote` | `Spec => ClearedMeansWritten`, an action property | |
| `ReadingTypeCorrect`, `RowsAreOfTheQuery` | `Spec => []` of `TypeOK`, `RowsOfTheQuery` | `DataViewReadingProofs` |
| `BusyViewsWork`, `WorkShowsBusy` | `Spec => []` of `BusyMeansWork`, `WorkIsBusy` | |
| `CoverageTypeCorrect`, `NothingCommitted`, `OneTransactionInstruments` | `Spec => []` of `CoverageTypeOK`, `NothingPersists`, `OneInstrumenter` | `CoverageRunsProofs` |
| `SyncTypes`, `EngineAgrees`, `NothingIsForgotten` | `Spec => []` of `SyncTypeOK`, `EngineHoldsRegistry`, `NothingForgotten` | `SchemaSyncProofs` |
| `RegistryGrows` | `Spec => SnapshotsGrow`, an action property: a published index loses no DDL transaction | |
| `DebugTypes`, `ResumesAreSingle` | `Spec => []` of `DebugTypeOK`, `OneResume` | `DebugSessionProofs` |
| `StopsAreReplayed` | `Spec => PendingReplayed`, an action property | |

All of them hold for every value of the constants: any sets of Scratchpads, Connections, sessions,
calls, rows and routines, any length of chains, tails and undo histories, any number of DDL transactions,
requests and faults. They assume only what
the modules name in an `ASSUME`: `None` is no identity, identities of different kinds differ (a batch is
neither a change nor a lease), and, in the manager, calls of changes and leases are finite (their numbers are counted).

**Leases** (`ChainInv == CallsInv /\ Remembered /\ LeaseOK`). `LeaseExcludesWork` is about a lease that is held, and is not
inductive: it holds because of what the lease waited for. `LeaseOK` says so for each
phase. When a lease starts draining it refuses new executions on its Connection and
remembers, per Scratchpad, how many operations are on the chain (`ahead`): every
operation of the Connection is among those. When they have left the chain, no
operation of the Connection is queued anywhere, and every Transaction on it is in
the list the lease rolls back (`todo`). That list can only be overtaken by a new
Transaction, which needs an execution; when it is empty the lease is granted.

That needs what is queued on a chain to execute on the Connection the chain is remembered by (`Remembered`,
which `Agreed` keeps: an execution that comes replaces the remembered Connection by its own, and those before it have
the same), and it needs the shape of the chains, `CallsInv`, which holds whatever Connection
callers execute on. `QueueOK`: operations of changes and leases belong to a call that is under way.
`CallsDistinct`: to one operation of one call. `PhaseOK`: the first
operation awaits where one of its kind may. `CurOK`: a session being opened is on the
Connection of the operation that opens it, and a session being ended is no
Transaction. `TypeOK` and `RefusalsBalance` complete `CallsInv`: the counters are the
cardinalities of the calls under way, which is why they cannot go below zero.

The proofs are laid out in that order: facts on sequences; the three moves a
chain makes (its head settles, its head goes on, a call appends to it) and what
each preserves of the chain invariants; what changes of sessions, Transactions and leases
preserve of the rest; one lemma per action, which names its moves; the theorems.

**The gate** (`ChainInv` and `IdleLeases`). Each step of the manager is mapped to one of the gate:
accepting an execution is work that starts, draining is a change that asks, granting one that is
allowed, and whatever settles is work that ends, of several Scratchpads at once when shutdown drops them.
`Allow` needs that nobody works on the Connection, which is `LeaseOK` of a lease that has nothing left to
roll back; `StartWork` that nobody has asked, which is the refusal counter being the number of its leases.

**Sessions** (`SessionInv`, `CommitInv`). An orphan would arise where a session is published over
another, so `OpensWhenNone` and `OpensItsOwn` say that a Scratchpad opens a session only while it has none, and
nobody else's; `ShutdownOrder` says what each stage of shutdown has already taken away. `CommitInv` says
that an aborted Transaction is marked failed as long as it is one, and that two operations never use one session.

**Cells** (`CellsInv`). Where batches follow one another, every step of the cells is a step of the manager
with a caller it allows, since a batch on its own is alone on its Scratchpad's chain (`CellsStep`,
`OneBatch`): that is `SequentialCallers`, and with it `CommitInv` and `ChainInv` hold. Where they overlap, a batch executes on
an Association its Scratchpad may have left while another executes on the next, so that
`Remembered` and `LeaseOK` fail (section 7). `CallsInv` and `SessionInv` need neither: an execution on any Connection
(`CallerStep`) keeps them, and so does a cancellation that ends the query of another batch
(`QueryCancelled`), which breaks `CommitInv` and takes overlapping batches. The
executions on the chains are those of the queued batches, one each (`BatchOps`, `OneOp`), a batch on its own is
alone (`OneBatch`), and a cell is bound to the session its execution works with (`BoundOK`). What a cell shows as
cancelled stays so (`RolledBackOnly`) because its Transaction is failed when it is shown, and a
session cannot become another Transaction: it would have to be opened again while the cell is bound to it
(`NotReopened`), or to end under a Transaction, which `Live` excludes (the session of a Transaction is one
nobody has told to end), and that needs `Owned` (what one Scratchpad holds no other works with or is going
to roll back). TLC found no violation of these conjuncts on the instances of the run `cells`, before they were proved,
in searches that were not exhaustive. The model assumes that the pid being cancelled is not given to another session
(`IdentitiesKept`), so the theorems do too.

**Connections** (`ConnInv`). `ConnectedIsKept` is a statement about every step at which a window may
be closed, so `StepOK` says for each await of a transition what the store and the registry are there; `LiveOK`
that a session in the registry is the one that connected; `LeaseOK` that a transition beyond its lease has it and
nobody works; `ProbesOK` that a probe still current asked the session that is still open.

**Edits** (`EditsInv`, `Shell`). Undo brings back any snapshot, so calm (no edits on a removed row)
must hold of everything ever remembered. `LockedAsSeen` says that what the statements have changed is
locked, so that the value replaced is the one seen when COMMIT arrives. What is said of the surfaces without
an undo stack (`ShellInv`, `UnappliedInv`) is false with one; section 7.

**Reading** (`ReadingInv`). The rows shown are of the query because the latest load reads it
(`ReadsTheQuery`), which is inductive only with what the parser still owes: the text is the last one
that was asked for (`Analysed`), every text asked belongs to a load of its own (`Queued`), and nothing
reads before the first text (`Blank`).

**Busy** (`BusyInv`). `BusyMeansWork` and `WorkIsBusy` hold as long as nothing was overtaken while it closed the open
rows: a cancellation resets the view's state whatever started meanwhile. They need that the session the document holds
belongs to the load that raised the generation last, and that this load has ended (`SessionIsLatest`); that a navigation
belongs to a load that has ended, whose number is never given to another load as long as somebody has it
(`MovesOfFinished`); and that the open session has one navigation (`OneMove`), which needs `WorkIsBusy` in turn. The run
`reading` has one text besides the blank one; its invariants were proved for any number of them.

**Coverage** (`CoverageInv`). Nothing persists because a statement of the tests is never on the wire behind a
ROLLBACK nor outside the transaction (`TestsOK`), although the callback outlives its run: it is
refused once the signal is aborted, and a run leaves its callback only when aborted. `WireOK` says that
cleanup never begins under a statement of the runner's own; `LocksOK` and `LocksApart` that what is instrumented is locked, and
advisory locks exclude each other until the backend is gone; `TargetsOK` relates the runner's set to its runs.

**Schema Sync** (`SyncIInv`). That nothing heard is forgotten is a statement about where a notification
is: on the wire, with the listener, in a group, in a refresh, in a run, in what the run read, in the registry, or in
the debt. `Owed` says it of all catalogs that may be shown next, the registry and what the first run
holds: what is missing from either is `Kept` (on its way to a refresh) or owed, and the refresh that pays the debt,
which has started with the debt it read, brings everything that was heard before it. It needs `Grows` (what
the first run is to publish keeps what is published, because the runs of one database are a chain), `Linked` and
`Named` (the run of a refresh has the objects that the refresh was given, and its answer is that of the run), `Sound`
(the lifecycle waits for the one refresh it asked for, and a flush belongs to a listener that is heard), and `Unheard`
(nothing has reached a listener before LISTEN took effect, and a Connection that was removed left nothing behind).
`RunsInv` alone gives `EngineHoldsRegistry` and `SnapshotsGrow`. The proofs first say what may happen to a chain (its
first goes on, it ends, one joins, some are marked), then what a step of Schema Sync, whichever it is, has to keep
for the debt to be right (`Keeps`), and one lemma per action shows that it does. `IntentPrevails` is liveness.

**Debugger** (`DebugInv`). Who waits for a step resumed a session that was suspended, which takes it out of that state
until its own answer: `Resumed` says that there is one such handler, in the state `resuming` or after the end, and never
while the listener waits for its target. That the target is there needs `configurationDone` to be over, and the launch
before it (`Launched`: what the launch opened is held until the session ends). `Replaying` says that whoever
leaves the entry has set or refused the breakpoints that were pending; only `configurationDone` shows the first stop.

Only model-checked. Every invariant and every action property of a passing run is a theorem. What is left is liveness
under fairness, which rests on ENABLED and is out of the prover's reach: `ShutdownEnds`, `LeaseProceeds`,
`BatchFinishes`, `WriteEnds`, `SupersededEnds`, `IntentPrevails`, `LeaseGivenBack`, `EndIsAnnounced`,
`LaunchComesToRest`, `NothingOutlivesTheAdapter` and `RunEnds`. The instances of the runs bound
what they show of these.

## 7. Disagreements with the documentation

Shown by a run:

1. `cells_late_cancel` (`registerCommands.ts:1133`). Stop pressed while a cell shows its result
   cancels what the session does next: the first query of an overlapping batch, outside the
   `try` that records a failure. PostgreSQL aborts the Transaction, the Workbench still offers
   Commit, and the COMMIT rolls back and is reported as a success
   (`docs/user/notebooks.md:68`: "A failed Transaction can only be rolled back.").
2. `edits_dropped` (`pendingEdits.ts:207`). Moves are refused during a write so that nothing is
   dropped without a word (`pendingEdits.ts:188-191`), but the undo and redo closures are not:
   what they bring back after the statements were built is cleared by COMMIT.
3. `sync_listen_gap` (`ddlSync.ts:637`). DDL committed after the automatic index read the
   catalog and before LISTEN is never heard and never owed, so the index is presented as
   fresh without it (`vscode-extension/README.md:203-206`).

4. `debug_breakpoints` (`PlpgsqlDebugSession.ts:606`). "latest request per source wins"
   (`PlpgsqlDebugSession.ts:280`), but a `setBreakpoints` request that arrives once the listener is there is
   applied at once and leaves an older pending one of its source, which `configurationDone` replays after it
   (`:757`).

Met while modelling, and not the subject of a run:

* Disconnecting a Connection is said to "require the active Transaction to be resolved or the operation to be
  cancelled" (`docs/user/notebooks.md:68-70`). A lease rolls the open Transactions of its Connection back
  without asking (`transactions.ts:200-211`), as the comment there says and `transactions.test.ts:140-150` expects
  (`RollNext`).
* Undo after a save holds an added row again that is already in the table, and the next
  save inserts it a second time (`pendingEdits.ts:148`, `:420`). `HeldIsUnapplied` is about
  views without an undo stack and does not show it; nor do `HeldIsWritable` and `ClearedMeansWritten`
  speak of undo, whose part in a write is finding 2.
* A second save during a write returns at once and is reported as a success
  (`pendingEdits.ts:261`); when the answer of COMMIT is lost, what was committed stays held
  (`CommitUnacknowledged`).
* A row to be removed is identified by its key: it is removed whatever others have
  changed in it since it was loaded.
* Batches that overlap: one Connection is remembered per chain, so a lease on another
  does not wait for an execution of an earlier batch, and `LeaseExcludesWork` fails (a change of Association
  while a batch goes on, a batch started after it, a lease on the Connection that was left); a cell started in Mode MANUAL may open
  its Transaction after the Scratchpad was switched to AUTO.
* A Transaction marked failed while its COMMIT is in flight is kept as failed although
  PostgreSQL committed it.
* A run of the index that read the catalog before a notification arrived, or before the
  listener was lost, clears `staleScopes` when it publishes: the views show the index as available
  while its refresh is pending or owed. `NothingForgotten` says the refresh is not lost.
* Schema Sync. A command advances the epoch before it does anything, so that it takes over from what was
  under way, and a command that fails reconciles nothing (`stranded`; `IntentPrevails` excepts it). When the
  client of `provision` or `removeProvisioning` cannot connect (`ddlSync.ts:308`, `:338`), the listener has been
  stopped, the status stays "listening" and the index is not marked stale
  (`vscode-extension/README.md:203-206`); when the script fails, the status says so, and no
  reconnection is scheduled. When provisioning is refused because the setting has just been switched off,
  the restart that would have stopped the listener has been superseded. What was missed is owed in every case.
* A Connection that is saved or edited is announced with no id (`notifyConfigurationChanged`,
  `openConnections.ts:513`), so that nothing is reconciled before it is opened, although one
  that is saved when the window opens is synchronized at once.
* The status of a database may stay "indexing" when a DDL refresh fails after
  synchronization was disabled, and "available" when the engine's session closes and its
  registries are cleared.
* `runPostgresDatabaseIndex` is said not to reject the older caller of a superseded run
  (`indexController.ts:1003`); the older caller is rejected with "source scope changed".
* Renaming a Connection, editing it or changing its password reads it, waits for a dialog and
  writes what was read: a Connection removed meanwhile is saved again, or its password is, although the removal
  said "Its saved password will be deleted" (`commands.ts`). A connection attempt in progress uses the
  configuration it read before an edit.
* Debugger. A disconnect while the launch is being prepared leaves the two connections open until the
  process exits, and the launch request is answered twice. The status may become suspended after
  terminating. What `configurationDone` throws when it releases the entry is caught by nobody. A target suspended
  at a disconnect is aborted, not resumed. A `setBreakpoints` request between `listenerReady`
  (`startDebugLaunch.ts:91`) and `startPreparedTarget` is neither applied nor kept.
* Coverage. The ladder terminates a backend by its pid on another connection: a backend that has ended
  by itself in between may have given its pid to another session.
* Data View. `load` and the cancellation write status and busy after `await closeSession()` without
  asking whether they were overtaken (`dataViewDocument.ts:531`, `:602`): while a client is slow to end, a
  superseded load or a late cancellation clears the busy of a newer load, or leaves the view
  loading, and two navigations may append the same page twice (of which a later cancellation ends one, `SupersededEnds`), where `dataViewDocument.test.ts:8` and `:76`
  test that a superseded one does not. `BusyMeansWork` and `WorkIsBusy` hold as long as nothing was overtaken (`upset`).
* An initialisation that was rejected is remembered (`DataViewReading`, `NotInitialized`): every Refresh of
  that view fails until it is opened again.
* `setText` assigns the text before its parse is awaited (`model.ts:67`): a load in between pairs
  the new text with the old analysis, and a parse that is rejected leaves them apart, with no load; the same text
  given again returns early. The client `relationColumns` opens is reached neither by a cancellation nor by disposal.

## 8. What is not modelled

* Scratchpads: Debug cells, paged results and the commands that only list
  or create Scratchpads; the session of Mode AUTO is one phase.
* Data View: the text of statements, column policies and several tables; which pages stay in memory and
  how rows are displayed; navigation that reads nothing; composition of queries, hidden columns, export.
  The surface (with or without an undo stack) is chosen once: toggling auto-save while a view is open is left out.
  A cancellation may come at any time after the first load, the parser answers in order, and continuations
  one event resumes may be interleaved with other events, which only adds behaviours.
* Index and synchronization: several databases over one engine, the
  acceptance gate, symbol queries, `dispose` of the index. Changes of the support schema, an invalid
  configuration, a Connection replaced by one of another id, DDL triggers dropped by another session and the end of
  abandoned startup clients. After `dispose` only what is under way goes on. Removing or closing a Connection
  is one step for the index, although its client is gone a little before the change is announced. LISTEN takes effect in the step in which its answer
  arrives; in PostgreSQL it does so somewhat earlier, which narrows finding 3 without closing it.
* Connections: `dispose`, the test of a draft, installation of extensions, parsing of what the user types.
* Debugger: inspections (stack, scopes, variables, evaluate, setVariable) appear where they notice a lost
  connection; function and exception breakpoints are choices; breakpoints are those of one source.
* Coverage: a test callback that sends several statements at once, or leaves one unawaited: those of the code
  send one at a time (`coverage/src/schema.ts:154`, `runtime/src/coverage.ts:54`, `runProfile.ts:482`), and the client would
  take more. How a run is reported (cancelled, timed out, failed), coverage markers, instrumentation
  of the source, the check of a run's id. An aborted transaction of PostgreSQL is still a transaction here; the
  order of locks is any; a signal aborted beforehand is one aborted at once. Reading the backend's pid is neither
  raced nor cancellable, as in the code.
* Runtime sessions: a map whose entries one call uses at a time; the limit may be exceeded by calls made together
  (`sessions.ts:41`). Orphan sessions: one conditional statement of PostgreSQL. Captured results: a bounded list
  without awaits.
* SQL language (`packages/sql`, a large part of the code with its generated tables), Scratchpad file format, catalog queries:
  pure functions of a text or of rows, without state between calls; their inputs are too rich for a bounded
  instance to say more than their unit tests do. Views (`packages/views`, `packages/presentation`, trees and cockpit of the
  extension): rendering. MCP server, shell, coverage user interface: dispatch to the parts above. Docker, sources,
  code lenses, scripts: I/O. These are most of the repository's lines, which is why the modules map a small share of them.
