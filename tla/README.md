# Verification of googlysync

googlysync is a Google Drive client for Linux: a Go daemon that watches a sync
folder, queues what changed for a sync engine, keeps metadata in SQLite and
tokens in the desktop keyring, and answers status questions over a Unix socket.
This directory holds TLA+ models of the daemon, the TLC runs that check them on
small instances and TLAPS proofs for instances of every size. Paths below are
relative to the repository root.

    tlc -workers 2 -config EventPipeline.cfg MCEventPipeline.tla
    tlapm EventPipelineProofs.tla

`PROJECT.json` maps each definition to the lines it models and lists runs,
theorems, findings and hazards.

## 1. The system

| Component | State | Operations | Talks to |
|---|---|---|---|
| Event watcher `internal/fswatch` | inotify watches, `pending` map, channel `out` (256) | `Start` walks the tree; `run` selects over notifications, errors, a 200 ms tick, cancellation | kernel, status store, forwarder |
| Status store `internal/status` | snapshot, event ring, ring size | `Update`, `AddEvent`, `SetMaxEvents`, `Current`, each under one mutex | written by watcher and engine, read by IPC |
| Sync queue, engine `internal/sync` | bounded channel; loop position | `Enqueue` (drops when full), `Run` (event, 5 s tick, cancellation) | forwarder, status store |
| Daemon `internal/daemon` | goroutines, two contexts | `Run`, `Close` | everything |
| Metadata store `internal/storage` | seven tables | one statement per method, one connection | auth service; later the engine |
| Migrations `internal/storage/migrations` | schema | `NewStorage` | SQLite, goose |
| Auth service `internal/auth/auth.go` | signed-in account under a mutex | `SignIn`, `SignOut`, `RefreshAccessToken`, bootstrap | store, keyring, OAuth |
| OAuth flow `internal/auth/oauth.go` | listener, `codeCh`, `errCh` | `runOAuthFlow` | browser, Google |
| IPC `internal/ipc` | socket file, gRPC server | `Start`, `Stop`, status and auth queries | status store, auth service |
| CLI, TUI `cmd/googlysync` | TUI model | flags; poll, refresh, toggle | IPC |
| Configuration `internal/config` | none | resolve defaults, file, environment, options | all |
| Logging, wire, protobuf | none | construction | all |

What is hard, and what makes each part correct:

* *Watcher.* Notifications arrive while a flush publishes, a deadline is renewed
  while it expires, the kernel queue overflows, and several changes become one
  label. A change must not be forgotten, reported too often, or reported as its
  opposite. The walk runs while the tree changes: no directory may be missed and
  no ignored one watched.
* *Status store.* Two goroutines overwrite the whole snapshot. What is shown must
  be what was recorded and what the engine is doing.
* *Queue.* Two bounded channels drop when full. Losses must be countable and
  confined to full channels; order must be kept.
* *Shutdown.* Cancellation finds the goroutines anywhere; both must stop.
* *Metadata store.* Foreign keys, unique indexes and upserts keyed by one column
  and looked up by another must keep tables consistent over any calls.
* *Auth.* Database and keyring share no transaction; a crash, a failing keyring
  or a refresh in flight lies between any two steps.
* *Daemon process.* `Run` stops the server from one goroutine while `Start` sets it
  up in a second and `Serve` runs in a third; a daemon may be killed and leave its
  socket file; two daemons may use one path. A lone daemon must be reachable, a
  signal must end it, and it must clean up on every way out.
* *Status program.* Each message starts the next command: a dropped one stops the
  polls, a doubled one lets answers overtake each other.
* *Configuration.* Four sources per field, resolved again by every process, and by
  the status program at every poll; all must end at the same socket.
* *OAuth flow.* Handlers send to channels nobody receives from any more, while
  `Shutdown` waits for the handlers without a deadline.

## 2. Modules

### The event path

`FsEvents` — the operation bits of fsnotify, `normalizeOp`, `mergeOp`.
`StatusStore` — the store's methods as functions from store to store.
`FsWatch` — users, kernel queue and clock as environment; `Start` and one action
per select case and per step of a flush. `wpc` is the position of the goroutine:
`select`, `publish` (events picked, not yet recorded), `send` (recorded, not yet
sent). That splitting is what lets the other goroutines run between `AddEvent`
and the send. A flush takes the whole set `ready` and publishes it in any order,
as Go's map iteration does.
`SyncEngine` — forwarder (`hand` is the event it holds), queue, engine. `epc` is
`begin` before the syncing update and `end` before the idle one.
`EventPipeline` — EXTENDS the first, INSTANCEs the second over shared `out`,
`store` and `cancelled`, as `Daemon.Run` wires them; properties; fairness; and
the named parts of the inductive invariant.
`LossyFifo` — the abstract specification of the way to the engine: send, lose
anywhere, deliver in order. `EventPipeline` implements it under
`sent <- recorded, transit <- queue \o hand \o out \o sending`. Its promise, `InOrder`,
is stated there: what was received, then what is in transit, is part of what was sent.

Variables without a counterpart in the code are ghosts and marked so: `told` (when
a change of a path last entered the kernel queue), `recorded`, `received`, `drops`.

### The watched tree

`WatchTree` — `addRecursive` at the grain of its system calls: the watch on a
directory (`AddWatch`) and its listing (`ReadDir`) are separate steps, and users
make, move in, fill and remove directories in between. An error gives the walk
up (`GiveUp`): at `Start` the watcher then stays off, in `handleEvent` it is
dropped. Entries are visited in any order, a superset of WalkDir's. `Visible` is
the least set of paths reachable from the root without an ignored name.

### The metadata database

`MetaTables` — tables as functions from primary key to row, and the SQL of
`store.go` as functions from database to database: `Put` (upsert), `Insert`,
`Drop`, `DropAccount` (with its cascade). A refused statement changes nothing.
`MetaStore` — one action per writing method, from a new database or one migrated
from schema 1 with files in it.
`PathIndex` — the abstract specification of the file records as an index by
account and path, implemented by `MetaStore`: a file has one place (`OnePlaceEach`).
`PrefixSearch` — EXTENDS `MetaStore` with the prefix lists: `escapeLike`, the
pattern, and SQLite's LIKE as a recursive function over the positions of pattern and
text. Paths are sequences of characters here: the property is about the conversion,
and about the rows that `ORDER BY path LIMIT ?` keeps; a limit of zero or less is 500.

### Signing in and out

`AuthService` — one action per effect of `SignIn`, `SignOut` and
`RefreshAccessToken`, over the same tables and a keyring that may fail at each
call. `Crash` ends the process with its calls anywhere; `Restart` is the
bootstrap. An account row carries what the properties need: address, primary
flag. Users are goroutines that sign in and out, refreshers those that refresh.
The ghosts `stuck` and `cut` name the accounts a keyring error or an interrupted
call left half done.
`OAuthFlow` — `runOAuthFlow` in the middle of a sign-in: connections, handlers,
the goroutine that serves and the flow, which meet at two channels of one slot.
What a callback brings is nondeterministic: a code or an error (wrong state, error
parameter, no code). `NothingLeftRunning` says what a returned flow leaves behind.

### Daemon processes and clients

`IpcServer` — `Start`, the goroutine of `Serve` and `Stop`, each at the grain of
its effects, for every daemon; the socket path is one variable, since all daemons
of a user share it. A closing listener unlinks the path whoever is there; a killed
process unlinks nothing. `Stop` reads `grpcServer` and then `listener`, and may find
either unset. WatchStatus streams are held by clients for as long as they like.
`Listen` may fail for any reason, and so may the Accept of a server that serves (`AcceptFails`).
`DaemonRun` — EXTENDS it with `runDaemon` and `Daemon.Run`: start of the process,
signal, select, `Stop`, `Close`, exit, and SIGKILL at any step.
`StatusTui` — `Update` and the poll command: every command ends in one message, so
the state is what each chain of poll and answer is at, and what `View` shows: a status,
or an error in front of the last one.
`Config` — `NewConfigWithOptions` field by field as operators.
`Processes` — daemons, the status program and their configuration together:
INSTANCEs `StatusTui` with `reachable` computed from the sockets of `DaemonRun` and
the path each side resolved.

## 3. Runs

| Run | Asks | Bounds and why they are enough |
|---|---|---|
| `pipeline` | accounting, status, merging, spacing, forgotten changes, LossyFifo | two files changed three times, every channel of one slot, a log of one event: all channels and the kernel queue overflow, two and three notifications merge, the ring slides, flushes publish two events in either order |
| `live` | liveness, types, sizes of zero | one file ignored, kernel queue of one (overflow), `EventLogSize` and `SyncQueueSize` of zero |
| `presence` | finding 1 | three changes of one file |
| `watch_tree` | coverage and exclusion of the walk, its end | two directories in a third, a directory below an ignored one, three changes after an arbitrary start: a change can hit between watch and listing, be queued, and be undone |
| `walk_gave_up`, `files_before_watch` | findings 2, 3 | the same tree, four changes |
| `meta_store` | keys, cascade, creation times, path index, prefix lists | four calls from any initial database: two accounts, two files, two paths give every conflict of two rows; prefixes of up to two of four characters, with both wildcards, the escape and a letter the paths have in both cases; limits of one and of none |
| `orphan_files` | finding 4 | the same |
| `auth_service` | database, keyring and state against each other | no bound on calls, failures or restarts: two Google accounts, two addresses, one user, one refresher |
| `daemons` | socket path, race of Start and Stop, streams, end after a signal, and that no step on the way to it is blocked | two daemons, three starts, one client with a stream: a daemon beside another one, and after one that stopped, failed, lost its listener or was killed |
| `processes` | meeting at the socket, recovery from errors, polls that go on, order of answers | one daemon started twice, one refresh, two changes of the status, every choice of file, variable and flag from two texts |
| `oauth_flow` | what is left running, when the flow returns | three connections and the server's own error: two answers of one kind and one of the other |

The clock of the event path stops at `MaxTime` unless a pending event is not yet
due, so every debounce can expire. `Debounce = 1` makes "before", "at" and
"after" the deadline distinct. Symmetry is used where files, or names, are
interchangeable; never with liveness.

`CHECK_DEADLOCK FALSE` is set for the models that stop by design: a cancelled
daemon, a flow that returned, and bounded numbers of changes, calls and starts.
`auth_service` has no such end and is checked for deadlock.

### Fairness

Straight-line steps (`StartRun`, `RecordEvent`, `SendEvent`, `BeginSync`,
`EndSync`, `Forward`, `Enqueue`) get weak fairness: the Go scheduler runs every
goroutine that can run, and the sends have a default branch. Select cases get
strong fairness, because Go picks uniformly among the ready cases: one that is
ready again and again is taken. That is a claim about probability one and it is
needed: with weak fairness alone a tick that is always ready starves the rest.
`Tick` and `Cancel` are not fair, nor is any user. In `WatchTree` one weak
fairness condition says that the watcher's only goroutine runs on. In `DaemonRun`
the goroutines of a process are weakly fair, one condition for `Run` and one for the
server; starts, signals, kills and clients are not. In `Processes` the chains of the
status program are fair too, and keys are not. In `OAuthFlow` the flow, the goroutine
that serves and each handler are fair, connections and cancellation are not; a
connection without a request is ended by the read timeout.

### Findings

1. `presence` — REMOVE outranks what follows it in `mergeOp` (`events.go:30`): a
   file replaced within the debounce interval is reported removed.
2. `walk_gave_up` — one vanished directory ends a walk, its siblings stay
   unwatched (`fswatch.go:186`, dropped at `:134`).
3. `files_before_watch` — files in a new directory before its watch are never
   reported (`fswatch.go:132`).
4. `orphan_files` — `DeleteAccount` leaves file records behind, against its
   comment (`store.go:138`).

### Behaviour worth knowing that no text of the repository contradicts

* The undo of a failed sign-in deletes the token reference of the account also when
  an earlier, valid sign-in had stored it (`auth.go:119`): the state says signed in,
  refreshes fail, and the next start is signed out. `StoresAgree` counts such an
  account as cut.
* A refresh that overlaps a sign-out does not bring the reference back (`auth.go:165`): the
  account row is gone and the foreign key refuses it. `StaysOut` proves it for all callers,
  also where `StoresAgree` looks away.
* Two callbacks of one kind, or a callback with an error beside an error of the
  server, can leave `runOAuthFlow` in `Shutdown` for ever (`oauth.go:125`).
  `FlowReturns` says that nothing else can, and `NoJam` why.
* The second daemon on a path takes it from the first, and the first to stop
  removes the file of the second (`server.go:64`, and Go's listener on close).
  `AloneMeansReachable` is therefore about daemons that met no other one.
* `Run` skips `Close` when the server could not start or its Accept failed for good
  (`daemon.go:94`), and only then (`UnclosedOnlyAfterFailure`).
* A daemon signalled before its server accepts may leave its socket file (`Stop`
  finds `grpcServer` and `listener` not yet set): the exception in `SocketRemoved`.
* After an answer the status program polls again at once; its interval is used after
  errors only (`tui.go:61`). Each refresh key starts another chain of polls for good.
* An environment list made of commas only empties `IgnorePatterns` (`config.go:245`).

## 4. Proofs

Eight modules hold theorems, each for every value of the constants. The assumptions
are the ASSUMEs of the modules, evaluated by every run.

| Module | Proves |
|---|---|
| `EventPipelineProofs` | every property of the `pipeline` run, the refinement of `LossyFifo` included (`PipelineIsLossyFifo`); `NoEarlyLoss`; the way to the engine: `DeliveredInOrder`, `GetsRecorded`, `Learns`; `MergeForgetsOrder`; under fairness `HeadIsTaken`, `EngineStops`, `BothStop`, `OverflowComesOut` |
| `WatchTreeProofs` | `TypeCorrect`, `IgnoredStayUnwatched`, `NoBlindDirectory` for trees of any shape and depth |
| `MetaStoreProofs` | `TypeCorrect`, `NothingDangles`, `TimesAreKept`, the refinement `FilesIndexed` and, through it, `OnePlaceOnly` |
| `PrefixSearchProofs` | `PrefixListsAreExact` for paths and prefixes of any length |
| `MetaTablesProofs` | lemmas on `Put`, `Drop` and `DropAccount` for the stores above and below |
| `AuthServiceProofs` | every property of its run: `TypeCorrect` and `StaysOut` for any callers; `PrimariesPerUser` for any finite number of users, however their calls overlap; `NothingStranded`, `SessionsAreKnown`, `SignInStoresAll`, `StoresStayTogether` for any users who are not in calls about one account at the same time, and `OneUserIsEnough` |
| `ProcessesProofs` | of `DaemonRun`: `TypeCorrect`, `AloneReachable`, `SocketsAreRemoved`, `OnlyFailuresLeaveOpen`, `NeverStuck`, and that signalled daemons end, `DaemonsEnd`; of `Processes`: `DaemonsUndisturbed`, `PolledDaemonsEnd`, `PollsMeet`, `NeverGoesBack`, `PollsGoOn`, `ErrorGoes`, `ErrorGoesFromAll`; of `Config`: `SizesPositive` |
| `OAuthFlowProofs` | `TypeCorrect`, `NothingRuns`, `NoJam` for any callbacks; under fairness `FlowDecides`, `ConnectionsEnd`, `Returns` |

Every safety property of the passing runs is proved; of the two that speak of ENABLED
the part about the reachable states (below).

### The arguments

Hardly any property is inductive as it stands. The strengthenings are at the end of
the component's module or in its proof module:

* `Shape` says which locals are in use at which `wpc`; with it, every step adds
  one to `recorded`, moves an event, or adds one to `drops`.
* `StatusInv` adds that ring and snapshot agree; `NewestAppend` is the lemma that
  trimming at each append keeps exactly the newest events of the history.
* `StampsInv` says no stamp lies in the future, and that a path is in `ready` or
  `pending` but not both; `SpacingInv` extends spacing to what is not yet
  recorded; `ChangeInv` follows a change from kernel queue to `pending` to
  `ready` to `recorded`; `GoneInv` follows the news that a file is gone along the
  same way, and rests on `MergeKeepsRemoval`. They are proved together, as
  `NewsInvariant`, since each step of one needs the others.
* `LossyFifo` sees a step of the pipeline through the concatenation of the four
  places an event can be at. A step that moves an event between two neighbours
  leaves the concatenation as it is (`Grouped`); a drop removes one element from its
  middle (`OneLess`, `WithoutMiddle`); only `RecordEvent` and `ReceiveEvent` touch its
  ends. `Shape` supplies that a hand holds one event at most.
* From file to engine: `InOrder` is an invariant, as an increasing map of positions
  survives a loss (`PartLoses`) and an append (`PartGrows`). With the accounting,
  and nothing dropped, that part is as long as the whole, and an increasing map onto
  as many positions is the identity (`WholePart`): the engine has what was recorded,
  `GetsRecorded`. What is proved of the records then holds of what the engine
  learns: `Learns` needs both channels and the debouncing, `Debounced` spaces the
  events the engine takes also after drops.
* `MergeForgetsOrder` is why finding 1 cannot be mended inside `mergeOp`: the labels are
  merged by a maximum, so the order of the notifications is gone.
* `VisibleInv` says that whatever is watched or listed is visible, and whatever
  is announced or to be visited lies in a visible directory. `CoverInv` says that
  a directory in a watched one is itself watched, to be visited, announced in the
  kernel queue, or in the directory being listed. When nothing is left to visit
  or handle, the watched paths are thus closed under "directory below", and as
  `Visible` is the least such set it lies inside them: instantiating the
  definition of `Visible` replaces an induction over depth.
* `StoreInv` joins types, foreign keys and unique indexes: at most one file has a
  place, which makes the CHOOSE of `AtPath` a function, and each upsert, move and
  delete a step of `PathIndex`. `OnePlaceOnly` is proved of `PathIndex` alone.
* LIKE: the pattern of a prefix is a sequence of pieces, one or two characters for
  each character of the prefix, and a percent sign. `LikeFrom` is CHOOSE of a function
  that satisfies its equation; `MatchExists` builds one, and `LikeFromLocal` says that
  any two agree. Going along the pieces, `LikeIsBeginsWith` shows that a piece takes
  exactly its own character, case aside, and that only the last sign is a wildcard.
* In `AuthService`, `StepsOf` is what a call has done by the step it is at, and
  `AgreeInv` is `StoresAgree` while calls are under way. Both need that no other user
  calls about the same account meanwhile: `AccountsApart`, the hypothesis of four theorems.
  The code has no lock that sees to it; one user meets it (`OneUserIsEnough`).
* Sign-ins that overlap may all read an empty list of accounts, so with two users two
  accounts can be primary, and no more than that: `PrimariesCounted` says that the primary
  accounts and the users about to store one are together no more than the users. A user is
  marked only when there was no account at all, and a marked one becomes one primary account.
* In `DaemonRun`, `LifeInv`, `SelectInv` and `SocketInv` tie the four program counters
  of a process to the listener, and `AloneInv` keeps the path free between the removal
  of an old file and `Listen`.
* `OneChainInOrder`: before the first refresh only one chain runs, and its answer is
  no older than the last status shown, which an error does not make the program forget. `FlowInv` and `AnswersInv` say who brought what is in a
  channel, from which `NobodyWaitsAlone` follows.

### Induction and liveness

The library's induction theorems take an operator as parameter, which no installed
prover can instantiate. Where a proof must go along a sequence, the property is a SET
of numbers instead: `LeastNatural` says that a nonempty one has a least element (from the
well-foundedness of `<` on Nat, a fact about sets), so a least counterexample exists
and its predecessor is none.

Liveness is proved where the way to the goal is a fixed chain of phases. A fairness
condition is used as it stands: a step that stays enabled (WF), or is enabled again and
again (SF), is taken. Its ENABLED is no formula the provers can open, as that takes
an evaluation of the whole action; so the proofs leave it closed, and every liveness
theorem has one hypothesis that links it to the state:

* `NothingElseIsAsked` (in three proof modules) and `NothingElseIsAwaited` (for the chains of
  polls) say of each fair step that, when its guard holds, ENABLED of it holds.
  The guards are written out there. These are facts about the definitions of the
  actions, whose remaining conjuncts assign each variable, and no assumption about
  reachable states or the environment. TLC, given them as
  invariants of the instances of the runs, finds them true in every reachable state.

What the guards need of the reachable states is proved, from the inductive invariants:
`NeverStuck` that a daemon that is to end waits for its own `Serve` at most, and for that
only when it returns; `PollsGoOn` that the first chain of polls never ends; `RoomToAnswer`
that a handler without rival finds room; `PublishInv` that the loop over `ready` has an
event to publish. A Stop that waited for streams, as GracefulStop does, would break the first.

Two laws of temporal logic are inductions over formulas and hypotheses where needed. Both are
true of every behaviour when the sets are finite, and they mention no action:

* `EachThenAll`: if each of finitely many things settles, there is a time when all have.
  `ErrorGoesFromAll` needs it for the chains, `Returns` for the connections.
* `FewerThenNone`: if of any number of events left fewer are left later, or none, then none
  are left in the end. `BothStop` and `OverflowComesOut` need it for the loop over
  `ready`; that the loop removes an event in each round, and that a flush collects
  finitely many (`FlushedIsFinite`, from finitely many files), is proved.

The watcher and the engine stay in no phase for ever but their select, and there
strong fairness chooses: this is the argument of `EngineStops`, `HeadIsTaken`, `BothStop` and
`OverflowComesOut`. In `OAuthFlow` an answer decides the flow (`FlowDecides`), after which no
connection is opened and each open one ends (`ConnectionsEnd`).

`DaemonsUndisturbed` shows that `Processes`, with its fairness, implements `DaemonRun` with
its own; `PolledDaemonsEnd` is `DaemonsEnd` carried over.

### Only model-checked

* The ENABLED part of `ShutdownNeverStuck` and `PollingGoesOn`: that a guard that holds is
  all a step asks for.
* `ChangesAreProcessed`, `EventsReachEngine` and `TreeGetsWatched`: what has to drain is
  refilled meanwhile, by users whose changes only a bound ends, so the descent is over
  several counters at once.
* The counterexamples.

## 5. Not modelled, and why

* Directories renamed away, the removal of the sync root, and symbolic links:
  decided by fsnotify and the kernel, outside the repository.
* Message texts and `UpdatedAt` of the status, log lines: nothing depends on them.
* A sign-in whose OAuth flow, or whose client id, fails: it has no effect that
  `AuthService` could see, so the flow is a module of its own.
* The order of `ListPendingOps` and `ListAccounts` within one second: SQLite's choice.
* PKCE, JWT claims, protobuf conversions, flags and the layout of the event list:
  conversions without state. Ping and `status --once` make one call each.
* That a daemon that can be reached answers within the 3 s of a poll, and that gRPC
  connects through the socket path it is given, are assumptions of `StatusTui`. A field
  of `Server` that `Start` has set is seen by a later `Stop`: the code has no lock
  there, and the model gives the race the outcomes "set" and "not yet set".
* A caller of the auth service: nothing calls these methods yet. The theorems cover any
  number of users, the run has one. With two whose calls overlap about one account
  `SessionHasAccount`, `NoStrandedSecret` and `SignInComplete` fail, as the mutex of the
  service covers the reported state and not the calls. Two sign-ins that overlap can make
  two primary accounts; a third is excluded (`PrimariesPerUser`).
* A `Start` that cannot remove an old socket file (`server.go:64` ignores the error): the
  directory is the user's own. Its `Listen` would fail, which is modelled.
* Logging, wire and generated code: construction only.

## 6. Plan

All modules of the plan are written. Every safety property is proved, and every liveness
property but three under the hypotheses of section 4. What could follow:

1. A lock in the auth service, once something calls it: `AccountsApart` is its
   specification, and one primary account in all what it could promise beyond it.
2. The engine, once it reads the metadata: order of pending operations, retries, and
   the composition of `SyncEngine` with `MetaStore`.
3. `EventPipeline` inside `DaemonRun`, so that the cancellation of the one is the signal
   of the other (today `Cancel` may happen at any step, which covers it).
