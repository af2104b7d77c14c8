# RelayLab in TLA+

TLA+ modules of RelayLab, a lab that runs small experiments through a gRPC
runner, keeps what it observed, and has the runs reviewed. The modules are
translated from the source under `src/`; TLC checks them on small instances,
and TLAPS proves the most important properties for all values of the
constants. `PROJECT.json` lists the runs, the mutants that show that each
property can fail, the source lines of every definition, the findings, the
hazards and the theorems.

## The system

| Part | State it keeps | Operations | How it interacts |
|---|---|---|---|
| Runner (`runner/src/app.ts`, `store.ts`) | SQLite ledger, one row per operation ID; a map of executions in progress; a closing flag | `executeRun`, `getExecution`, timer of slow work, recovery at start, `close` | called by coordinators over gRPC with a deadline |
| Ledger ownership (`store.ts` 20–57) | lease file, guard file | open, take over, release | several runner processes on one file system |
| Coordinator, runs (`server/src/app.ts`, `runner-client.ts`, `database.ts`; .NET `ExperimentService`, `RunnerGateway`, repositories) | experiments, immutable receipts of runs | create, run, delete, read the execution | calls the runner; a review pins a run |
| Coordinator, reviews (`review-routes.ts`; .NET `ReviewService`) | session map in memory, one row per submitted run | open, expire, revoke a session; list, submit, decide | publishes committed changes (.NET) |
| Live updates (`ReviewUpdates.cs`, `ReviewLiveController.cs`) | subscriptions with a queue of one signal | subscribe, publish, revoke, heartbeat | one WebSocket per browser tab; carries invalidations only |
| Browser, experiments (`client/src/App.tsx`, `RunnerExecutionStatus.tsx`) | form, list, selected details, receipt, the execution being inspected | load, open, run, delete, choose, check | chains of HTTP requests, one chain at a time |
| Browser, reviews (`client/src/review-live.ts`, `ReviewWorkspace.tsx`) | session, list, live connection, foreground operation | connect, read again, refresh, submit, decide | HTTP for data, WebSocket for signals |
| Android reviewer | queue, generation, drafts, seen IDs, notification epoch | connect, refresh, decide, poll in the background | HTTP; WorkManager |
| Downstream service (`downstream/src/app.ts`) | map of promises by key, in memory | JSON-RPC `process`, close | called by a coordinator with no runner, under a deadline |
| MySQL store (`createMySqlDatabase` in `database.ts`) | pool of connections with a queue, promise of the migration | migrate, transactions of an insert and its read-back, single reads, delete | several coordinators on one server |
| Supervisors (`scripts/start-*.mjs`, `stopChild`) | children, whether they are being stopped, the exit code | start in order, stop with a bound | start runner, then coordinator; IPC messages, signals, exit events |

What is hard: handlers interleave at every `await`; a runner or coordinator
may die between two of its writes; deadlines pass while work goes on; the
callers retry; answers and signals overtake each other; sessions end in the
middle of everything. What makes each part correct is the list of properties
below, and where each could go wrong is listed line by line under "hazards"
in `PROJECT.json`.

## Modules

| Module | Models | Notes |
|---|---|---|
| `ExecutionPromise` | what the runner promises about an operation ID | abstract specification |
| `RunnerLedger` | `runner/src/app.ts`, executions table of `store.ts` | implements `ExecutionPromise` |
| `LedgerLease` | `openExecutionStore`, release | one file system call per step |
| `RunAttempts` | `POST /runs`, `DELETE`, receipts | uses `ExecutionPromise` as its runner |
| `ReviewPromise` | what the queue promises its users | abstract specification |
| `ReviewWorkflow` | sessions and review routes | implements `ReviewPromise` |
| `ReviewLive` | subscriptions, socket handler, browser connection and live reads | liveness |
| `ReviewClient` | one browser page: operations against live reads and renders | liveness |
| `DownstreamRpc` | `POST /runs` without a runner, `POST /rpc`, close and restart of the downstream | direct path |
| `MySqlStore` | migration, pool, transactions and reads of the MySQL store | several coordinators |
| `RunClient` | `App.tsx`, `RunnerExecutionStatus.tsx` and their requests | liveness |
| `GroupSupervisor` | `start-group*.mjs`, `stopChild`, entry points of the children | liveness |
| `RunnerProofs` | theorems about `RunnerLedger` and `LedgerLease` | checked by TLAPS, as all that follow |
| `RunAttemptsProofs`, `ReviewWorkflowProofs`, `ReviewLiveProofs`, `DownstreamRpcProofs`, `MySqlStoreProofs`, `GroupSupervisorProofs` | theorems about the module of that name | |
| `BrowserProofs` | theorems about `RunClient` and `ReviewClient`, the two workspaces of the browser | |
| `MC…` | instances for TLC | model values, symmetry |

Definitions whose comment begins with "Mutant" are plausible bugs of the
definition that follows them. Nothing in a specification uses them. In
`LedgerLease` and `ReviewClient` the parts of the specification are named
`LeaseInit`, `PageNext` and the like: `RunnerProofs` and `BrowserProofs` extend
two components each, and some names would mean two things.

### How state and steps correspond to the code

* **RunnerLedger.** `ledger` is the table, `pending` the `Map`, `runner` the
  process, `draining` what `close()` awaits, `phase`/`reply` the gRPC calls.
  Node runs a callback to its first await without interruption, so `Respond`
  is all of `execute` up to there. `CrashMidway` is a crash between the
  insert and the completion of work that does not wait, `Crash` one at any
  other moment, `Start` the recovery that marks rows INTERRUPTED. A request's
  payload has spellings: the fingerprint is taken of the canonical one.
* **LedgerLease.** `at[p]` is the place of process `p` in
  `openExecutionStore`; each step is one system call, and a process may be
  killed between any two. Pids are reused, also by unrelated programs. Writing
  one of the two files may fail for some starts (`FaultyStarts`), opening the
  database for others (`DatabaseFaults`).
* **RunAttempts.** A handler goes through reading the experiment, looking for
  a receipt, calling, saving. Operation IDs are pairs (experiment, key or
  correlation ID), as `runner-client.ts` puts them together; a caller may
  choose the correlation ID (`X-Request-Id`), so that `ask` takes any of `Ids`,
  also one that another request uses or that is somebody's key. `Accept`,
  `Progress` and `Respond` are the runner, free to do what `ExecutionPromise`
  allows; `executed` counts what it began for a key, whatever operation ID the
  call carried.
* **ReviewWorkflow.** A request is authorised, then reads, then writes:
  `at[q]` is which of these it has done. Expired sessions stay in the map
  until a look-up or a sweep removes them. Reviews are rows by run
  (`run_id` is UNIQUE). A failure of the database rolls the row back
  (`DatabaseFault`) or comes after it was committed (`CommitUnheard`), when
  the caller is told 503 or, if the process died, nothing.
* **ReviewLive.** The handler of a socket is followed from await to await
  (`conn[c]`); `queue[c]` is the bounded channel of one signal, `wire[c]` the
  frames on the way, of bounded size so that a `SendAsync` can block. `Commit`
  and `Publish` are separate: other things happen between the two.
* **ReviewClient.** `op` is the foreground operation, `read` the latest live
  read with `clean` for `started === foreground.current`, `mounted` the
  session whose effect runs and `busy` the rendered flag, which lag behind
  `session` and `working` until `Render`. The history variables `unconfirmed`
  and `swallowed` exist for properties only. A render is taken to come before
  the answer of a request sent after the state was set, since the one takes a
  task of the browser and the other the network.

* **DownstreamRpc.** A handler reads the experiment, looks for a receipt,
  calls, saves, as in `RunAttempts`, but its call is one HTTP exchange:
  `call[h]` says whether the downstream has received it, works on it, waits
  for the promise of another with the same key, has answered or is gone.
  `Receive` is `POST /rpc` up to its first await, so that a key is looked for
  and registered in one step. `Mishear` is a faulty intermediary: the answer
  to another exchange, one with a result and an error, or a failed HTTP
  status around a good body; `Lose` a connection that breaks before, during or
  after the work, which goes on. The UUIDs of exchanges are taken to be distinct;
  a caller may choose them (`X-Request-Id`), and the browser does so freshly
  at each click.
* **MySqlStore.** One coordinator's `initialized` is `start`, `step` and
  `missing`: each statement of the migration is a step, as two coordinators
  may run it at once. `holder` and `queue` are the pool, `tx` the sessions
  inside a transaction and `open[s]` what session `s` has not committed. A
  request arrives, awaits `initialized`, acquires, and does one statement after
  the other. What a COMMIT or a DELETE does and its acknowledgement are two
  steps (`Commit` or `Delete`, then `Acknowledge`): between them the connection
  may break (`Break`) or the coordinator die (`Restart`), and either leaves the
  request failed or lost although it took effect (`unsure`). A statement may
  also be refused (`StatementFault`). The ROLLBACK that follows may be refused
  too (`RefuseRollback`): the failure is ignored, and the connection goes back
  to the pool inside its transaction. Whatever comes next on that session acts
  inside it: a BEGIN commits what was left, a DELETE does not commit itself, a
  read sees the session's own time; the requests concerned are `adrift`. An
  INSERT waits for the locks of a DELETE and a DELETE for those of both, until
  `TimeOutOnLock`. `createRun` stands for the three inserts of that form.
* **RunClient.** `doing` is `isLoading`/`isRunning` together with which
  function is under way, `asked` and `told` its requests and answers on the
  way. A component that React unmounts loses its state (`Unmount`): while a
  chain is under way the receipt, and the inspection in it, are not rendered.
  `removed` has an experiment from the moment its DELETE was answered; where
  the list that is read next fails, the page goes on naming it, with the
  failure reported.
  Others create, run, delete and submit on the same coordinator at any time.
* **GroupSupervisor.** A child that ended (`proc`) and a child whose exit
  event was handled (`noticed`) are different states; so are the stop of the
  group and that of the runner alone (`Callers`), which may wait for the same
  child. `Channel` says which children hear a request over IPC; the .NET
  coordinator is not one of them and gets SIGTERM. Unlike a message, a signal
  ends a process that has not installed its handler yet (`Terminate`).

## Runs

Deadlock is checked where the model says when it may stop (`downstream`,
`mysql_store`, `group_supervisor` have an explicit step for it, `run_client`
never stops). The other models have a bounded number of requests, processes
or losses and stop when they are used up, as the system may also simply be
asked for nothing.

| Run | Shows | Bounds |
|---|---|---|
| `runner_ledger` | work is begun at most once per operation ID; rows say RUNNING exactly while somebody works; answers stay true; a conflict means another request; a graceful stop strands nothing; `ExecutionPromise` is kept; every call is answered | 2 operations, one with a failing database, 2 calls, 5 requests, 3 starts |
| `ledger_lease` | one process has the ledger; an orphaned guard blocks; a clean exit leaves nothing, also after the database could not be opened; a stale lease is taken over | 3 processes, 3 pids, one that unrelated programs use, one process with write faults, two with database faults |
| `attempts` | receipts agree with the ledger; one key, one execution; answers and replays stay true; submitted evidence is kept; every request is answered whatever the runner does | 2 experiments, 1 key, 2 correlation IDs of which one equals the key, 2 concurrent handlers, lost acknowledgements |
| `attempts_replay` | **finding**: a settled receipt is not always replayed | 3 handlers |
| `reviews` | racing decisions have one winner; no answer is taken back and no evidence lost; `ReviewPromise` is kept | 2 researchers, 1 reviewer, 3 requests, 2 sessions in a map of 1, 1 restart |
| `live` | no invalidation is lost; nobody is signed out wrongly; ended sessions' connections close; connected lists converge | 1 browser with 2 connections and 1 subscription, 2 writes, 1 frame in transit, 1 restart |
| `client` | no signal is dropped, nothing shown is undone, no list of another account is shown, a connected page comes up to date or asks for a refresh | 3 operations, 2 writes, 1 lost connection |
| `client_failure` | **finding**: a failed live read may leave decisions enabled | 2 operations |
| `run_client` | receipt, form, selection and inspection belong together; what was deleted is not shown again, and stays on the page only with a failure reported; the controls come back | 2 experiments, 3 runs, 2 forms and an unparsable one |
| `downstream` | keyed work is done once per life of the downstream; every receipt fits what was done for its experiment | 3 experiments (healthy, unavailable, malformed), 1 key, 2 handlers, 2 lives |
| `mysql_store` | no statement before the schema is complete; a failed write leaves nothing, but for two named exceptions; details are complete; every request ends | 2 coordinators, 2 additions to the schema, 4 requests (an insert, a read and a delete at one coordinator, an insert at the other), 1 connection and 1 place in the queue each, 1 restart |
| `group_supervisor` | exit code 0 means a complete stop; the coordinator outlives its runner; every stop ends | the 2 children, nothing else is bounded |

`attempts` fixes two choices that make no difference (`MCInit`): the first
handler asks about the first of two interchangeable experiments, and the
correlation ID of a request with a key, which is not used, is a given one.
Runs that check liveness use no symmetry, since it is not sound there. In
`reviews` the map holds one session, so that a second token
meets the limit; a request that was authorised goes on after its session
ended, so the requests of two sessions still interleave step by step.

Why these bounds are enough to mean something: every race above is between
two actors over one row, file, subscription, connection or list, so two or
three actors and one or two objects contain it; a second object is there
where confusion of the two is the danger (two experiments under one key, two
experiments in one page). Restart and loss counts of one or two give "before,
between and after". A pool of one connection with one place makes two
requests enough to meet the limit, and each request that holds a connection
meets another that waits for it; three on one connection are the request whose
ROLLBACK is refused, the one that comes into its transaction, and a third. That each property has a mutant which breaks
it under these very bounds shows that the cases do occur. Type invariants are
checked in `live` and `client`, and proved for every module.

### Fairness

* Runner: the event loop serves calls that arrived, timers fire, and a close
  that began goes on. Nobody is obliged to restart a runner.
* Lease: a running process makes its next system call; it may be killed.
* Attempts: the database answers, well or badly, and deadlines pass. The
  runner owes nothing.
* Live: handlers and calls under way make progress and heartbeats come due
  (15 s timer, 40 s watchdog); writers, users and the network owe nothing.
* Client: callbacks and renders run, requests are answered or fail.
* Run client: every request is answered or fails (the coordinator answers
  within its deadlines), and the page handles what arrived.
* MySQL store: something that can go on does, and a wait for a lock that
  nobody releases times out (`innodb_lock_wait_timeout`). Nothing is assumed
  about the order in which connections and locks are granted.
* Supervisor: its event loop and its timers run. The children owe nothing:
  they may hang, ignore requests and survive a kill.

All are weak fairness: each of these steps stays enabled until it is taken.

## Findings

1. `attempts_replay`: the handler looks at the newest receipt under a key
   only, so a timeout saved after a settled receipt makes the next request
   call the runner again (`docs/GRPC_RUNNER.md:108` says it is replayed). The
   work is still not repeated (`KeyRunsOnce`).
2. `client_failure`: a live read that fails while a submission is in flight
   is passed over, and the page then offers decisions on a list that no
   refresh has confirmed (`docs/HOW_IT_WORKS.md:235`).

Two smaller disagreements are part of the models and have no run of their own:

* A COMMIT whose acknowledgement is lost leaves the row saved and the caller
  with 503, against the comment at `server/src/database.ts:494-496` ("a 503
  never hides a saved row"). So may a ROLLBACK that is refused, once a later
  transaction on the same connection begins: the failure is ignored (line 508)
  and the connection released. `FailureLeavesNothing` makes exactly these two
  exceptions (`unsure` and `adrift`), and says that there is no other.
* A revocation between the validation of a session and the registration of
  its subscription wakes nobody, and the connection stays until the next
  heartbeat, against `docs/LIVE_REVIEW_UPDATES.md:32`. `EndedSessionsClose`
  holds because of the heartbeat.

The comment at `server/src/app.ts:117` ("the dependency dedupes so the work
still runs once") holds for one process of the downstream only, as
`README.md:304` of the repository says; `OncePerLife` is stated accordingly.

## Proofs

Each proof follows the same line: an inductive invariant, proved to hold
initially and to be kept by every action in turn, from which the properties
are read off.

* **RunnerProofs, the ledger**: type correctness; `LedgerInv`, hence
  `AtMostOneExecution`, `RunningMeansWorking`, `RepliesAgree`; and
  `GracefulStopStrandsNothing`. The strengthening is
  that a waiting caller waits for an execution of its own request, that the
  map names only RUNNING rows and is empty in a dead process, and that a
  closing one waits for all of them. Without these, completing a row could
  contradict what a caller was told. `Spec => KeepsPromise` is the refinement
  of `ExecutionPromise`: each row evolves as an entry may, an answered call
  keeps its answer, and `LedgerInv` says each verdict fits the row.
  Assumptions: `ConstantsOK`.
* **RunnerProofs, its ownership**: `OneOwner`, `LeaseIsOwners`, `OrphanedGuardBlocks`
  from `LeaseInv`: at most one process is inside the guarded section and the
  guard is its own; a process about to unlink a lease has seen that its owner
  is gone for good, and the lease is still that one. Reuse of pids can only
  make a taker-over give up, never go on. `CleanExitLeavesNothing` adds that,
  while nobody was killed and no file could not be written, each of the two
  files has a process on its way to remove it.
* **RunAttemptsProofs**: `NoOrphans`, `KeyRunsOnce`, `NoConflicts`,
  `ReceiptsMatchLedger`, `EvidenceKept`, `AnswersHold`. What ties a receipt to the ledger is
  that whatever was told about an operation stays upheld
  (`ExecutionPromise`), and that a handler's observation is something told
  about the operation of its own experiment and key. `KeyRunsOnce` rests on
  `KeysCounted`, by which an execution that was counted has its entry in the
  ledger, and `RunsNamed`, by which the receipts under one key speak of one
  operation.
* **ReviewWorkflowProofs**: `OneWinner`, `NothingTakenBack`, `RolesKept`,
  `SessionsBounded`, and the refinement `Spec => KeepsPromise`. That answers
  stay true and that a decision has one winner need each other: an answer is
  an immutable copy, so it is compared with how rows can evolve from it
  (`RowMoves`), also by a write whose author never heard of it.
* **ReviewLiveProofs**: `TypeOK`, where the limit needs that subscribers are
  finitely many, although connections need not be (`SubscribersBounded`).
  `SignedOutRightly` from `EndedInv`: a policy frame in transit, or a read
  that was refused, is of a session that has ended, and no session comes back.
  `NoLostInvalidation` from `SignalledInv`: whoever was told "ready" or
  "changed" over a connection that still works is subscribed to what follows
  (`ToldSubscribed`, `ConnectedSubscribed`), and an answer that is out of date
  when it arrives has been signalled already (`StaleAnswerSignalled`). Without
  the last one, applying an answer could use up the only signal there was.
* **DownstreamRpcProofs**: `OncePerLife` from an invariant by which every
  keyed execution of the present life is in the map; `ReceiptsFit` from
  `ReceiptsInv`: a promise in the map was made by work for its own scope, a
  body carries the result of work for the scope of its exchange, and what a
  handler is about to save fits already.
* **MySqlStoreProofs**: `ServesMigrated` (whoever is ready has seen the
  schema complete, and it only grows), and `FailureLeavesNothing` from
  `PoolInv` (a request holds at most one connection, one that waits is in one
  queue once) and `WriteInv`: what a session has open is its holder's own
  write, which the holder will commit or roll back, or an adrift request's
  (`OpenIsHeld`); and what is saved was acknowledged, is about to be, or is
  one of the two exceptions (`SavedIsAccounted`). `DetailsComplete` is from
  `DetailsInv`, which needs that a transaction past its INSERT has its run
  open (`Written`), so that a commit that is acknowledged saved something, and
  that nothing is saved of an experiment that is gone (`Vacant`).
  `SomebodyGoesOn`, from `WaitInv`: there is a
  queue only while every connection is taken, and a DELETE that waits for
  locks waits for transactions whose own next step waits for nothing. So
  requests never wait for each other in a circle, as long as no refused
  ROLLBACK has left locks behind (those only the lock timeout, or the next
  user of the session, takes care of); it is the part of `EveryRequestEnds`
  that is not fairness.
* **BrowserProofs, experiments**: `PanelAgrees` and the action property
  `RemovedStaysGone` from `WorkspaceInv`. Its core is `Fact`: what is known of an answer while it
  waits to be used, though the coordinator's tables change under it. An
  answer about an experiment stays right about its form and its runs, unless
  the experiment was deleted, in which case it cannot be in a later list.
  `ChainGoesOn` says what `BusyEnds` needs beyond fairness: while the controls
  are disabled a request is on its way, or its answer is of use.
* **BrowserProofs, reviews**: `ListIsOwn`, `NeverBack` and `NoLostSignal` from
  `PageInv`, which has three parts. `OwnInv` says whose the operation, the read
  and the effect are while the session of the page and of the last render
  differ. `CoverInv` says that a list about to be shown has every write that
  is shown, which for a live read depends on its overlapping with no operation.
  `SignalInv` says that such a list is up to date, or that a signal is left to
  ask for it again.
* **GroupSupervisorProofs**: `CoordinatorOutlivesRunner` and
  `CleanMeansComplete` from `GroupInv`: a child that is waited for was
  started and told, one that is done with has ended, and every early end that
  is not accepted has set the exit code. `StopsAdvance` and `StopGoesOn` are
  what `StopEnds` needs beyond fairness: each `stopChild` goes through its
  stages in order and never begins again, and until `stop()` has ended a timer
  is armed or every child is done.

Only proved, and not repeated in a run: the inductive invariants,
`LeaseIsOwners`, `NoOrphans`, `NoConflicts`, `RolesKept`, `SessionsBounded`,
`SomebodyGoesOn`, `ChainGoesOn`, `StopsAdvance`, `StopGoesOn` and the type
invariants of all modules but `ReviewLive` and `ReviewClient`. The
strengthenings for `ReviewLive` and `ReviewClient` and the four from
`SomebodyGoesOn` on were also checked by TLC on small instances; those runs
are not kept, since the theorems say more.

Only model-checked: the liveness properties (`EveryCallAnswered`,
`TakeoverSucceeds`, `EveryRequestAnswered`, `EndedSessionsClose`,
`ListsConverge` of both modules, `BusyEnds`, `EveryRequestEnds`, `StopEnds`),
as fairness and ENABLED are out of TLAPS's reach. Every other property of a
passing run is a theorem. The two findings are counterexamples of TLC.

## Not modelled, and the plan

In this order, each with its own instance, runs and mutants:

1. `AndroidReviewer`: generations of `ReviewerModel`, the notification epoch,
   seen IDs under out-of-order answers from screen and worker, drafts across
   disconnect. Abstract promise: at most one notification per review.
2. `RunnerChannel`: the channel that is replaced only when idle, in Node and
   .NET; liveness of a retry after a runner restart. Much of what would have
   to be modelled is the gRPC library's own reconnection, which is not here.
3. `ReviewPaging`: pages by cursor under concurrent writes: no review is
   shown twice or skipped; the cursor codec against a reference definition.

Proofs to come: for the remaining liveness properties the part that is an
invariant, as `SomebodyGoesOn`, `ChainGoesOn` and `StopGoesOn` are it for the
store, the experiments workspace and the supervisors; and the at-most-one
notification of `AndroidReviewer`.

Left out for good: presentation (`Guide.tsx`, styles, activity layout), input
schemas and static files, report queries, smoke tests, benchmarks, report
building and CI. They hold no state that the properties could be about. The
supervisor of the production demo (`start-production.mjs`) starts two children
in no order and stops them by signal without a bound; nothing is promised of
it that `GroupSupervisor` does not have. The SQLite store is synchronous: its
statements are parts of single steps in `RunAttempts` and `ReviewWorkflow`.
