# Verification of vacps

vacps runs tasks on remote machines: a **control plane** (a Cloudflare Worker
with a D1 database) accepts tasks and schedules from people and MCP clients and
hands them to **agents**, one per machine. An agent is a native C++ host
(`src/apps/vacps-native/src`) that embeds QuickJS and runs a TypeScript
application (`src/apps/vacps-native/script/src`) with a SQLite store of its own.

This directory holds TLA+ models of the parts of it whose correctness depends on
interleaving, loss, limits or restarts, the TLC instances that check them, and
TLAPS proofs of what matters most. `PROJECT.json` lists every component, run,
mutant, finding, hazard and theorem, and maps each definition to source lines.

## 1. Inventory

### Native host and library (C++, one process per agent)

| Component | State | Operations | Talks to |
|---|---|---|---|
| **Host**: `host/`, `main.cpp` | phase, stop seen, signal wait, exit code | initialize, run, start the entry module, graceful and forced stop | runtime, signals, the script's exports |
| **Runtime**: `runtime/` | owner queue, QuickJS jobs, pending promises, awaits, stop source | post, pump jobs, settle, call and await, shut down | everything below |
| **Store**: `storage/`, `modules/store.cpp`, `store_convert.hpp` | connection, lane of a handle, cached statements | open, exec, run, query, transaction, close | SQLite, worker pool |
| **Process**: `process/` | exit, drains, timers, waiters, budget | start, read, write, wait, terminate, close, dispose | kernel |
| **Terminal**: `terminal/` | PTY, rolling buffer, timers, waiters, budget | start, read, write, resize, signal, wait, close | kernel |
| **HTTP server**: `http/server.cpp`, `modules/http.cpp` | phase, accept loop, sessions, handlers, waiters | listen, serve, close, dispose | the script's `onRequest` |
| **HTTP client**: `http/client.cpp` | permits, origin pools, idle connections | request | servers |
| **Files**: `fs/file.cpp`, `modules/fs.cpp`, `file_operation_queue.hpp` | handle, cursor, lease | open, read, write, truncate, stat, flush, close | pool, io_uring |
| **Text, URL**: `text/`, `url/`, `globals/` | carried bytes; a URL and its live parameters | decode; search setter, mutations, iteration | simdutf, Ada |
| **Path operations, crypto, binding templates** | none | one-shot calls | OS, OpenSSL |

### Agent application (TypeScript, in the host)

| Component | State | Operations | Talks to |
|---|---|---|---|
| **Task queue**: `queue/task-queue.ts`, `storage/task-store.ts`, `executor/shell-executor.ts` | rows of `tasks`, `task_idempotency`, `task_logs`; active task, wake pulse | enqueue, cancel, retry, claim, execute, log, verdict, boot recovery, stop | HTTP routes, application, Store, Process |
| **Application**: `application.ts` | ready / stopping, worker and control loop | initialize (recover, then listen), control-plane iteration, product close, join | everything on the agent |
| **Schedules**: `queue/scheduler-store.ts`, `queue/schedule-logic.ts` | rows of `schedulers` (`revision`, `next_run_at`, policy) | PUT/DELETE, merge, `listDue`, misfire plan, `claimAndEnqueue` | control plane, task rows |
| **HTTP routes**: `server/app.ts`, `server/router.ts` | handlers in flight | tasks, schedulers, files, commands, terminals | all of the above |
| **Tool runtime**: idempotency map, command runner, terminal sessions, files | in-memory maps | run once per key, open/close/reap | HTTP routes, product close |
| **Registration, telemetry** | last report, backoff | periodic signed POSTs | control plane |

### Control plane (TypeScript, a Worker)

| Component | State | Operations | Talks to |
|---|---|---|---|
| **Schedules**: `schedules/schedule-service.ts` | D1 `schedules` (`revision`, `next_run_at`) | create, patch, delete, run-now, reconcile, occurrence ack, sync | agents, TaskService |
| **Tasks**: `tasks/task-service.ts`, `tasks/retention.ts` | D1 `tasks`, pin / legal hold | create + dispatch, refresh, cancel, retry, delete, cleanup, purge | agents |
| **Registry, tunnels, OAuth** | D1 tables, Cloudflare resources | register, approve, rotate, provision | agents, Cloudflare API |
| **Entry, MCP, auth, UI** | sessions, nonces | routing, validation | services |

### How they interact, and what is hard

* Native components are coroutines on one owner executor. A cancelled operation
  whose completion is already queued still completes; waiters sit on gate timers
  that are all woken together; a stop is an edge that an operation not yet
  started does not see. Blocking work runs on a pool and comes back in the order
  it ends. Close of a resource joins everything that still runs for it, and a
  handler may call the close of its own server.
* The agent's script is single threaded, but every `await` lets other handlers,
  the worker and the product close run. The Store executes operations one at a
  time in submission order; their promises settle in job-pump turns. Decisions
  are taken from rows that were read several awaits earlier.
* The process can die at any statement (crash, second stop signal, lifecycle
  timeout) and is restarted (`Restart=on-failure` in the installer's unit). The
  rows survive, the memory does not.
* Services of the control plane are chains of single D1 statements in isolates
  that may be evicted. Requests to an agent time out after 12 s and may still be
  handled later. A schedule exists on both sides; revision-gated PUTs and
  occurrence acks, each of which may be lost, late or overtaken, bring the two
  together.

What makes each component correct: for the queue, that a task is never executed
twice, that cancels and wake-ups are not lost and that stop ends; for schedules,
that both copies agree on what a revision is, that cursors move only for claimed
occurrences and that nothing due stays unclaimed; for a native resource, that
close joins its work and ends, that bytes and rows arrive exactly, that permits,
slots and bytes balance on every path, and that a caller is told what happened;
for the host, that no reaction is lost and that the exit code is true. The
hazards in `PROJECT.json` place each of these at the line where it would go
wrong.

## 2. Modules

| Module | What it is |
|---|---|
| `TaskLifecycle` | abstract: what a client may observe of task rows |
| `AgentTaskQueue` | rows, Store lane, job turns, worker, handlers, boot, close; implements `TaskLifecycle` |
| `AgentTaskQueue_proofs` | type correctness; `SingleFlight`, `AtMostOnce`; the order of the runtime and `ProcessHasRunningRow`, `KillSeenAsCancel`, `ImplementsLifecycle`; `LogsNeverCollide`, `CleanShutdown` |
| `ScheduleSync`, `ScheduleSync_proofs` | one schedule on both sides; `SameRevisionSameConf`, `ForbidNeverOverlaps` and `CursorMovesByClaim`, proved |
| `CloseBarrier` | abstract: a resource whose `close` joins its work |
| `HttpServer`, `HttpServer_proofs` | accept loop, sessions, handlers, close; implements `CloseBarrier`, proved; `RepliesMatch`, proved |
| `Terminal` | a PTY session and its rolling buffer; implements `CloseBarrier`, proved; `BufferExact`, proved |
| `NativeProcess` | child processes, drains, timers, waiters, the shared budget; `WaitIsComplete`, `WritesAreSerialized` and `BudgetExact`, proved |
| `NativeSessions_proofs` | the proofs about `NativeProcess` and `Terminal` |
| `AtomicStore` | abstract: rows change by whole units of a call |
| `Store`, `Store_proofs` | handles on one SQLite database; implements `AtomicStore`, proved; `Answers`, proved |
| `SqlValues` | parameters and cells between JavaScript and SQLite; `OwnParameters`, `RoundTrip` and `NothingIgnored`, proved in `Store_proofs` |
| `FileHandle`, `FileHandle_proofs` | a file on both backends, its methods behind one lease; `Serialized` and `OneStream`, proved |
| `HttpClient` | pooled requests with permits, deadline and stop; `LimitsHold` and `OutcomesTrue`, proved |
| `TextDecoder` | streaming decode of UTF-8 and UTF-16 |
| `UrlSearch` | a URL and its live parameters; `Coherent` and `WalksWhole`, proved |
| `NativeLibrary_proofs` | the proofs about `UrlSearch` and `HttpClient` |
| `NativeHost`, `NativeHost_proofs` | start, stop, job pump, awaits of the script, exit code; `NoLostReaction`, `ExitTruth` and `HostContract`, proved |
| `MCAgentTaskQueue`, `MCScheduleSync`, `MCScheduleProgress`, `MCNativeSessions`, `MCNativeLibrary` | instances for TLC; `MCScheduleProgress` joins two instances of `ScheduleSync` |

### Composition

The script and the native library meet at promises. `AgentTaskQueue` contains
the Store's lane, the settlement order and the processes as the queue uses them;
`NativeHost` contains the pump that runs those jobs, and the calls into the
script's exports. `ScheduleSync` joins both sides of the wire. The native
resources do not call each other, so `MCNativeSessions` and `MCNativeLibrary`
explore them side by side: `part` names the component that moves in a behaviour
and the others stay in an initial state. One run so checks several components
without the product of their states. Each component's actions, invariants and
fairness are its module's own; the fairness of a component that does not move is
satisfied since none of its fair actions is enabled where it stands, or is stated
for the part that moves.

### The native modules and the code

Everything runs on one executor: an action is one handler, or the stretch of a
coroutine between two `co_await`s; a caller between two stretches is in a named
state. A module's `Uses` are the scripts, servers and children it is explored
with: which calls are made in which order, what may fail, whether the runtime is
asked to stop. Which of these happen when is left open.

* **`HttpServer`**: `phase`, `children`, `loop`, `sess[c]` and `call[k]` are
  `Server::State`, the accept loop, the session of a connection and the callers
  of `close`. `child_count` is counted where the code counts; the barrier
  (`try_finalize_close`, `wait_children_drained`) is modelled with its two
  lists of waiters. A request is one of the kinds the code tells apart.
* **`NativeProcess`**: `h[p]` is `Process::State`; `child`, `left` and `pipe` are
  the kernel. A descendant may hold a pipe after its leader's exit, or escape the
  group, in which case the group's signals do not reach it. Bytes are counted; a byte
  read is `<<stream, position>>`.
  `ProcessStatus::Cancelled` does not occur: `cancelled` is set by `begin_close`
  alone, after which the status stays Closing.
* **`Terminal`**: `chunks` and `produced` are the rolling buffer, a chunk being an
  offset and its bytes; three job-control groups hold the PTY or ignore signals. A
  read of the loop completes in one step and is appended by its handler in another:
  `arrived` are its bytes in between, which a cancel of the master does not take
  back, and `afterEof` counts those that came after a reader could be told eof.
* **`FileHandle`**: `file`, `fds` and `lease` are `File` and its queue; a byte is the
  number of the call that wrote it, and `content` the file. `Transfers` is one system call,
  which may be short or fail.
* **`Store`**: `lane` and `job` are the SerialWorker of a handle, `conn` its
  connection, `rows` and `writer` the file with its write lock. A transaction's
  rows are private until `Commit`. SQLite is external: locks, busy, deferred
  constraints, a journal that a crash rolls back.
* **`SqlValues`**: 2^53 - 1 and 2^63 - 1 are scaled down to `SafeMax` and
  `IntMax`; beyond `SafeMax + 1` only every other integer is a number.
* **`HttpClient`**: `req[r]` is the coroutine of a request, `edges` what its
  cancellation signal has still to emit, `gate`, `pools` and `idle` the permits and
  connections, and a connection has the number of the request that opened it. What
  `take_idle` and `evict_oldest_idle` ask of the vectors of idle connections is who
  came last and who first, so `idle` is a set with the stamps `idle_since`. An origin
  is a scheme with a host and a port: whether it has a handshake is a fact about it.
  A response carries the number of the request it answers. `async_write` and
  `async_read` are composed of parts (`PartCompletes`, `PartResumes`): an edge that is
  emitted between two of them is lost (`missed`).
* **`TextDecoder`**: bytes and code units are numbers; simdutf is external and
  modelled by its contract. The expected text of a message does not come from
  `bom_seen_`: `Message` drops the mark of every message.
* **`UrlSearch`**: a query is the pairs it parses to; Ada is external.
* **`NativeHost`**: `queue` is `main_io`, `jobs` the QuickJS jobs, `pump` whether a
  turn is posted, `await` and `timer` the awaits of module evaluation, exports and
  callbacks. A job turn runs one job where the code runs up to `kJobsPerTurn`. A call
  that throws may have enqueued jobs (`Stranded`) and returns before
  `schedule_job_pump`; such jobs have the kind "left".

### AgentTaskQueue and the code

State: `status`, `cancelFlag`, `created`, `keyed` and `logs` are the database;
`created` lists ids in `created_at` order (the order of the inserts: the clock
is assumed not to go back between two of them). `lane`, `settled`, `turn` and
`at` are the native runtime (`store.cpp`, `runtime_async`, `run_blocking`); `pc`
and the locals are the JavaScript frames of three kinds of actors: the worker
loop, the main flow (boot, then product close) and one HTTP handler per request.

Actions: one per Store statement, executed at the head of the lane (`GetTask`,
`ClaimNextQueued`, `WriteStatus`, `LogInsert`, ...), and one per continuation
between two awaits (`Claimed`, `CheckedBeforeStart`, `Enqueued`, `StopQueue`,
...), which submits the next statement. A child ends by itself, by its timeout or
killed (`ChildExits`), and may leave a descendant that keeps its output open
(`child = "held"`): from then on a kill does nothing, no timeout runs, and `wait()`
returns when the descendant ends (`DescendantEnds`). `Hops` counts the promise jobs a
continuation takes to reach its next submission, so that two chains in one turn
submit in the order the engine would give them. `Halt` is what dying leaves;
`Crash` may happen in any state, `CloseStore` ends an orderly close. `StoreFault`
lets any statement fail.

Simplifications: a handler serves one request; contents of results and logs are
left out; `pruneRetention` and `queueCounts` are left out; a handler in flight is
not awaited by server close (as in the code); a forced stop or lifecycle timeout
is a crash. The rows that `claimAndEnqueue` inserts are `ScheduleSync`'s subject.

### ScheduleSync and the code

State: `cp` and `ag` are the two rows; `call[c]` is where a call of
`ScheduleService` (or an ack being served) is, with the row it read; `net` holds
requests to the agent that are on their way or being handled; `pump` is what
`fireDueSchedulers` has listed. `fired` are the occurrence tasks that were
inserted, `active` those still queued or running, `claimed` the claims that won.

Actions: one per D1 statement, request or Store operation, so that the read and
the write of a PUT's handler (`PutRead`, `PutWrite`), the `listDue` and the claim
transaction (`ListDue`, `Claim`), and the read and the compare-and-set of an ack
(`AckRead`, `AckMoves`) can be separated by anything else. `Lost`, `Failed`
(no answer within 12 s, with the request possibly still alive), `Evicted` and
`AgentCrash` are the failures; an ack is sent at most once and may not arrive.

Cron: an expression in its time zone is the set of instants at which it fires.
The chained advances (`NextAfter`, `PastNow`, `Nth`, `Missed`) are functions over
that set with the code's step cap; civil time, DST and parsing are not modelled.

Simplifications: one schedule and one clock for both sides; Store operations of
different handlers interleave freely, which contains the FIFO lane's orders
(the traces of the findings below use orders the lane allows); the arrival of an
answer is merged with the end of the agent's handler (a lost answer is `Failed`
before it); a call that ignores the answer ends when its request is sent; an
idempotency key replays a stored answer and a patch that changes nothing returns
early, so neither is an action; a run-now's task itself is left out, as are the
agent's own `/schedulers/:id/run` route and the pruning of old task rows. Limit
of `reconcile` to 200 rows does not matter for one schedule.

## 3. Runs

| Run | Instance | Shows |
|---|---|---|
| `Queues` | 2 handlers, a keyed task, an agent task and a retry, 1 crash, 1 failing statement | `AtMostOnce`, `SingleFlight`, `ProcessHasRunningRow`, `KillSeenAsCancel`, `LogsNeverCollide`, `ImplementsLifecycle` |
| `QueueProgress` | 2 handlers, 2 tasks, 1 stop, fair | `CleanShutdown`, `CancelTakesEffect`, `QueueDrains`, `ShutdownCompletes` |
| `QueueReply` | 2 dispatches, one key | finding: `ReplyNamesStoredTask` |
| `ScheduleConverges` | `Sync`: 2 patches, 2 messages, 1 crash or eviction; `Late`: 1 client, a catch-up backlog; fair | `SameRevisionSameConf`, `Converges`, `NothingStaysDue` |
| `ScheduleCursors` | 1 request (patch, run-now, delete), 1 ack, 1 message | `ForbidNeverOverlaps`, `CursorMovesByClaim` |
| `ScheduleDisables`, `ScheduleMerges`, `ScheduleAcks` | small | findings |
| `NativeSessions` | server: 2 connections, 2 closers and a handler; processes: 2, 3 callers; terminal: 5 callers, 3 groups; fair | `RepliesMatch`, `JoinsBarrier`, `WaitIsComplete`, `ReaderIsExact`, `WritesAreSerialized`, `BudgetExact`, `BufferExact`, `TerminalImplementsBarrier`, `EveryCallEnds` |
| `ProcessTimeouts` | a leader with a timeout and a descendant | finding: `TimeoutEnds` |
| `NativeLibrary` | search parameters, client, files, store, decoder, host, SQL values; fair | `Coherent`, `WalksWhole`, `LimitsHold`, `OutcomesTrue`, `Serialized`, `OneStream`, `Answers`, `ImplementsAtomicStore`, `ChunkingFree`, `NoLostReaction`, `ExitTruth`, `HostContract`, `OwnParameters`, `RoundTrip`, `NothingIgnored`, `EveryCallEnds` |
| `DecoderMarks` | a decoder that is given two messages | finding: `MarksSkipped` |

Each property is stated in words above its definition. `EveryCallEnds` gathers
what must end: a close of a server or process, a terminated process, a terminal
with a timeout and its calls (`NativeSessions`); requests, file and store calls,
and the host after a stop (`NativeLibrary`).

**Bounds.** Two handlers are what a race on one row needs; one crash with one
restart reaches every state that recovery can find, since recovery starts from
rows alone, and it may fall anywhere, boot included. For schedules, `MaxRev = 2`
gives an old and a new configuration, `MaxTime = 2` with cron `{1, 2, 3, 4}` two
due instants and cursors beyond the clock, `MaxSteps = 2` a backlog at the cap,
`MaxNet = 2` an overtaking pair. `Late` has `MaxTime = 3`, a catch-up
policy that is supported (one occurrence for each claim), and up to three missed
occurrences, so that the loop has to list and claim the row again and again. Two
tasks in `QueueProgress` are one that runs and one behind it. A run-now moves a
cursor only up to `MaxTime`, so that it cannot run off the finite cron set. In
`NativeSessions`, two requests on one connection show an answer to the wrong
one, two closers with a handler that closes are every order of joining, buffers
of two or three bytes overflow after one chunk, and one slot makes the second
process wait for the first. In `NativeLibrary`, one permit per origin and one
idle connection make each limit bind; two handles on two keys give every
conflict of two transactions; five bytes hold a mark and a character, each cut
anywhere; two signals and a stop from another thread give the forced stop at
each point of start and stop. Deadlock is not checked: with the bounds used up
the system rightly stops; that calls end is `EveryCallEnds`.

**Fairness.** Queue: the runtime executes what is ready, and a child, the leader
of its group, exits, since every `Process` of the executor has a timeout that
runs while it lives. Nothing is assumed of a descendant that holds the output of
an exited child: where it does so for good, the task never ends, which is
`HeldForGood`, an alternative that `CancelTakesEffect`, `QueueDrains` and
`ShutdownCompletes` have. Nothing is assumed of requests, ticks, stops, crashes
or faults; `QueueDrains` holds without the 5 s reconciliation tick. Schedules:
the five-minute trigger calls `reconcile` again and again, the loop runs every
second, calls go on. Strong fairness is used twice: of messages sent again and
again some are read, and a PUT does not fall between `listDue` and the claim on
every iteration. PUTs that read the row before a claim and write it after are
not excluded: where they put the cursor back again and again, `NothingStaysDue`
has this as its alternative (`Rewinds`). Native: the executor and the pool run
what is ready, timers expire. Nothing is assumed of clients, servers, children,
descendants, other processes and signals, except that a name resolution and a
file operation end and that a write to a PTY whose session is gone completes; a
`Store` waits for a lock with strong fairness, as the busy handler polls it
while it is freed again and again.

### Variants

Definitions commented as a *variant* (`Requeue`, `UpdateIfExists`, `LeavesNew`,
...) are plausible bugs of the definition that follows them: a dropped condition,
a missing wake-up, a swapped order. No specification uses them; `PROJECT.json`
names, for each property, the one that breaks it.

### Findings

* **A lost idempotency race is answered with an id that has no row**
  (`QueueReply`): two `POST /tasks` with one key and different ids, both past the
  lookup; the second is answered 202, `deduped: true`, with its own id.
* **A claim that misses its compare-and-set still enqueues**
  (`ScheduleDisables`): the inserts of `claimAndEnqueue` do not depend on its
  UPDATE; an occurrence listed before a disable is run after it.
* **The merge is not atomic** (`ScheduleMerges`): `upsertFromWire` reads, merges
  in JavaScript and writes unconditionally; a claim in between is undone. What
  keeps the occurrence from running twice is `ON CONFLICT(id) DO NOTHING`.
* **A lost ack is not reconciled** (`ScheduleAcks`): later acks of the revision
  are refused as `cursor_mismatch`, so the control plane's `next_run_at` stays in
  the past until the schedule is patched or run by hand.
* **A timeout does not end a process whose leader exited** (`ProcessTimeouts`):
  the timer is cancelled with the leader's exit, while a descendant in its group
  holds stdout; `wait` does not return and the slot stays taken.
* **A second message keeps its byte order mark** (`DecoderMarks`): `bom_seen_` is set
  by the first message of a decoder and never reset (`decoder.cpp:264`), so U+FEFF
  stays in the text of a later message that begins with a mark. The decoder is to be
  WHATWG's (`decoder.cpp:253`, `decoder.hpp:33`, `script/types/encoding.d.ts:1`), where
  a decode without stream starts anew. `ChunkingFree` holds with either text for later
  messages.

Observations without a promise in the repository to contradict, or outside the
runs:

* `requestCancel` writes `cancel_requested` and the status in two statements
  (`task-store.ts:272-277`). If the process stops between them, the row is queued
  with its flag set: `claimNextQueued` skips it and recovery looks at running rows
  only. `CancelTakesEffect` is therefore checked without crashes and faults. In
  the same way a retry whose log insert fails after its row was committed
  (`task-queue.ts:84`) is started by the 5 s tick alone.
* Cancel, the queue behind a task and the product close wait for a descendant that
  holds the output of an exited child (`sh -c 'server &'`): `terminate` returns
  without a signal (`process.cpp:963`) and the timer is gone (`:299`); the cause is
  the finding of `ProcessTimeouts`. A close that waits is cut off by the lifecycle
  timeout, a crash for the queue: the row stays `running` until recovery fails it.
* `Process.close` cancels the reads of the two drains once (`process.cpp:205-228`). A
  drain whose completion is queued at that moment reads again (`:685-703`), and if a
  descendant that left the group holds the pipe, close waits for it. `EveryCallEnds`
  excepts this case (`DrainsAgain`) and no other.
* A read of a terminal that is complete when the master is cancelled (grace of close,
  timeout, disposal) is appended by its handler afterwards (`terminal.cpp:570-579`): a
  reader that was told eof can find more bytes behind it. Appended after the close,
  they stay charged to the budget until the session's state dies. `BufferExact`
  admits one such read (`afterEof`).
* A deadline or a stop of an HTTP request that falls between two parts of a composed
  write or read (`client.cpp:226`, `:247`) is lost: the edge finds no operation, and
  the next part begins without asking for the stop. The request then ends when its
  server does something. `RequestsEnd` excepts it (`Missed`); it is the case that
  `stop_before_operation` covers between whole operations.
* A callback, export or module that enqueues jobs and then throws returns before
  `schedule_job_pump` (`runtime_callbacks.cpp:45-47`, `runtime_script.cpp:54-57`,
  `95-98`). Its jobs run with the next turn that something else posts, and if nothing
  does, they are dropped with the engine, although `docs/RUNTIME_LAYERING.md:103`
  expects the job queue to be empty then. `NoLostReaction` speaks of all other
  jobs, also of those enqueued behind such ones.
* An empty `ArrayBuffer` or `TypedArray` is stored as NULL and read back as null: an
  empty vector's `data()` is null, for which `sqlite3_bind_blob` binds NULL
  (`database.cpp:100`). The model has this behaviour; `RoundTrip` excepts it.
* `Store.run` and `query` execute the first of several statements in a text and
  ignore the rest (`database.cpp:337`); the uses of `Store` have one statement each.
* With `fatal` off, `utf8_to_well_formed` writes one U+FFFD for each bad byte, where
  WHATWG has one for each maximal subpart. `WellFormed` is what the code does.
* `Server.close` waits for the C++ coroutine of a handler, whose await of the
  `onRequest` promise is given up by its stop token (`modules/http.cpp:113`): the
  JavaScript of the handler may go on after close, although
  `script/types/vacps-http.d.ts:32` speaks of a handler drain. `HttpServer` has
  this behaviour.
* Each `terminate` of a process replaces the grace timer of the one before it
  (`process.cpp:971`), so that repeated calls postpone SIGKILL.
* `nextCronRunAtIso` looks 366 days ahead (`cron-next.ts:28`). For an expression
  that fires less often (29 February), a run-now past its occurrence stores no
  cursor, and the next one starts again from the present
  (`schedule-service.ts:502-512`), which may be before the occurrence that was run.
  `CronGoesOn` leaves such expressions out of `CursorMovesByClaim`.
* `readDirectory` (`fs/fs.cpp:207`) looks at an increment's error only inside the
  loop that the error ends: a listing cut short is returned as whole. Path
  operations are not modelled.

## 4. Proofs

All proofs hold for every set of tasks, handlers, requests, connections, callers,
stoppers, scripts and URLs, and every value of the bounds, from the assumptions
that the modules name (`ConstantsOK`, `ScheduleConstantsOK`, `CronGoesOn`,
`ServerConstantsOK`, `UrlConstantsOK`, `ClientConstantsOK`, `StoreConstantsOK`,
`SqlConstantsOK`, `FileConstantsOK`, `ProcessConstantsOK`, `TerminalConstantsOK`,
`HostConstantsOK`).
Those of the client are what `client.hpp` asks for: `Options` fields are positive.

* `TypeCorrect` (`AgentTaskQueue_proofs`): `Spec => []TypeOK`. `TypeOK` is not
  inductive: `status[arg[a]]` is a status only where `arg[a]` is a task. The
  invariant `TypeInv` adds that an actor's task is defined at every point at
  which it uses it, and the lemmas go action by action.
* `OneRunningRow`, `StartedAtMostOnce` (`AgentTaskQueue_proofs`):
  `SingleFlight` and `AtMostOnce`, by `SafeInv`. A row becomes `running` only by
  the claim, which is submitted after a `hasRunning` that answered no; the
  invariant carries the validity of that answer from its execution to the claim
  (`ClaimIsFresh`: only the worker writes `running`), and, from the claim to the
  start of the child, that the claimed task has not been started. Rows that are
  absent or queued were never started, which is where "recovery fails, it never
  requeues" enters.
* `ProcessRowIsRunning`, `KillsAreSeen` (`AgentTaskQueue_proofs`):
  `ProcessHasRunningRow` and `KillSeenAsCancel`. `requestCancel` writes
  `cancelled` over a status it read two awaits earlier, and nothing but the order
  in which the runtime resumes the actors keeps that write off a row whose child
  has started. `PipeInv` is that order: every actor is once in the lane, among
  the settled or in the turn, as its state says; an actor that was `Before`
  another in the lane is settled `Ahead` of it, resumes before it, and submits its
  next operation before it. `RowInv` says what the status, the cancel flag and
  the child are at each point of each actor. Its part `CancelInv` is the race: a
  handler that has read `queued` and is about to write (`Cancelling`) has a row
  that is still queued, or a worker that has not decided to start it and will
  read the flag that the handler sets (`Yields`). For this the handler's
  `reqFlag` must be before the worker's read of the flag, from the claim on.
* `RowsImplementLifecycle` (`AgentTaskQueue_proofs`): `ImplementsLifecycle`.
  The refinement mapping is `status` itself; with `RowInv` at hand each write of
  a status is a move of `TaskLifecycle` and every other step a stutter.
* `LogsAreOrdered` (`AgentTaskQueue_proofs`): `LogsNeverCollide`. Two
  actors log the same task only when a handler logs the clone that it has just
  inserted while the worker may claim it. `LogInv`: the ids that the retries draw
  are distinct and unused until inserted (`FreshInv`), a number read between the
  two statements of `appendLog` is above what is stored (`SeqInv`), and a handler
  that still has to log its clone is ahead of the worker (`CloneInv`), which needs
  two operations more to get to its own first line.
* `StopsCleanly` (`AgentTaskQueue_proofs`): `CleanShutdown`. `ShutInv`:
  the rows that a crash left `running` are in the recovery's list until they are
  marked (`Recovering`); while no fault has occurred no operation is rejected
  (`NoFault`, which rests on `LogsNeverCollide`), a `running` row is the one the
  worker holds (`Owned`), and the cancel of `stop()` does not miss it (`Stopped`):
  the child is registered when `terminate` looks for it, or the flag is set before
  the executor asks for the last time. A child that has exited and is held by a
  descendant is beyond that cancel: the theorem says that the worker waits for no
  child that lives unkilled, not that its wait ends.
* `RevisionNamesConf` (`ScheduleSync_proofs`): `SameRevisionSameConf`. The
  invariant `RevisionInv` speaks of all rows that exist, on both sides and in
  PUTs on their way or read: those with one revision have one configuration, and
  none is newer than the control plane's row, so the number that a successful
  UPDATE gives is new.
* `ForbidHolds` (`ScheduleSync_proofs`): `ForbidNeverOverlaps`. The agent stores,
  lists and is about to write only policies that it supports, and a supported
  `forbid` plans at most one slot, which is inserted only beside no active task.
* `CursorsMoveByClaim` (`ScheduleSync_proofs`): `CursorMovesByClaim`. The two
  compare-and-sets that move the cursor decide from a row that was read earlier, so
  `CursorInv` says what such a row may still claim: no newer revision than the
  stored one, and its configuration if it is the same (`Agrees`, which rests on
  `RevisionInv`); an ack stands at an occurrence whose claim won (`Reported`); a
  row without a cursor has nothing to come (`Fires`), so that a run-now which read
  none, and whose UPDATE then compares none, leaves none. The rest is arithmetic:
  each advance ends later than it began (`Goes`), and the `enqueued_count`-th
  successor exists, since a claim counts at most the occurrences up to the clock
  (`NthGoes`, `ClaimCounted`). Here alone `CronGoesOn` is needed: an expression
  that fires at all fires again.
* `ServerImplementsBarrier` (`HttpServer_proofs`): `Spec => JoinsBarrier`, the
  safety of `CloseBarrier` under the refinement mapping `phase <- Stage`,
  `live <- Live`, `asked`, `done`. The server decides that it is closed by a
  counter, the barrier by a set: `ChildrenCounted` (`child_count` is the
  cardinality of the loop and the live sessions, on every path that ends one)
  joins the two, and the invariant adds that nobody returned, and no waiter was
  released, before the phase is Closed. Then each action is a step of the barrier
  or a stutter.
* `RepliesInOrder` (`HttpServer_proofs`): `RepliesMatch`. It says nothing of a
  session that is under way, so the invariant `Placed` adds where each is: one that
  waits for a request has answered all of them, one that handles or writes owes
  exactly one response, and one that will keep the connection after its write does
  not write an error. It uses that no handler answers with a status of the
  transport's own errors (`ServerConstantsOK`), and `NotStarted` for the
  session that starts.
* `QueriesAgree` (`NativeLibrary_proofs`): `Coherent`. The invariant adds the shape of
  the two tables, and that only a list that was made has an owner, which is the
  URL it belongs to: a mutation of it then writes that URL and no other.
* `WalksAreWhole` (`NativeLibrary_proofs`): `WalksWhole`. The invariant `WalkInv` puts
  every iterator and every `forEach` under way in step with its list: while the list
  has only grown, the walk's index is the number of pairs it gave and these are the
  first ones (`InStep`). A list that is not made has no walks, so that making it
  from the text disturbs none.
* `ClientLimitsHold`, `ClientOutcomesTrue` (`NativeLibrary_proofs`): `LimitsHold`
  and `OutcomesTrue`, both from `ClientInv`. That the count of a gate is the number
  of its holders needs to know what a request holds, which follows from its phase and
  the event of its operation (`PhaseRight`), and who may be let in: those in a line
  wait at this gate and no other, once (`GateRight`), also after the signal took one
  out of the middle. `PoolsRight` counts the users of a pool through every end of a
  request and both ways in which a pool is erased. That a request gets its own answer
  is a fact about connections: `ConnsRight` has each with one request, or idle, or
  with nobody, and `ContentRight` says what it carries: nothing when it is idle or
  nobody's or before the write, then exactly one request or the answer to it, informational
  responses first (`Owed`). A cancelled request leaves one that owes, which is why
  only a request that has read its final response gives its connection back.
* `StoreAnswers` (`Store_proofs`): `Answers`. An outcome is given when the last
  step is over, so the invariant carries what the steps before did: `JobInv` counts
  the statements of a job that are on disk, and `TxInv` says of an open transaction
  that it holds the write lock, that its steps so far met their expectations and
  that it is doomed exactly when one of them broke a deferred constraint. The proof
  found a case the runs had left out: a closed store refuses an `exec` of no
  statement, which has no effect to be told about; `Answers` says so.
* `StoreImplementsAtomic` (`Store_proofs`): `ImplementsAtomicStore`. A commit writes
  what its connection sees, which is the whole of `rows`; that it is the rows on disk
  with the transaction's own writes on top, and not what another handle has
  overwritten since, is `TxInv` again, and the order of the calls of a handle is
  `LaneInv`. With these, a statement or a commit that succeeds is `Apply` of its
  call, and every other step, the rollbacks and the crash among them, a stutter.
* `ParametersAreOwn`, `ValuesComeBack`, `FieldsAreHeld` (`Store_proofs`):
  `OwnParameters`, `RoundTrip` and `NothingIgnored` of `SqlValues`, for any widths of
  the integers. A statement is cached under its text and keeps what was bound to it,
  so the invariant says that between two steps nothing is bound (`BindingsInv`), that
  no step runs before all are decoded (`DecodedInv`), and that the result of a step is
  what its own parameters give (`ResultsInv`). The rest is arithmetic: an accepted
  number is within the safe integers or is a BigInt within int64, where the way there
  and back loses nothing.
* `LeaseSerializes` (`FileHandle_proofs`): `Serialized`. That a call begins when
  every earlier one has returned is a fact about the whole queue: `WaitersInv` (who
  waits is queued, once, in the order of the calls, also after a cancelled waiter
  was taken out of the middle) and `OrderInv` (what returned, the holder, who waits,
  who has not called stand in this order). `OpenInv` then has the file open under a
  transfer, since nobody but the holder closes it.
* `FileIsOneStream` (`FileHandle_proofs`): `OneStream`. The cursor moves when a
  worker or a resumption ends a call, and the script hears of it later or, after a
  stop, never. `StreamInv` says for what each call moves where the last one that
  moved anything ended (`EndsAt`), and that the cursor is there too, unless a worker
  has moved it and its caller has not resumed (`Unheard`), as long as no stop has
  hidden such a move.
* `WaitsAreComplete` (`NativeSessions_proofs`): `WaitIsComplete`. A wait succeeds
  after the join of the reap and both drains; that nothing is lost then is a fact
  about the pipes. `DrainedInv`: what was written is in the pipe or was produced, and
  a drain that has ended found the pipe empty with nobody left to write to it
  (`Dry`), or the process is closing or closed (`Cut`), where a wait fails. A pipe
  that is dry stays so: only a living leader has descendants, and only a process
  never started is started.
* `WritesStayWhole` (`NativeSessions_proofs`): `WritesAreSerialized`. `BusyInv` has
  `write_busy` and the one writer at the pipe name each other, through every
  suspension, and `FedInv` adds that what a writer fed is the end of what was fed.
* `BudgetIsExact` (`NativeSessions_proofs`): `BudgetExact`. The model adds up the
  sizes of chunks, and these over the processes, with folds, and a fold chooses the
  order in which it goes through a set. The lemmas on `Units` replace it by a count:
  the iteration that the fold takes exists, and its value is the cardinality of a set
  with `w[x]` elements for each `x`, whatever the order; adding a chunk or clearing a
  process then changes one part of a union (`PartChanges`). With it `BudgetInv` goes
  through every path that ends a process: a slot is held exactly from the start to
  the join of the reap and both drains (`SlotOK`), so that `release_process` and
  `sub_buffered`, which stop at zero, never have to.
* `ReadersAreExact` (`NativeSessions_proofs`): `ReaderIsExact`. `ChunksOK`: no
  retained chunk is empty (a read completes with bytes, `Full`), and each knows how
  many bytes of its stream lie before it. `Placed`: what a client has read is, of
  each stream and in total, exactly what lies before its cursor; appending a chunk
  leaves that so. `collect` is a walk over the chunks of which each turn keeps both
  (`TurnKnown`), and `HasUnread` is false only behind the last byte. After eof the
  process is finished, where no drain appends; a close drops the chunks, and what
  was read stays numbered (`Numbered`).
* `BufferStaysExact` (`NativeSessions_proofs`): `BufferExact`. `Ordered` has the
  chunks in the order of their offsets, none empty, each byte its own, and all below
  `produced`; eviction drops exactly the bytes asked for (`EvictKnown`) and appending
  charges exactly those kept (`KeepKnown`). `collect` goes over the chunks with the
  offset it has come to; by induction on the chunks each byte it passes is held by one
  of them (`CollectKnown`), and it returns nothing only at the end of the output.
  After eof was told, the produced bytes grow at most once, by the read that was
  complete when the master was cancelled (`EndTold`): the loop starts no other.
* `TerminalBehindBarrier` (`NativeSessions_proofs`): `TerminalImplementsBarrier`.
  `CloseInv`: a session is finished only when its child is reaped and the PTY at its
  end, a closed one that was started is finished, and a caller of close that waits,
  was woken or has returned belongs to a session that closes, has finished or is
  closed. The handlers share what they may do to a session (`Handled`), which is a
  step of the barrier or a stutter.
* `ReactionsNotLost`, `ExitIsTrue`, `LifecycleKeepsContract` (`NativeHost_proofs`):
  `NoLostReaction`, `ExitTruth` and `HostContract`. Most of what the host promises
  is held by the owner's queue, so the invariant `IInv` speaks of it. `TurnInv`: the
  flag that coalesces the turns of the pump is set only while a turn is queued.
  `AwaitInv`: a wait is under way exactly while its timer is, and its completion is
  queued at most once, whether a settlement, a timeout or a stop ends it; so when
  `main_io` has run dry, nobody waits. `StartInv`: no stop of the kernel is queued
  ahead of the start of the entry. `CutInv`: a kernel that stops, or has its stop
  queued, was asked to by a stop that `on_stop_request` has seen, by a failure of
  the lifecycle, or before the entry began; none of these leaves a ready entry that
  a first stop would shut down in a kernel that no longer runs.

With these, every safety property that the passing runs check of `AgentTaskQueue`,
`ScheduleSync`, `Store`, `SqlValues`, `FileHandle`, `HttpServer`, `HttpClient`,
`UrlSearch`, `NativeHost`, `NativeProcess` and `Terminal` is a theorem.

Model-checked only: liveness and fairness (out of TLAPS's reach), which for the
task queue are `QueueDrains`, `CancelTakesEffect` and `ShutdownCompletes`, for the
schedules `Converges` and `NothingStaysDue`, and for the native parts
`EveryCallEnds`; and `ChunkingFree`, since what
`TextDecoder` computes for every input is a recursion over the input, an induction
that the provers cannot instantiate.

## 5. Plan

Done: the task queue, schedules and the native library, each with its abstract
specification where one is worth stating. Next, in order:

1. `TaskService` over interleaved D1 statements. Its hazards: a dispatch that
   times out is recorded as failed although the agent may run it
   (`task-service.ts:341`), `setStatus` overwrites a newer status (`:1456`),
   cleanup and delete look at pin and legal hold before and not with the write
   (`:816`, `:1038`), operation keys are looked up before and stored after
   the work (`:564`).
2. The agent's tool idempotency: joined calls, expiry, a full map
   (`runtime/idempotency.ts:64`, `:83`).

## 6. Not modelled, and why

`PROJECT.json` has the status of each component. Left out are: path operations
and crypto (one-shot calls of the operating system and OpenSSL); the binding
templates (ownership and conversion, checked by the C++ type system and the native
tests); parsing, civil time, key encoding and screen emulation (text
processing without shared state); authentication (opaque cryptography); the
control plane's tasks, registry, tunnels and OAuth (chains of D1 statements and
calls of an external API; `ScheduleSync` shows the kind); the UI, migrations and
installers. The watchdog and heap limits of the engine end a script from outside
and appear as a call that throws. Contents of results and logs, `pruneRetention`
and `queueCounts` are left out of the queue.
