# TLA+ models of the MLX server runtime

The repository is an OpenAI-compatible server for MLX models: a Rust gateway
(HTTP, admission, telemetry, supervision) that starts Python workers and talks
to them over a socket, one JSON line per message. The core of the Python side
is the native engine, which runs a continuous scheduler over a paged key/value
cache on one thread. Beside it there are the earlier (v1) text and vision
workers and a benchmark harness that starts the gateway and measures it.

This directory holds TLA+ modules translated from that source, TLC models that
check them on small instances, and TLAPS proofs. `PROJECT.json` is the index:
components, runs, mutants, the source lines of every definition, findings,
hazards and theorems.

## 1. Inventory

### Native paged KV cache - `native_mlx/cache.py`

*State*: a pool of pages, per handle a block table and a length, reference
counts, pin counts, the free list, the pages promised to a reservation, the
K/V arrays. *Operations*: `create`, `fork`, `release`, `preflight`,
`reserve_batch`, `stage_layer`, `commit`, `abort`, `reset`. *Used by* the
executor (append rows), the scheduler (acquire and release handles), the
prefix caches (fork handles to keep and to reuse prefixes). *Hard*: pages are
shared, a reservation is outstanding across calls, and three pieces of
bookkeeping (references, pins, free list) must agree after every order of
calls. *Correct if*: reference counts are exact, a free page is used by
nobody, every handle reads back its own rows, `preflight` and `reserve_batch`
agree, nothing is lost for good.

### Native request engine - `worker.py`, `runtime.py`, `scheduler.py`, `executor.py`

*State*: the scheduler's waiting and running requests with cursor, counters and
flags; the step in flight; the runtime's table of open requests. *Operations*:
chat, cancel and close commands; a tick that reaps, resolves, selects,
dispatches and emits. *Hard*: in overlap mode step N+1 is dispatched before
the tokens of step N reach the runtime, so that a cancellation, a stop string,
a failure or `max_tokens` is known after work has been sent for the request.
*Correct if*: every request gets its tokens in order and one terminal message;
no handle is released under a step that uses it; the scheduler and the runtime
agree on who is open; the worker becomes idle.

### Scheduling policies - `scheduler.py`

The order of the prefills a tick may select: `fcfs`, or a score by matched
prefix (`lpm`), `max_tokens` (`lof`) or `priority`, with a starvation boost.
*Correct if* no request of a backlog is passed over for ever.

### Prefix caches and coordinator - `prefix_cache.py`, `cache_coordinator.py`

Two implementations (hash chain, radix tree) of a bounded store of forked
handles. *State*: the entries or tree nodes with snapshot, pins and time of last
use; the lease of each active handle. *Operations*: `acquire`, `publish`,
`release`, `reset`, called by the scheduler through `NativeCacheCoordinator`.
*Hard*: an entry is found by one request, leased, and published over, split
above or evicted by another before it is given back. *Correct if* a match is a
true prefix, leased entries are not evicted, every entry has one snapshot and no
snapshot is forgotten, the limits hold, and eviction leaves no unreachable entry.

### Dense and hybrid caches - `cache.py`

The alternatives to the paged backend: one array per handle, and a convolution
state kept beside the pages. Same contract as the paged cache.

### Gateway admission - `gateway/src/http.rs`

*State*: two counters under a mutex and a condition variable. *Operations*:
`acquire_until`, drop of `RequestPermit`. *Hard*: newcomers, waiters woken by
`notify_one` or by their 50 ms wait, deadlines and disconnects in any order.
*Correct if*: the counters are exact, a permit reaches a waiter, a queued
request keeps its place.

### Gateway dispatch - `http.rs`, `ipc.rs`, `telemetry.rs`

*State*: per request a handler, a disconnect flag, a canceller thread, a
tracker and a channel; shared by all, the table of in-flight requests, the
`closed` flag, the socket. *Operations*: the chat handlers,
`WorkerClient::execute_chat`, the reader thread, `cancel_request`,
`RequestTracker::finish` and drop. *Hard*: a request registers and sends
without a lock across both, while the worker may die and the reader thread
fails all requests and ends; a write to the worker blocks while the socket is
full, also that of a canceller its handler is joining. *Correct if*: every handler ends and gives its
permit back, no event goes to a channel nobody reads, gauges are exact.

### Gateway supervisor - `supervisor.rs`, `foreground.rs`

*State*: the child process, the shutdown flag, the status of the text and of the
VLM model, the client, the socket file. *Operations*: `run_with` on the main
thread, bootstrap with a deadline and monitoring on a second, VLM warm-up on a
third, `terminate_worker` on either of the first two. *Hard*: the flag is set
by a signal handler, by the monitor and by shutdown; both threads may terminate
the worker at once; the main thread joins the other. *Correct if*: the gateway
stops when told to, leaves no process, thread or socket file behind, and says
so when it lost its worker.

### launchd instances - `instances.rs`

Start, list, stop of background instances with metadata files that can be left
behind when a step fails.

### v1 text worker - `batching.py`, `engine.py`

*State*: queued and active requests, one `BatchGenerator` of `mlx_lm`, a store
of prompt caches. *Operations*: `submit`, `cancel`, `tick` (step, admit,
finish), `close`, and the one-shot batch backend that shares the store. *Hard*:
a cached prompt is looked up at submission and used at admission; the
generator's sequences, the active table and the store change in one tick; the
text is cut into deltas while characters are incomplete. *Correct if* generator
and scheduler agree, the client holds the text, a cache belongs to its key, and
everyone is answered.

### v1 vision worker - `vlm_engine.py`, `batching.py`

*State*: the same, with one sampling key per generator, a store of prompt caches
by prompt and image, a store of embeddings by image, and a budget that both
share with the running batches. *Hard*: requests of another sampling key wait
for the generator to close; preparation may fail or be cancelled by the reader
thread; the budget shrinks when a batch grows. *Correct if* the budget holds for
what is in memory and nobody waits for ever but by being overtaken.

### v1 command loops - `main.py`

A sequential loop that reads ahead while a request runs, and a mixed continuous
loop with a reader thread and two schedulers that tick in turns. *Hard*: who
reads which line when; cancels, resets and the end of the connection between
them. *Correct if* requests are answered once and in order, a reset is
acknowledged only when all before it are answered, and the process ends with
the gateway.

### Benchmark harness - `mlx_benchmark/runner.py`, `loadgen.py`, `configuration.py`

*State*: the results document on disk, the server process, the load generator's
tasks and connection pool, the diagnostic attempts. *Operations*: `run`,
`calibrate`, `diagnose`. *Hard*: SIGINT and SIGTERM are raised as an exception
at whatever statement they hit; requests fail and servers die. *Correct if* the
load is the one asked for, the file and the exit status tell what happened, and
no server is left behind.

### The rest

Protocol encoding, OpenAI mapping, command line and distribution, model graphs
and weights, tracing, benchmark statistics. No shared state worth a model, or
numerical code; `PROJECT.json` gives the reason for each.

### How the parts interact

    connection thread --- RequestAdmission --- ChatDispatch --- socket --- worker loop
         |                    (permit)             |                          |
    DisconnectMonitor                        reader thread             NativeEngine
                                             canceller thread                 |
                                             Supervisor                PrefixIndex
                                                                             |
                                                         HybridKVCache / PagedKVCache

    socket --- WorkerMain --- TextBatch --- PromptCache
                         \--- VlmBatch  --- PromptCache

    BenchmarkRun --- LoadGen --- the gateway
         |
    BenchmarkPlan

The permit of `RequestAdmission` is held for exactly the time that
`ChatDispatch` models. `ChatDispatch` takes the worker as what
`RequestLifecycle` says of it, and `NativeEngine` is shown to implement
`RequestLifecycle`. `NativeEngine` uses the cache through reservations and
handles, and it guarantees what `PagedKVCache` assumes of its caller:
`OneReservation` and `UsedHandlesHeld`. Its reuse of prompt rows (`probe` in
`Select`) is what `PrefixIndex` allows: fewer rows than the prompt has, from a
prefix that stays while the request runs; both prefix caches are shown to
implement `PrefixIndex`. `Supervisor` is the life of the process around all of
this: it creates the client that `ChatDispatch` looks up and takes it away
(`DropClient`). `WorkerMain` takes each v1 scheduler as the set of its open
requests, of which a tick answers some; that they are all answered is
`EveryRequestAnswered` of `TextBatch` and, with its exception,
`ServedUnlessOvertaken` of `VlmBatch`.

## 2. Modules

| module | models | state and actions |
|---|---|---|
| `PagedKVCache` | `PagedKVCacheBackend`, `PagedBatchReservation` | a variable per field of the backend; an action per method |
| `DenseKVCache` | `DenseKVCacheBackend`, the reference | rows and convolution window per handle; an action per method |
| `HybridKVCache` | `HybridPagedKVCacheBackend`, `HybridBatchReservation` | `PagedKVCache` and two variables; its actions extend those of the paged cache |
| `NativeEngine` | worker loop, runtime, scheduler (both modes), executor | a variable per field of `_RequestState`, as a function or a set of requests; `pc` is the place of the owner thread in a tick |
| `RequestLifecycle` | the promise of a worker to the gateway | abstract: open requests, tokens sent, terminal message |
| `RequestAdmission` | `RequestAdmission`, `RequestPermit` | the two counters; a turn of the loop per step |
| `ChatDispatch` | chat handlers, `WorkerClient`, cancellers, trackers | a place per handler, the table, the channels, the socket in both directions |
| `PrefixIndex` | the promise of a prefix cache to the coordinator | abstract: prefixes stored, prefixes lent |
| `CacheCoordinator` | what both prefix caches have in common | requests, leases, pins and snapshots; limits and `Unpinned` |
| `BlockHashPrefix` | `BlockHashPrefixCache` | the entries with pins and time stamps, the leases; an action per method |
| `RadixPrefix` | `RadixPrefixCache` | the tree as a record of functions on nodes; an action per method, named `Radix`... |
| `Supervisor` | `run_with`, bootstrap, monitor, warm-up, termination | a place per thread; each access to shared state is a step |
| `PromptCache` | `PromptCacheStore` | no variables: operators on a sequence of entries, oldest first |
| `TextBatch` | `MlxWorkerEngine`, `ContinuousBatchScheduler` | queue, active set, generator, texts; submit, cancel, tick and the one-shot call |
| `VlmBatch` | `VlmContinuousBatchScheduler`, the two stores, `CacheBudgetManager` | as above, with sampling keys, bytes and the reader's marks |
| `WorkerMain` | bootstrap, sequential loop, mixed continuous loop, reader thread | socket, queue, place in the loop; each read, decision and tick is a step |
| `BenchmarkPlan` | selection and `_execution_plan` | operators only |
| `LoadGen` | load modes and connection pool | tasks, connections, answers still due; one action per await |
| `BenchmarkRun` | `run`, `calibrate`, `diagnose` | place in the command, server process, results, diagnostics; a signal may hit any place |

The theorems stand in modules of their own: `KVCacheProofs` (about
`PagedKVCache`, `DenseKVCache`, `HybridKVCache`), `NativeEngineProofs`,
`GatewayProofs` (`RequestAdmission`, `Supervisor`, `ChatDispatch`),
`PrefixCacheProofs` (`BlockHashPrefix`, `RadixPrefix`), `TextBatchProofs`,
`VlmBatchProofs`, `WorkerMainProofs` and `BenchmarkRunProofs`. The `MC` modules define constants, symmetry and view for
TLC; the other modules are configured directly.

What is abstracted:

* **PagedKVCache.** A K/V row is the tag *(handle that computed it, position)*.
  That is all that content properties need: two rows differ if another handle
  or another position wrote them. All layers go through the same steps and are
  one layer. Which free page an allocation takes is left open (the code takes
  the lowest number), which covers every policy. `written` is a history
  variable. `stage_layer` copies copy-on-write pages into the live pool before
  it makes the staged copy; the model keeps that order, since an abort leaves
  those copies behind.
* **HybridKVCache, DenseKVCache.** An input of a convolution is tagged like a
  row. The window is cut out of the padded batch as in the code. `KeepsDense`
  maps the pages of a handle to the rows they hold (`HeldRows`) and the staged
  pool to the rows the step shows the attention kernel (`ShownRows`): the paged
  backends implement the dense one, which the repository keeps "for diagnostics and test parity".
* **NativeEngine.** A token is `text`, `eos` (known to the scheduler and the
  runtime) or `stop` (completes a stop string, known to the runtime only). The
  cache is reduced to who holds a handle, whose pages are pinned and how many
  rows are committed. Whether a request fails in preflight, a prefix match
  supplies rows, the model raises or `mx.async_eval` raises is a free choice.
  The mode (overlap or serial, decodes first or not, policy) is chosen at the
  start and stays. A score is compared by boost, value and arrival, which is what
  the tuple of the code comes to; rounds are counted only as far as the boost can
  tell (`LastRound`), which loses nothing. Every pending command is read before a tick,
  as in `worker.py`; any number of commands, including none, is pending.
* **RequestAdmission.** The mutex is held from one `wait_timeout` to the next,
  so a turn of the loop is a step. Time is not modelled: a wait can end and a
  deadline can pass at any moment.
* **ChatDispatch.** Messages carry a type and a request. The worker answers in
  any order, may exit between any two steps, and may send a line that does not
  decode (`garbled` remembers it). Once the reader thread has ended, what the
  worker writes is lost. The socket down to the worker holds `MaxDown` commands:
  a write to a full one blocks, and one to a worker that has exited fails. A
  canceller that has seen the disconnect flag is past its stop flag: from then on
  its handler waits for its write (`SeesDisconnect`, `CancelOnDisconnect`).
* **BlockHashPrefix, RadixPrefix.** A block hash is the prefix it was computed
  from. A snapshot is the tokens whose rows it holds, and `snaps` counts the
  snapshots the backend has been asked for and not given back. Clock values are
  replaced by their ranks, which is all that eviction compares. Every entry
  costs one page, so that both limits count entries. `publish` is called with
  any committed length, in the order the scheduler calls it. A radix node is a
  number; nodes that are gone give theirs back, so that `MaxNodes` bounds nothing
  the code could do (`NodesAssumption`, from which `FreshId` proves that a number
  is always left).
* **Supervisor.** Time is not modelled: a deadline passes at any moment. Atomics
  with relaxed order are taken as sequentially consistent. The socket carries
  the bootstrap messages; a handshake message the worker has not sent may never
  come. Steps of one thread that touch nothing shared are merged with the next.
* **TextBatch, VlmBatch.** The generator is external: it returns a token for some
  of its sequences or raises, which ends the worker. A token costs a byte. A
  token that is half a character decodes to a replacement sign until the next
  one. Of the requests prepared in one vision tick at most one is bad (`Bad`).
  What `prompt_kwargs` contain is left out.
* **WorkerMain.** A line is a request, a cancel or a reset; a line that does not
  decode is answered with an error and changes nothing. A request of the model
  is sent once, a reset once. At most `MaxWire` commands are in the socket. The
  places before generation at which `should_cancel` is called are the `Stages`;
  they differ between `_generate_vlm` and `_stream_vlm` and on a cold start.
* **BenchmarkRun, LoadGen.** A workload has a mode, a concurrency and a number of
  requests; the coverage a suite asks for is a set, since its order only sorts
  what has a place in the plan anyway. There are as many connections as the
  largest workload may have requests at once, and no workload has the name that
  stands for no load. A request succeeds, fails or times out; a server may die at any
  moment. One signal per command, at any place between two statements that
  matter, after the diagnostics too as long as the handler is installed; in an
  event loop (`Looping`) it may be dropped. `window` remembers that it hit one of
  the three places named in section 5, and whether a server or a directory stays
  behind. The diagnostic targets are those of the plan (`Targets`). Failing writes
  are left out.

## 3. Runs

| run | shows |
|---|---|
| `paged_cache` | Two handles of the hybrid backend on four pages: exact reference counts, unused free pages, sound reservations, agreement of `preflight` and `reserve_batch`, that a commit reclaims stranded pages, and that rows and convolution windows are those of the dense cache. |
| `engine` | Both modes with three requests: one reservation, handles held while used, agreement of runtime and scheduler, cache positions (`EngineAgrees`), exact streams; the engine implements `RequestLifecycle` with its liveness, and drains, even if `mx.async_eval` raises. |
| `admission` | Exact counters; a queued request keeps its place; a free permit reaches a waiter. |
| `dispatch` | A handler that waits for its worker always has something coming and every request ends, though writes may block, unless a line did not decode; the table and the gauge stay exact even then. |
| `prefix_block_hash` | Pins are leases, leased entries stay, one snapshot per entry, the limits give way to leases only, and the cache implements `PrefixIndex`. |
| `prefix_radix` | The same of the radix tree, and that it stays a compressed trie in which the longest usable snapshot is found. |
| `supervisor` | After a signal the gateway stops; when it has, the worker is reaped, the socket file gone, the thread joined; a loss while serving is reported. |
| `text_batch` | The generator holds the active requests and no others, text is sent anew only after a half character, the store keeps its limits and no key twice, what was found in it stays right for a waiting request, every request is answered. |
| `cache_of_key` | *Violation*, finding 1. |
| `vlm_batch` | One generator with one sampling key, stores and running batches within the budget, every request answered unless later ones keep overtaking it. |
| `worker_main` | One answer per request, in order in the sequential loop, before a later reset is acknowledged; a cancel that was dealt with has stopped its request; the process ends after the gateway has closed. |
| `benchmark` | The pool never delays or mixes up requests, results and exit status agree with what happened, no server stays, every command ends. |

Each property of a passing run has a mutant in `PROJECT.json`: a plausible bug
in one definition under which TLC finds the property violated.

### Bounds and why they are enough

* `paged_cache`: `PageSize` 2 gives partly filled pages, the condition of
  copy-on-write; `MaxLength` 4 gives two full pages and every partial one before;
  four pages are too few for two full handles and a reservation, so that
  preflight turns requests down and pages are reused. A `Window` of one is
  shorter than the longest append and as long as the shortest, so that padding
  matters. Two handles in a batch share a page; that a third sharer changes
  nothing for counts, free list and reservations is what the theorems show.
  Pages and handles are symmetric, since no operator chooses between them. The
  view leaves out no more than what nobody reads (see `MCHybridKVCache`).
* `engine`: prompts of one and two chunks, limits of one to three
  tokens, prefill batches of two. A request can be prefilled in two steps
  beside another's decode, can end with its first token, and can be decoded
  one step ahead of the runtime and past its end. Overlap is run with FCFS and
  decodes first, serial mode by priority, where the longest prompt is the least
  urgent. Each request is submitted at most once.
* `admission`: one permit and two places for four threads, so that a thread is
  active, two wait and one is refused, all at once.
* `dispatch`: one streaming and one non-streaming request, one delta on the way
  per request (`MaxDeltas`), and room for one command in the socket (`MaxDown`), so
  that the second write already blocks. The races are between one handler and the reader,
  the worker and its canceller; the second request shows that they do not
  disturb each other.
* `prefix_block_hash`, `prefix_radix`: two requests and three prompts of four or
  five tokens with pages of two, that share one page, part in the middle of a
  page, or share nothing; one of them has full pages only. With room for two
  entries a chain of two fills the cache, so that every other publication
  evicts. `MaxNodes` is the number of prefixes the prompts have, and more than the
  tree ever has nodes. Slots are symmetric; the
  view of the radix tree forgets the numbers of the nodes.
* `text_batch`: three requests for two places, prompts that equal, extend and part
  from one another and one that is too long, two tokens each, a store of two
  entries and four rows, so that hits, replacement and eviction happen.
  `cache_of_key` has two requests.
* `vlm_batch`: two sampling keys, a shared image and none, a budget that a text
  batch of three bytes makes too small for what is stored. A request id stands
  for one request after another.
* `worker_main`: two vision requests, one of them streaming and cancelled, and a
  text request, so that every stage is met, cold and warm; two commands in the socket (`MaxWire`), two ticks in a row for
  one scheduler (`TickMax`).
* `benchmark`: one workload per load mode, two connections, suites on one or two
  runtimes or models, some of them refused, a focus that empties an execution,
  one trial each, two repetitions of a calibration, one later `diagnose`
  (`MaxDiagnose`) and one signal per command. Two diagnostic families have three
  targets on the suite with two models, on others fewer or none, so that
  diagnostics succeed, fail and run more than one attempt of a family.
* `supervisor` has no bound: one worker, one signal (the flag stays set), and a
  VLM model, whose absence is the case that its warm-up never starts.

`CHECK_DEADLOCK FALSE` stands where the system may stop: all requests of a
finite set have ended. In `paged_cache` deadlock is checked.

### Fairness

* `NativeEngine`: weak fairness of `Tick`. The worker loop calls `tick` as long
  as the runtime is not idle, and each step of a tick is straight-line code.
  No command is fair: the gateway may never send one.
* `RequestAdmission`: weak fairness of each waiter's turn (the wait is bounded
  by 50 ms because every connection has a disconnect flag) and of the release
  of a permit, which is `EveryRequestEnds` of `ChatDispatch`.
* `ChatDispatch`: weak fairness of each thread (handler, canceller, reader), and
  of the worker reading its commands and answering what it serves, which is
  what `KeepsLifecycle` and `Drains` show of the engine. A canceller whose write
  blocks gets on because the worker reads or exits; if it did neither, the handler
  would stay in its join. Neither the exit of
  the worker nor a disconnect nor the loss of the client is fair.
* `Supervisor`: weak fairness of the main and of the bootstrap thread. The
  worker promises nothing, not even to exit after `SIGTERM`; `accept` need
  never fail; the warm-up thread may hang. The caches have no fairness: nothing
  about them is a liveness property.
* `TextBatch`, `VlmBatch`: weak fairness of a tick in which the generator has a
  token for every sequence it holds (`Round`, `FullTick`). The loop ticks as long
  as a scheduler is not idle, and the generator advances all its sequences. It is
  written out with its enabling condition, because TLC evaluates `ENABLED` of a
  tick slowly.
* `WorkerMain`: weak fairness of the process and its reader thread, strong
  fairness of a tick that answers some request, which is what the two schedulers
  promise.
* `BenchmarkRun`: weak fairness of the command's own steps: every wait in it has a
  time limit but `wait_closed` (`loadgen.py:33`), which ends when the server reads
  or closes, and that is assumed. Neither a signal nor the death of a server is fair.

## 4. Proofs

All theorems hold for every value of the constants that satisfies the named
assumptions of the module.

**KVCacheProofs**, about `PagedKVCache`, from `PagesAssumption`, `PageSizeAssumption`,
`HandlesAssumption`, `BoundsAssumption`: a finite non-empty pool, positive page
size, finitely many handles, natural bounds.

* `TypeCorrect`, `ReferenceCounting`, `FreeListSafe`, `ReservationStaysSound`,
  `CommitsReclaim`, `PreflightIsRight`, `RowsStayApart`, `RowsIntact`.
* The inductive invariant is
  `Bookkeeping == TypeOK /\ RefCountsExact /\ FreePagesUnused /\ ReservationSound`.
  None of the last three is inductive alone. `Commit` moves granted pages into
  block tables: the counts stay exact because the new tables consist of granted
  pages and of pages of the old ones (`ReservationSound`), and the free list
  stays unused because granted pages were still on it (`FreePagesUnused`) and
  leave it. `Release` frees a page when its count reaches 0, which is right
  because the counts are exact. `Reset` clears everything, which is right
  because a reservation always pins or reserves some page, so that the guard
  sees it.
* `CommitsReclaim` adds one invariant, `GrantedUsed`: every granted page stands in
  a new block table, so that after a commit its count is not zero. The pages a
  commit leaves stranded are then those its sweep passes over because the
  reservation pins them.
* `PreflightIsRight` follows from `Bookkeeping` alone: the cost `preflight` adds
  up for a request is the number of places that `reserve_batch` has to fill
  (`CostOfSlots`), and the places of two requests are disjoint (`CostOfPair`).
* `RowsStayApart` is about where rows stand. Its invariant `Content` says of an
  outstanding reservation that the places it will write hold no row any live
  handle reads (`Fresh`), that no two rows of its new block tables share a place
  (`Apart`), and that an old row of the batch is on a page that is kept or
  copied to a granted one (`Copies`); of the staged pool it says that every
  handle still reads its old rows there (`StagedRight`). The argument for `Fresh`
  is the one behind copy-on-write: an append goes to a granted page, which is
  free and so in no table, or to the partly filled last page of its handle, and
  if that page is not copied its count is 1 and by `RefCountsExact` nobody else
  has it (`CountedOnce`). A fork between `reserve_batch` and `commit` shares rows
  below the source's length only, which `Fresh` does not let a step touch.
* `RowsIntact`: `ContentIntact` of `PagedKVCache` is inductive with `Content` and
  `StagedComplete`, which says what the staged pool shows through the new tables.
* The lemmas are about `Count` and `Occurrences`: how the number of places of a
  page changes when one handle joins, leaves or gets a new table; and about
  `PageNo`, the place of a position. They rest on `FiniteSetTheorems` and
  `SequenceTheorems`.

**KVCacheProofs**, about `HybridKVCache` and `DenseKVCache`, from the same
assumptions and `WindowAssumption`.

* `HybridImplementsPaged`: every action of the hybrid backend is the paged action
  of the same name, or changes the convolution state only (`HybridStep`).
* `HybridPagesSafe`: so the three invariants above are invariants of the hybrid
  backend.
* `PagedImplementsDense` is the refinement `KeepsDense`: every step of the hybrid
  backend is the step of `DenseKVCache` of the same name under the mapping
  `HeldRows`, `ShownRows`, one lemma per action. It rests on `Bookkeeping` and
  `Content` and on one more invariant, `Windows`: convolution states, staged ones
  too, are as long as the window. The lemma that takes work is `KeptLatest`: the
  window the code cuts out of the padded batch is the last `Window` inputs of the
  old state followed by the new ones, whatever the padding.

**NativeEngineProofs**, from `RequestsAssumption`, `WorkAssumption`,
`ConfigAssumption`: finitely many requests, positive prompt lengths and token
limits, positive sizes of a prefill step and batch, any set of modes.

* `AlwaysAgrees`, `StreamsAreExact`, and `KeepsLifecycleSafety`: the engine
  implements `Safety` of `RequestLifecycle`, its specification without fairness.
* The inductive invariant has six parts. `Typed`. `Control`: at which places of a
  tick a batch is selected, in flight, resolved or told. `Holding`: what a batch
  refers to is running and holds its handle, and pins belong to the step in
  flight or to a reservation that `AsyncEvalRaises` leaked. `Agreement`: the
  runtime knows whoever the scheduler works for, and waits for somebody else only
  while an event that ends the request is on its way. This is what
  `RuntimeAgrees` becomes in the middle of a tick. `Progress`: a running request
  is prefilling or decoding, with its rows, cursor, position and number of
  generated tokens related accordingly; without it, the positions of the next
  batch would be unknown when a step in flight is resolved a tick later.
  `Streams`: at most one token per request is on the way between scheduler and
  runtime.
* Overlap mode is where the parts need each other: a request may be cancelled or
  ended by the runtime (`stop`) while a decode step for it is in flight. `Resolve`
  drops its result because of `Agreement`, and its rows are bounded because of
  `Progress`.

**GatewayProofs**, about `RequestAdmission`, from `AdmissionRequests`, `AdmissionLimits`: a
finite set of requests and natural limits, zero included.

* `AdmissionCounts`, with the inductive invariant
  `Counted == AdmissionTypeOK /\ CountsExact`: the type of the counters rests on the
  guards that stop at zero, the exactness on what one step does to the
  cardinality of `At(place)`.
* `QueuedRequestStays`, an action property that follows from `Counted`: a
  waiter that wakes up counts itself out first, so it sees fewer than
  `MaxPending` others.

**PrefixCacheProofs**, about `BlockHashPrefix`, from `SlotsAssumption`, `PromptsAssumption`,
`LimitsAssumption`: finitely many slots and prompts, a positive page size,
natural limits, zero included.

* `BlockTypes`, `LeasesPinned`, `SnapshotsOwned`, `LimitsEnforced`, and
  `ImplementsIndex`: the detailed specification implies `PrefixIndex`.
* The inductive invariant is
  `Sound == TypeOK /\ PinsExact /\ SnapshotsExact /\` *no request, no lease*.
  Eviction takes unpinned entries only, and by `PinsExact` a leased entry is
  pinned, so `Victims` never meets a lease; the last conjunct is what makes
  `Reset`, whose guard is about requests, safe for leases. The refinement
  follows from `Sound`: `Lookup` returns a page prefix of the prompt that is an
  entry (`LookupSound`), and the entries a step removes are not lent.
* `LimitsEnforced` needs `Sound` and that eviction, which takes the oldest
  unpinned entries one by one, stops only within the limit or with nothing
  unpinned left but the entry just published (`EvictsEnough`).

**PrefixCacheProofs**, about `RadixPrefix`, from the same assumptions and
`NodesAssumption`: at least as many node numbers as the prompts have prefixes.

* `RadixTreeSound`, `RadixHoldingsExact`, and `RadixImplementsIndex`: the detailed
  specification implies `PrefixIndex`, by a step simulation.
* The inductive invariant is `RadixSound`: the tree is in `Tries`, no bare leaf is
  left over, pins are leases, snapshots are entries, the limits yield to leases
  only, and a slot without a request holds no lease. `Tries` says locally what
  a compressed trie is: a node stands for the tokens of its parent followed by
  those of its edge (`Shape`), siblings part at once, and a snapshot is of full pages
  and on the node that stands for them (`Filled`).
* The central lemma is `NothingBetween`: if the tokens of one node begin with
  those of another, so do those of its parent, or it is that node. So no node
  stands inside an edge, two nodes never stand for the same tokens
  (`NodesDiffer`), and the nodes a walk comes to (`VisitedMembers`) are all whose
  tokens the prompt begins with. `PathIs` says that what is computed up the edges is
  what the local invariant says.
* `InsertGrows`, by the three cases of `_insert_prefix`: the tree stays a trie with
  its nodes and snapshots. The case that counts is `SplitGrows`: the upper half
  of an edge split after `Common` tokens has no node yet, and siblings still
  part at once, above and below it.
* The loops of `publish`, `_prune_empty_ancestors` and
  `_evict_until_within_limits` are functions of the turn (`LoopExists`).
  `PrunedKeeps` and `EvictedKeeps` show that they end, since each turn takes a node
  or an entry; that pruning from the only bare leaf leaves none; that eviction
  takes no pinned snapshot; and that above the limits it leaves no candidate. `EntriesCounted`
  then balances forks and releases against the entries.
* `LookupFinds` is `FindsLongest` for any trie: a snapshot has full pages, so one that is
  a true prefix of the prompt is no longer than `Reusable` (`ReusablePages`), and the
  deepest of those the walk meets is the longest.

**GatewayProofs**, about `ChatDispatch`, from `DispatchRequests`, `DispatchBounds`: finitely many
requests, any of them streaming.

* `BooksAreExact`, `AnswerIsComing`.
* `AnswerComing` is not inductive: a delta in the channel is something to read,
  and when it has been read the handler waits again. `AnswerDue` says that the
  *last* event is in the channel or on the way. It rests on `Registered` (a
  request is in the table from before it is sent until its handler takes it out)
  and on `ReaderLives` (unless a line did not decode, the reader outlives the
  worker, so that it will see the end of the stream and fail what is left).

**GatewayProofs**, about `Supervisor`, from `VlmAssumption`: with or without a vision model.

* `ShutdownCleansUp`, `LossIsReported` (an action property).
* `Cleaning` says what is already done at each place of the main thread's
  shutdown; it holds because no step of another thread undoes it. `Blame` says
  where the shutdown flag may come from while the main thread still serves: from
  a signal, or from the monitor, and then the model is marked failed before the
  flag is set. `LossReported` rests on that order.

**WorkerMainProofs**, from `WorkerMainAssumption`: the kinds of requests are
subsets of the requests, bounds are positive, and `None` is no request.

* `AnswersAreSound`, `CancelsSettle`, and `CleanEnd`, the safety half of
  `EndsWithGateway`.
* The properties are about histories (`order`, `before`, `late`, `settled`); what
  makes them inductive is `Waiting`, a statement about all commands that are not
  handled yet, as one sequence: put back (`lines`), queued by the reader thread,
  still in the socket. A waiting request is neither held nor settled, waiting
  requests stand in the order they were sent and none is lost, a request that the
  reset has to wait for is held or ahead of it, and a cancel sent after its
  request is behind it. `should_cancel`, which reads ahead and puts back what is
  not for the running request, takes commands out of the middle of that sequence
  without changing the order of the rest (`BooksDrop`).

**TextBatchProofs**, from `TextBatchAssumption`: any non-empty prompts, positive
limits of the scheduler, any limits of the store, with or without `all_tokens`.

* `SchedulerAndGeneratorAgree`, `StreamCarriesTheText`, `PromptStoreSound`, and
  `TextBatchInvariant`, the inductive invariant they follow from:
  `IInv == JobInv /\ StoreInv /\ QueueInv /\ TextInv`.
* `JobInv` says that what was looked up for a request at its submission is still a
  match of its prompt when it is admitted, whatever happened to the store in
  between, which `StoreSound` claims. `StoreInv` says that no key is there twice, that rows and tokens are
  equally long, and that the number of rows is within the limit. The first part
  rests on `Remember`, which takes an old entry of the key out before it puts the
  new one in, and on eviction only dropping from the front (`Fitted`).
* `TextInv` says where the text of a client comes from: it ends with the rendered
  text, because a delta either extends it or, after a half character, sends it
  whole again, so that what stands right before it is that half.
* The search of a store (`Lookup`), the sum of sizes (`Total`) and the storing of
  what a tick finished are folds. `FoldExists` and `FoldInduction` say that a fold
  over a sequence has a partial result for every prefix (`IsFold`), so that an
  invariant of the loop carries over from one response to the next. Where the
  argument is an induction, it goes by the least counterexample: the induction
  theorems of the library cannot be cited.

**VlmBatchProofs**, from `VlmBatchAssumption`, `PromptCacheAssumption`: any
requests with any prompts, images and sampling keys, positive limits of the
scheduler, any limits of the stores and any budget.

* `VlmSchedulerAgrees`, `StoresStayInBudget`, and `VlmBatchInvariant`, the inductive
  invariant they follow from: `QueueInv /\ BudgetInv`.
* `QueueInv` says that a request stands in one place, once, and that the generator
  holds the active requests. Admission looks past requests of another sampling
  key, so that what it takes is no prefix of the queue. `OnlyPicks` and
  `OnlyMembers` say what the scan keeps and in which order; `BatchTaken` that the
  batch is part of what is taken, and how many more may be.
* `BudgetInv` says that the prompt and the vision store fit next to what the
  batches of both schedulers are charged, or are empty, and that each keeps its
  own limits. Eviction takes the oldest entries of one store and then of the
  other (`EvictedSplit`, `EnforceFits`); it never needs more room than it started
  with, since the sizes of a suffix sum to no more than those of the whole
  (`PromptSuffix`, `VisionSuffix`). A tick stores the results of several requests,
  each against the budget; `BatchStores` carries the invariant through that fold.

**BenchmarkRunProofs**, from `SuitesAssumption`, `BenchmarkAssumption`,
`ConnectionsAssumption`: any models, runtimes and finitely many workloads, any
suites of them, positive numbers of trials and repetitions, enough connections.

* `CommandCleansUp` needs two facts at every place of the command. `ServerInv`:
  if the server process runs, `server` is set, or the place is one that stops it,
  or a signal fell into a window of the server. `DirInv`: the number that the next attempt
  of a family takes, one more than the attempts recorded, is not that of a
  directory, unless a signal fell into the window of the directory.
* `CommandEndsAsRecorded` rests on `RecordsInvariant`. `PlanInv`: the plan has
  executions of valid workloads, no workload twice in one, and covers exactly the
  pairs that were selected. `PosInv`: what the place in the command says about the
  place in the plan. `KeyInv`: the trials recorded are those of the executions,
  workloads and repetitions that have been passed, all of them, each once.
  `CompleteInv`: past the last execution these are all the trials there are, and
  a run on its way to `succeeded` has none with errors. The lemmas about
  `Select` and `ExecutionPlan` say what they select; the signals need no argument of
  their own, since an interrupted run is never recorded as succeeded.
* `LoadIsAsAsked` rests on `MeasurementInvariant`. `TrialInv`: during a trial the
  requests that have a task are the first ones; those under way or not collected
  are no more than the mode asks for; one that is sent is alone on its
  connection; a connection that is not busy owes no answer. So there is always a
  place in the pool. `PoolInv`: the idle connections are different and owe no
  answer, before, during and between trials. `OrderInv`, `AppliedInv` and
  `AlarmInv` say why `_validate_completed_trial` and `_validate_final_results`
  have nothing to find: the order of requests starts where the last trial ended
  (the sum that the code adds up, by the lemmas about `FoldLeft`), and the
  configurations are applied in the order of the plan unless one of them is empty.

### Checked by TLC only

* Liveness (`Drains`, `SlotsGetUsed`, `EveryRequestEnds`, `StopsOnSignal`,
  `EveryRequestAnswered`, `ServedUnlessOvertaken`, `CommandEnds`, the second half
  of `EndsWithGateway` and the fairness part of `KeepsLifecycle`): it is out of the
  prover's reach.

## 5. Findings

1. **`cache_of_key`** (code). When a request that reused a cached prompt ends, its
   cache is stored under the reused tokens followed by the whole prompt, which
   already begins with them (`batching.py:817`), and is trimmed to a length that
   is not the prompt's. A later prompt that begins with the doubled tokens is
   given rows that were computed from others.

The models also have these behaviours, which the documents describe otherwise or
not at all. No run is devoted to them.

* `NativeEngine` (`AsyncEvalRaises`): in overlap mode `mx.async_eval` is called
  after the pages are reserved. If it raises, nobody aborts the reservation, and
  the scheduler releases the handles under it (`executor.py:439`). Pins and
  promised pages stay for the life of the worker, and `reset` then always
  refuses. `architecture.md:86` says that outstanding work is resolved before
  release.
* `NativeEngine` (`Boosted`): the boost compares the number of ticks with the
  number of arrivals (`scheduler.py:150`). After many arrivals and few ticks it
  comes late; in a worker that has ticked often every newcomer has it at once,
  and the policy's value alone decides again.
* `ChatDispatch`: the canceller thread starts before the request is sent, so the
  only cancel command can arrive first and is dropped as unknown
  (`http.rs:1018`, `http.rs:1551`); `architecture.md:202` has the worker stop.
* `BlockHashPrefix`: a hit renews the last entry of its chain only, so that at the
  limit the root of the chain in use is evicted first (`prefix_cache.py:342`).
  What is left of the chain cannot be found and keeps its pages. The test
  `test_block_hash_prefix_cache_entry_limit_keeps_reusable_root_chain`
  (`test_native_mlx.py:777`) is named for the opposite.
* `Supervisor` (`Kill`): `terminate_worker` signals a process id after it has
  released the lock that keeps the child from being reaped
  (`supervisor.rs:617`-`619`, whose comment says that the pid belongs to the
  retained child).
* `HybridKVCache`, `DenseKVCache`: a fork at a shorter length takes over the
  convolution state of the full length (`cache.py:1042`, `cache.py:390`). Nothing
  forks such a cache today, because prefix caching is off for its models
  (`registry.py:178`).
* `RequestAdmission`: the architecture document calls the queue FIFO
  (`architecture.md:175`); whoever gets the mutex first takes a free permit
  (`http.rs:210`).
* `ChatDispatch`: there is no `request_lock` (`architecture.md:185`); several
  requests are at the worker at once (`ipc.rs:137`).
* `ChatDispatch`: a non-streaming request whose client left is counted as what
  its call returned, never in `mlx_requests_cancelled_total`
  (`interpret-metrics.md:14`, `http.rs:1059`): its tracker is finished before
  the disconnect flag is read.
* `ChatDispatch`: after a line that does not decode, a request that registers
  between the failing of all requests and the setting of `closed` is sent to a
  worker that is alive, and its answer is read by nobody (`ipc.rs:679`).
* `Supervisor`: `STATUS` with `ready` makes the model ready, sets
  `mlx_worker_up` and lets the gateway serve before `READY` has been read
  (`supervisor.rs:506`; `architecture.md:217` has it the other way round).
* `Supervisor`: a worker lost between those two messages leaves a gateway that
  serves without one until it is signalled (`supervisor.rs:361`).
* `Supervisor`: a worker that becomes ready and is lost while `wait_until_ready`
  is between its two reads makes `run_with` return `Ok` (`supervisor.rs:395`).

* `TextBatch`: a hit on the whole prompt is never used; a character that is
  completed makes the scheduler send the whole text again (`batching.py:789`);
  without `all_tokens` the untrimmed cache is stored under the prompt; an
  exception in a tick ends the worker. The text store is not registered with the
  budget manager, and the text batch's bytes stay charged when its last request
  is cancelled.
* `VlmBatch`: while the generator has work, a request of another sampling key at
  the head stops admission, and further back is passed over
  (`vlm_engine.py:1264`, `1273`), so that it can wait for ever behind a steady
  stream. `_cancelled_preparing` is never filled during preparation, since both
  run on one thread. The vision snapshot may keep the `prompt_cache` of the
  request that made it (`vlm_engine.py:1438`). A benchmark reset leaves the vision
  cache as it is.
* `WorkerMain`: in the sequential loop a cancel for a request that waits in
  `pending_lines` has no effect; the continuous loop does not look at the flag of
  SIGTERM; `cancelled_request_ids` is never emptied; commands that the reader
  queues between the loop's `Empty` and `is_alive` are lost (`main.py:712`-`718`).
  `_run_continuous_text_loop` (`main.py:410`) is called by nobody.
* `BenchmarkRun`: a signal between the start of a server and the assignment of
  `server` (`runner.py:178`), or at the first statement of an attempt's `finally`
  (`runner.py:574`), leaves the server running. A signal between an attempt's
  directory and its record (`runner.py:495`-`497`) makes every later `diagnose` of
  that family fail with an uncaught `FileExistsError`. Attempts interrupted
  before their `try` stay "running". An execution that a focus leaves empty is
  skipped (`runner.py:174`) and then reported as a wrong configuration order.
  Validation failures never fail a run. A signal inside a callback of the event
  loop is dropped. A run that succeeded can exit with 50 or 130 because of its
  diagnostics.

## 6. Not modelled

* launchd instances, protocol encoding, OpenAI mapping, command line,
  configuration files and distribution: sequential I/O and formatting.
* The gateway's side of `benchmark_reset`.
* Loading of images, chat templates and the work inside the stages of a
  sequential vision request; statistics and file formats of the benchmark.
* Failing system calls of the supervisor other than `bind` and `accept`; failing
  writes of the benchmark's results; signals outside `_interrupts_raise`.
* A reuse of request ids: the gateway draws fresh ones.
* The state of the cache after `mx.async_eval` has raised: `PagedKVCache` has one
  reservation and releases no handle of its batch, which is what `OneReservation`
  and `UsedHandlesHeld` show of the engine as long as it does not.
* The pool filling up with snapshots of the prefix cache: capacity errors are free
  choices of `NativeEngine`.
* Formats, wording, logging, metrics other than the active gauge and the
  outcome of a tracker, model numerics, files and processes.

## 7. Plan

Done, in this order: `PagedKVCache` and its proofs; `NativeEngine` with
`RequestLifecycle`; `RequestAdmission` and its proofs; `ChatDispatch`;
`PrefixIndex`, `BlockHashPrefix` with its proofs, `RadixPrefix`; `Supervisor`;
the v1 worker (`PromptCache`, `TextBatch`, `VlmBatch`, `WorkerMain`); the
benchmark harness (`BenchmarkPlan`, `LoadGen`, `BenchmarkRun`); the hybrid cache
over the dense one, with its proofs; scheduling policies and `benchmark_reset` in
the engine.

The proofs came in the order of section 4.

What is left out and would come next: the fairness part of the refinement
`KeepsLifecycle`, for which there is no prover here; and a composition of the
engine with the prefix caches, which would show who gives way when the pool is
full of cached pages.
