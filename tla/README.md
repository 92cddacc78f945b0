# llama-serve, specified and checked

TLA+ models of the llama-serve inference server, TLC configurations that check
them on small instances, and TLAPS proofs of every safety property that is checked.
All paths are relative to the repository root; line numbers are those of the
commit this project is kept beside. `PROJECT.json` maps each definition to the
lines it models.

## 1. The system

llama-serve is one Python process. An asyncio event loop serves HTTP and calls
`engine.submit()` and `engine.stream()`; an engine drives a model backend from
one thread of its own (the simple engine: from an executor). A request's tokens
come back through its `queue`, which a `SENTINEL` ends.

| component | state | operations | shares what with whom |
|---|---|---|---|
| scheduling policy, `engine/scheduler.py` | `promoted_rids`, counters | `pick`, `choose_victim`, `is_starving`, `is_immune`, `forget` | called by the continuous engine with its lock held |
| continuous engine, `engine/continuous.py` | `_waiting`, `_active`, `_free_slots`, `_stop` under `_cv`; `_samplers`, `_pending_token`; fields of each `Request` | `submit`, `stop`, `_run`/`_step`, `_maybe_preempt`, `_fill_prefills`, `_admit_locked`, `_advance`, `_retire`, `_fail_all`, `_drain` | event loop and scheduler thread share the queue; the thread alone uses the backend |
| engine interface, `engine/base.py`, `request.py` | - | what every engine promises the API | - |
| paged allocator, `engine/paged_kv.py` | block pool, reference counts, free list, LRU list, hash index, block tables | `allocate`, `fork`, `share_prefix`, `write`, `free_seq`, `truncate`, `would_fit` | storage of the mock backend; accounting of the block manager |
| prefix cache, `engine/block_manager.py` | donor sequences and their entries, a pool used for accounting | `on_admit`, `on_finish`, `on_preempt` | called by the continuous engine; shares cells through the backend |
| static engine, `engine/static_batch.py` | `_waiting`, `_running_n`, `_stop` under `_cv`; a batch and its indices, local to the thread | `submit`, `stop`, `_form_batch`, `_run_batch`, `_release` | as the continuous engine |
| simple engine, `engine/simple.py` | `_gate` (semaphore), `_pending` | `submit`, `stream`, `_run_blocking` | generators on the event loop, generations in executor threads, one KV sequence |
| backends, `backends/*.py` | KV cells per sequence, logits of the last decode | `decode`, `sample`, `seq_rm`, `seq_share_prefix`, samplers | - |
| HTTP API, `api.py`, `server.py` | - | `generate`, SSE, shutdown | one event loop |
| metrics, `metrics.py`, `prometheus.py`, dashboard | counters, a ring buffer of rows | `on_arrival`, `on_finish`, `reset`, `snapshot`, `render` | called by the handlers, on the event loop |
| load harness, `bench/load.py` | levels, a row per request sent | `run_level`, `one_request`, `drain` | a client of the API, and of its metrics |

What makes it hard:

* **Interleaving.** `submit` checks `max_queue` in one critical section and
  appends in another; the scheduler thread releases its lock between choosing a
  request and working on it, and the batch it builds outlives the lock. In the
  simple engine a generator may be closed while its thread generates.
* **Partial failure.** The backend may raise in the middle of an iteration; a
  pool may run out of blocks in the middle of an allocation.
* **Order.** Logits are those of the *last* decode, addressed by an index into
  it; a token sampled after the wrong decode, or at the wrong index, belongs to
  somebody else. A resumed request must continue as if never paused.
* **Liveness.** Preemption, immunity, promotion and starvation together must
  neither starve nor livelock; shutdown must end every stream.
* **Reuse.** KV slots, blocks, donor sequences and hash entries are reused; a
  stale one shows up only as slightly wrong text.
* **Bookkeeping across an await.** A request is counted where its handler starts
  and where it ends; in between the counters may be reset and the client may go.
* **Two of a kind.** Two samplers must agree token for token, two functions must
  mean the same by a percentile, a text and a stream must be the same.

What makes each component correct:

| component | correct when |
|---|---|
| scheduling policy | equals are served in order; pauses are bounded, and help somebody; a promoted request keeps its slot |
| continuous engine | slots are conserved; each request is in one place; the thread's notes are never stale; a slot's cache is its owner's; tokens are sampled in the right context; streams are exact and end |
| paged allocator | counts match tables; no block is lost or handed out twice; no stale index entry; a published block is immutable; sharing is invisible |
| prefix cache | a hit puts exactly the matched tokens in the slot; donor sequences and blocks are given back on every path |
| static engine | capacity comes back; the joint decode samples each request from its own sequence; streams are exact and end |
| simple engine | one generation at a time; streams are exact and end; a client that leaves does not block the others |
| metrics, API | `in_flight` equals the requests in flight; every answer is sent once, after the metrics |
| load harness | it ends; its report and the server's do not contradict each other |
| samplers, output | both samplers choose the same token, also after a pause; text and stream agree up to the stop string; no byte is lost (it is: run `output_lossless`) |

## 2. The modules

| module | what it is |
|---|---|
| `Scheduler` | the policy as operators over the request variables it reads |
| `Continuous` | the continuous engine: event loop, clock and scheduler thread |
| `ContinuousProperties` | what is checked and proved of it |
| `GenerationService` | abstract specification of an engine: accept, deliver the next token, close |
| `ContinuousProofs` | theorems about the policy's choices, the lists (types, slots, places, bounds), the data (caches, contexts, streams), and the service they make |
| `SequenceLemmas` | what removing, appending, joining and counting do to the elements of a list; induction over a set of lists |
| `PagedKV`, `PagedKVProperties` | the paged allocator |
| `KVStore` | abstract specification of the allocator: one cache per sequence, no blocks |
| `PagedKVProofs` | theorems about the allocator: blocks, index, contents; and the store it makes |
| `ModelBackend` | decode, logits and `seq_rm` as the static and simple engines use them |
| `StaticBatch`, `StaticBatchProperties` | the static-batch engine |
| `StaticBatchProofs` | theorems about it: types, capacity, caches, what is sampled |
| `SimpleEngine`, `SimpleEngineProperties` | the simple engine |
| `SimpleEngineProofs` | theorems about it: types, one generation at a time, exact streams |
| `SharedCells` | the llama.cpp backend's cells, each with a set of sequences |
| `BlockManager`, `BlockManagerProperties` | the prefix cache, composed of `SharedCells`, an instance of `PagedKV`, and what it needs of the engine |
| `BlockManagerProofs` | theorems about it: donors, reuse, and the pool used as `PagedKV` specifies |
| `Serving` | the handlers of the API and the metrics registry |
| `LoadHarness`, `LoadHarnessProperties` | the load harness, composed with `Serving` and a client that streams |
| `LoadHarnessProofs` | theorems about both: the gauge, the counters, the percentiles |
| `Output` | from logits to text: both samplers, pieces, stop strings |
| `OutputProofs` | theorems about it: one sampler, one text, what splitting loses at most |
| `MC...` | instances for TLC, one for each of the above |

Definitions whose name ends in `Fault...` are *seeded faults*: variants of the
definition next to them with a mistake somebody could plausibly make. Each
checked property is known to fail when the definition it guards is replaced by
one of them. No specification uses them.

### Tokens and text

A token is `<<r, n>>`: the n-th token of request r, counted from the first token
of its prompt. The model is a function of the context it attends to: it produces
`<<r, n>>` exactly where the cells of the sequence are tokens 0..n-1 of r, each
at its own position, and `Garbage` anywhere else. So any gap, leftover, foreign
cell or wrong index shows up in what a client receives, without arithmetic on
logits. Whether a token is EOS, and whether a stop string shows up after it, are
free choices. The engines' models have no text; `Output` has, and numbers for
logits, for one request.

### `Continuous` and the code

`pc` is where the scheduler thread is. Actions are cut where the code takes
`_cv`, where it calls the backend, and once per pass of its loops; what lies
between is private to the thread.

| `pc` | code | actions |
|---|---|---|
| `loop` | `_run` | `StartStep`, `Drain` |
| `preempt` | `_maybe_preempt`, `_preempt_locked` | `NoPreemption`, `Preempt` |
| `snapshot` | the decode half of `_step` | `SkipPrefilling`, `AddDecodeSlot`, `MissingToken`, `SnapshotDone` |
| `fill`, `chunk` | `_fill_prefills`, `_admit_locked` | `ContinuePrefill`, `Admit`, `PrefillChunk`, `FillDone` |
| `decode` | `backend.decode` | `Decode`, `DecodeFails` |
| `advance` | `_advance` per target | `AdvanceToken`, `AdvanceEos`, `AdvanceFails`, `StepDone` |
| `retire` | `_retire` | `Retire` |
| `failAll` | `_fail_all` | `FailNext`, `FailDone` |

The event loop contributes `SubmitCheck`, `SubmitAppend` (the two critical
sections of `submit`) and `Stop`; the clock contributes `Tick`. `waiting` is a
set: the code picks from the deque by priority, age and rid, never by place.
Submission does not race with `Stop`: the server closes its listeners first.

The prefix cache is used through the contract of `on_admit` (`OnAdmit`,
`CachedPrefix`): nothing, or some whole blocks, short of all the tokens, of
exactly what the request needs. What is shown of the continuous engine with the
cache on holds under that assumption, and the assumption is what `ReuseExact`
states of `BlockManager`: it holds with a backend that checks what it is asked to
share (run `prefix_reuse`) and does not with the one of production (run
`prefix_hole`).

### `PagedKV` and the code

Every public method holds the allocator's lock throughout, so calls do not
interleave; a call is an action that starts it and one action for each pass of
its loops, with the locals in `call`, `built` and `todo`. So the invariants hold
also in the middle of a call, and an allocation may run out of blocks after any
number of them. A write may be at any position below `MaxTokens`: beyond the end
of the sequence it leaves a gap and grows the table by several blocks, which it
gives back when it runs out. Hashes are chained as in `_chunk_hashes`: `Key` folds
a parameter `Hash(_, _)` over the blocks of a prefix, from `Start`. The run's hash
looks at one token of the first block only, so that first blocks collide, and with
them all chains that continue them with equal blocks. The comparison of tokens
(178) settles the first kind of collision and misses the second (run
`kv_context`).

### `BlockManager` and the code

All calls come from the scheduler thread. `on_admit` is one action, inside
`Admit` and `Resume`. Retiring a request is a `job`: `SkipPublication`,
`EvictEntry` (once per pass of the loop of `_acquire_cache_seq_locked`),
`GiveUp`, `Reserve`, the steps of the pool, then `Publish` or `Withdraw`. The
cells are the backend's, and the pool counts: the engine creates it with
`track_cells=False`. A lane is a sequence slot with the request in it; the lanes
compute one token at a time, since batches make no difference to what is
published. `Checked` chooses between the mock's `seq_share_prefix`, which refuses
a source that is too short, and that of llama.cpp, which does not.

### `StaticBatch`, `SimpleEngine` and the code

Both use `ModelBackend`, whose `logits` are those of the last decode only.
`StaticBatch` has the worker thread (`pc`: `loop` and `gather` are
`_form_batch`; `prefill`, `sample`, `release`, `cleanup` are `_run_batch`) and
the event loop. `SimpleEngine` has a generator (`client`) and a thread
(`worker`) per request, and a semaphore (`line`); a client may go away at any
await (`Disconnect`).

### `Serving`, `LoadHarness` and the code

What a handler does between two awaits is one action: `Post` up to the first,
`Respond` from the end of the stream on. The engine behind it is what
`GenerationService` promises. A streaming handler is a generator that the
framework drops when the client goes (`Disconnect`). The harness sends, times
out, ends a level by its deadline and drains; time is not in the model, so that a
timeout may come at any moment.

### `Output` and the code

Both samplers are asked about the same logits, as `scripts/verify_sampler.py`
does, and the request may be paused before any token (`Resume` builds new
samplers and restores the history). `Emit` is `_advance` from the sampled token
on. Logits are even and the penalty is 0, 1 or 2: the arithmetic is exact, so
that a difference between the samplers is one of histories, order or buffers.

## 3. What the runs check

### Runs that pass

| run | instance | shows |
|---|---|---|
| `batching` | 3 requests, 2 slots, batch 3, chunk 2, context 4, prefix hits, prompts of 0-3 tokens, one pause each, failing decodes and sampling, shutdown | slots conserved, requests in one place, thread consistent, caches owned, samples in context, streams exact; **refines `GenerationService`**; every accepted request is answered to its end |
| `policy` | 3 requests, 1 slot, queue of 2, two priority classes, starvation after 1 tick | queue bounded over both halves of `submit`; service in order; pauses bounded and of use; a promoted request that runs keeps its slot |
| `kv_pages` | 2 blocks of 2 tokens, 2 sequences of up to 4, 2 words, writes at any position, chained hashes of which those of first blocks collide; 304,002 states, 25 deep | what `check_invariants` asserts, in the middle of calls; index, immutability; a shared block holds the tokens it is used for, and was computed behind others only where hashes collide on the way; **refines `KVStore`** |
| `static_pairs` | 3 requests, batches of 1 or 2, chunked prompts, failing decodes, shutdown | capacity comes back; queue bounded; joint decode samples own sequence; no leftover cells; the request prefilled last is exact; all are answered unless the engine stops |
| `simple_clients` | 2 requests, one client may leave, failing work | while all stay: alone, and exact; in any case who stays is answered |
| `prefix_reuse` | 2 slots, 2 donors, a pool of 2 blocks that is too small for both, colliding hashes, preemption, failing requests, a backend that refuses a donor that is too short | a request never goes on from cells that are not its own tokens; no donor, block or cell is lost |
| `load_levels` | a level of 2 requests, one of 1, and a client that streams and may leave; a registry of 2 rows | `in_flight` is exact unless the window was disturbed; report, JSON and Prometheus agree; the harness ends |
| `output_samplers` | up to 5 tokens of 4 pieces, one character split over two of them, 3 logits, 3 penalties, a window of 2, pauses, 3 stop strings that overlap, `ignore_eos` | the samplers agree; text and stream agree up to the stop string given first of those that have appeared |

### Runs that find a disagreement

| run | what the repository says | what the code does |
|---|---|---|
| `static_stream` | `base.py:69` sample "from the logits produced at `slot_index` of the last decode" | all requests are prefilled, one decode each, before the first is sampled (149-173): all but the last start from logits of another request |
| `prefix_hole` | `backends/base.py:149` "Give `dst` the first `n_tokens` positions of `src`'s KV cache", 159 "Returns False if the backend cannot share" | a paused request is published with the token sampled last, which was not decoded (`block_manager.py:157`); when it fills a block, llama.cpp's backend shares a cell less and returns True, and a later request goes on over the hole |
| `kv_context` | `paged_kv.py:24-28` "a prefix match is a true prefix", and "a hash collision degrades into a cache miss rather than into silently wrong output" | the chain carries a collision on (139-141) and 178 compares a block's own tokens: two colliding first blocks, the same second block behind each, and that block is shared between them |
| `output_lossless` | `llama_cpp_backend.py:280-281` `errors="replace"` "would corrupt multi-byte UTF-8 split across tokens; the engine reassembles pieces, so emit the raw bytes losslessly here" | 282 decodes each piece by itself with `errors="replace"`, and the engine appends the strings: a character split over two tokens becomes two replacement characters |

### Observed, without a run

The first two have configurations of their own beside the runs; TLC prints the
trace of each when it is started by hand.

* `MCStaticBatch_leak.cfg` (`RunningCounted`, on `MCStaticBatch`). `base.py:60` says
  of `QueueFull` "The engine is at capacity". A request that ends in a sampling
  pass is released after the pass (`static_batch.py:192-195`). When a later request
  of the same pass raises, as one does whose index lies beyond the last decode,
  the `finally` skips the ended one because it is finished (212): its stream never
  ends, and `_running_n` holds its place in the queue for ever.
* `MCSimpleEngine_overlap.cfg` (`OneInFlight`, on `MCSimpleEngine`). `simple.py:3` says
  "One request in flight at a time". The semaphore is held by the generator, not
  by its thread. A generator that is closed because its client went away leaves
  the `async with` (60) while `_run_blocking` goes on, and the next request generates
  on the same sequence 0 at the same time.
* A stop of the static engine between two batches ends its thread with requests in
  the queue, whose streams are never closed (`static_batch.py:119`). Nothing
  promises them an end, and `EveryRequestAnswered` of that engine leaves them out.
* `scheduler.py:13-14` promises arrival order among equals; a starving request
  passes them (`ServedInOrder` states the order with that exemption), and a
  promotion at the mere `pick` (122) lets `promoted_rids` name requests that are
  not the next to be served (59 against 126).
* Under `fcfs` with preemption the victim is chosen by priority and the next
  request by age, so a pause may help nobody (`continuous.py:286`, `:294`). The
  `policy` run uses `priority`, the default.
* `paged_kv.py:112` says of an evictable block that its hash still finds it: not
  if another block was published under the same hash since (482, 515, 529).
* `paged_kv.py:188` undoes an allocation that fails; blocks it evicted, and the
  sequence it was to replace, are gone (198-201).
* `paged_kv.py:373` says that `would_fit` is True "if `allocate(tokens)` can
  succeed". An evictable block that would be shared counts as shared and as
  available (386), so it may be True where `allocate` fails.
* A write that runs out of blocks has made an empty table for a new sequence
  (`paged_kv.py:287`), although it raises.
* `continuous.py:218` says of a request with nothing to prefill "shouldn't
  happen". A prompt that tokenizes to nothing is accepted, goes straight to
  decoding without a pending token, and the `KeyError` at 177 fails every active
  request. (`MissingToken` is that step. `ServiceSafety` and
  `EveryRequestAnswered` cover it.)
* The pool counts blocks and the donors pin cells (`block_manager.py:61-62`): two
  entries that share blocks in the pool do not share cells in the backend, so
  that donors can pin more cells than the pool has counted after one of two is
  evicted. As the engine sizes the pool, for all donors at full context, a free
  donor always finds room.
* `bench/load.py:237` waits for an empty server "so runs do not bleed". With
  requests in progress at a reset, or a client that streams and leaves,
  `in_flight` drifts and the wait returns at once, or only by its deadline; it
  also returns on any exception. Hence the condition in `InFlightExact`.
* The registry's rows include failed requests, the harness's samples only those
  answered with 200: percentiles agree for a level without failures.
* The text may still contain a stop string: the first in the order of the list
  ends it, not the first in the text (`_util.py:33`). A stop string is streamed
  as far as its last piece, since pieces are sent before the check.
* An empty stop string is not refused. It is found in every text, at its start,
  so a request that has one ends at its first token with an empty text, after
  its piece was streamed. `TextIsTheStream` excludes it.
* `llama_cpp_backend.py:327` calls a full KV cache "recoverable by the scheduler
  (preempt someone)"; nothing catches it, and all active requests fail.
* `simple.py:69` counts `_pending` down in the generator: one that is dropped
  before it starts never does.

### Bounds

* *Requests.* Two or three. Every conflict the code resolves is between two
  requests (two owners of a slot, victim and candidate, two readers of a block);
  the third is the bystander who would be damaged, or overtaken.
* *Slots, batch, chunk.* Two slots, so that one is freed while another is used.
  The batch is smaller than the prompts together and the chunk smaller than the
  longest prompt: chunks are cut by the budget, by the chunk size and by the
  prompt's end.
* *Context of 4 or 5.* Generations end by EOS, stop string, `max_tokens` and the
  context, and one shape is refused.
* *Starvation in ticks.* `age` stops at the threshold; the comparison in
  `is_starving` is all the code does with it. 0 switches starvation off.
* *Blocks.* Two: enough for a shared block and its copy, for two whole blocks of
  one sequence, and too few for two sequences, so that calls run out.
* *Donors, paused requests.* Two donors and a pool that holds one full entry: the
  least recently used is evicted, for want of a donor and for want of blocks. One
  paused request at a time is enough for it to find its own publication, another
  one's, or none.
* *Levels.* Two, so that the second begins with requests of the first in
  progress. 90th and 99th percentiles need 2 and 3 samples instead of 10 and 100.
* *Outputs of 5 tokens* with a penalty window of 2: the window is full, moves,
  and is restored from a longer output.
* *Clients that leave.* One of two: the interesting case is one that leaves and
  one that stays.
* *Symmetry* is used in `PagedKV` only, on ids no definition tells apart, with
  safety properties only.
* `CHECK_DEADLOCK FALSE` where the model stops: the engines after the bounded
  number of requests or a shutdown, the harness and the output at their end. The
  allocator and the prefix cache are checked for deadlock.

### Fairness

`FairSpec` of `Continuous` and `StaticBatch` asks that the thread, when it can
take a step, eventually does (it waits on `_cv` with a timeout and never holds
it for long), and that a submission that has begun is completed (no await in
`submit`). `SimpleEngine` asks it of each generator and each thread; the
semaphore is first come, first served. Nothing is asked of clients, of the clock,
of `Stop`, nor of any particular outcome of sampling: a decode that always
fails, or a model that never says EOS, are covered. `FairSpec` of `LoadHarness`
asks that the harness runs on: each of its awaits has a timeout. It asks nothing
of the server, of the engine and of other clients.

## 4. What is proved

For every number of requests, slots and tokens, every priority assignment,
policy, batch, chunk, block and context size:

| theorem | |
|---|---|
| `PickIsWaiting` | `pick` returns a waiting request, under every policy |
| `TypeCorrect` | `Spec => []TypeOK` |
| `SlotsAreConserved` | `Spec => []SlotsConserved` |
| `RequestsArePlaced` | `Spec => []RequestPlaced` |
| `ThreadIsConsistent` | `Spec => []ThreadConsistent` |
| `QueueIsBounded` | `Spec => []QueueBounded` |
| `PreemptionIsBounded` | `Spec => []PreemptionBounded` |
| `PromotedIsKept` | `Spec => PromotedKeepsSlot` |
| `AdmissionIsInOrder` | `Policy # "fcfs" => (Spec => ServedInOrder)` |
| `PausingHelpsAnother` | `Policy # "fcfs" => (Spec => PauseHelpsAnother)` |
| `CachesAreOwned` | `Spec => []CacheOwned` |
| `SamplesAreInContext` | `Spec => []SampledInContext` |
| `StreamsAreExact` | `Spec => []StreamExact` |
| `ServiceIsImplemented` | `Spec => ServiceSafety`: the engine refines `GenerationService` |
| `PagedTypes` | the allocator's `Spec => []TypeOK` |
| `BlocksAreAccounted` | `Spec => []BlocksAccounted` |
| `IndexIsSound` | `Spec => []IndexSound` |
| `PublishedAreImmutable` | `Spec => []PublishedImmutable` |
| `SharedContext` | `Spec => SharedUnlessCollision` |
| `StoreIsImplemented` | `Spec => StoreSafety`: the allocator refines `KVStore` |
| `StaticTypes` | the static engine's `Spec => []TypeOK` |
| `SamplesOwn` | `Spec => []SamplesOwnSequence` |
| `CachesAreEmptied` | `Spec => []CachesEmptied` |
| `LastIsExact` | `Spec => []LastExact` |
| `RunningIsCounted` | `Tame => (Spec => []RunningCounted)` |
| `SimpleTypes` | the simple engine's `Spec => []TypeOK` |
| `ServesAlone` | `Spec => []AloneIfAllStay` |
| `ServesExactly` | `Spec => []ExactIfAllStay` |
| `BlockManagerProofs!TypeCorrect` | the prefix cache's `Spec => []TypeOK` |
| `DonorsAreConserved` | `Spec => []DonorsConserved` |
| `ReuseIsExact` | `Checked => (Spec => []ReuseExact)` |
| `PoolIsUsedAsSpecified` | `Spec => Pool!Spec`: the manager's steps are steps of `PagedKV` or leave the pool alone |
| `LoadHarnessProofs!TypeCorrect` | the harness's and the registry's `Spec => []TypeOK` |
| `GaugeIsExact` | `Spec => []InFlightExact` |
| `ReportsOfALevelAgree` | `Spec => []ReportsAgree` |
| `OneSampler` | `Spec => []SamplersAgree` |
| `TextIsTheStream` | `NoStopIsEmpty => (Spec => []TextMatchesStream)` |
| `SplittingIsAllThatIsLost` | `Spec => []OnlySplitCharactersLost` |

They rest on the assumptions on constants (`SchedulerAssumption`,
`ContinuousAssumption`, `PagedAssumption`, `StaticAssumption`, `SimpleAssumption`,
`ManagerAssumption`, `ServingAssumption`, `HarnessAssumption`, `OutputAssumption`),
which say no more than that sizes are naturals, that prompts, pieces and stop
strings are sequences, what a request may look like, that each request is sent in
one level, and that logits are even so that the penalty's division is exact. Five
theorems have a hypothesis besides. Each is needed:

| hypothesis | of | without it |
|---|---|---|
| `Tame` | `RunningIsCounted` | the trace of `MCStaticBatch_leak.cfg` (see the static engine) |
| `Policy # "fcfs"` | `AdmissionIsInOrder`, `PausingHelpsAnother` | both are false of `fcfs`, which picks by age and disregards the priorities by which the victim is chosen |
| `Checked` | `ReuseIsExact` | the finding `prefix_hole` |
| `NoStopIsEmpty` | `TextIsTheStream` | a stop string is found before any token |

**The first inductive invariant** is
`IInv == TypeOK /\ SlotsConserved /\ RequestPlaced /\ ThreadConsistent`.
No conjunct is inductive alone. `Retire` appends `seqId[cur]` to the free slots,
which is right only if `cur` is active: that is `ThreadConsistent`, because
`cur` was chosen in an earlier critical section. That a target is still active
after others have been retired needs the targets to be distinct, which needs the
walk over `active` to visit nobody twice, which needs `active` to be injective
(`SlotsConserved`). That `submitting` and a picked request are not already in a
list is `RequestPlaced`. And `TypeOK` needs all of them: `seqId` of an active
request is a slot, never -1.

Each of the four has a lemma with one step per action (`SlotsInductive`,
`PlacedInductive`, `ThreadInductive`, and four for the groups of `TypeOK`);
`Invariance` joins them. `QueueBounded` is then inductive relative to `IInv`
(`QueueStep`), because a request moves between the two lists and is never in
both; `PreemptionBounded` because a victim is not immune; `PromotedKeepsSlot`
because only `Preempt`, `Retire` and `Drain` take a request from `active`.
`ServedInOrder` follows from what `Pick` chooses. `PauseHelpsAnother` is about two
steps of one iteration with submissions, ticks and other admissions in between,
and needs an invariant, `PausedInv`: as long as a request is noted as paused in
this iteration, either no slot is free, or exactly one is and somebody who waits
outranks it, being more urgent or starving. Time only helps him, and whoever
takes the slot first leaves none.
`SequenceLemmas` says what removing, appending and joining do to the elements of
a list; the first lemmas of `ContinuousProofs` that the policy's `CHOOSE`s choose
something.

**The second one**, `CInv` in `ContinuousProofs`, is about what the engine computes
and holds on top of `IInv`. What it has to explain is that a token is sampled in
the right context, in the middle of an iteration whose batch was put together
from notes taken at different times. Its parts:

* `OutputInv`: an output is the generation so far, and the queue is the output;
* `HistoryInv`: a sampler has been told the output of its request;
* `PrefillInv`: what is prefilled is the prompt and the output, as they are now;
* `PendingInv`: the pending token of a request is the last one of its output,
  and all before it count as computed. This fails from the moment a request has
  been decoded and not yet advanced, hence the exceptions for targets, for the
  request that is leaving, and for a failed iteration, where no active request
  survives;
* `BatchInv`, `TargetInv`: each batch entry is a token of an active request at
  its own position; a target's index points at the last token of its context;
* `CacheOwned`, `CoverInv`: what is cached is the owner's, and every position
  that *counts* as computed is in the cache or still in the batch; after the
  decode call, in the cache. `num_computed` runs ahead of the cache in between,
  which is where an error would hide.

The circle closes in `SampledToken`: a target is covered and owned, so the model
continues its request, so `_advance` appends the next token of its generation,
so `OutputInv` holds again. A preemption breaks it nowhere because it empties
the slot and resets `num_computed` together, and `Admit` reads prompt and output
anew; a backend that raises leaves cells behind that no active request keeps.
TLC has found `CInv` invariant on the instance of the run `batching`.

**The refinement.** `StreamsMapped` shows from `CInv` that a stream is closed
exactly when its request has ended and that, less its SENTINEL, it is the
output. `StepOfService` then takes each action in turn: `SubmitCheck` is an
`Accept` or, when it refuses, nothing; `AdvanceToken` a `Deliver`; `Retire` and
`Drain` a `Close`; all others leave the mapped variables alone.

**The allocator.** `IInv` of `PagedKVProofs` holds in every state, also between the
steps of a call:

* `PoolOK`: the pool's types; each block is free, evictable or referenced and
  listed once; `IndexSound`; `PublishedImmutable`;
* `TablesOK`: a sequence's table is just long enough for its tokens;
* `ListsOK`, `CallOK`: what the call in progress relies on is still so: whose table
  it replaces, copies or extends, and how many blocks it may gather at most;
* `RefsExact`: the count of a block is the number of table entries that name it,
  plus those that the call is adding (`built`) or giving up (`todo`).

`BlocksAccounted` is `RefsExact` with a part of `PoolOK` and not inductive by
itself: that a block which is given up was counted, and that the tables stay
bounded, come from the rest. `PublishedImmutable` and the refinement both rest on
the same fact: a write in place touches a block whose count is one, hence, by
`RefsExact`, one that is named by the writer's table alone. For the refinement,
`SInv` adds that the blocks a call has gathered hold what it promised; then each
step of the allocator is a `KVStore` step on the caches that the tables spell out,
or leaves them alone.

`SharedContext` assumes nothing of the hash. `IndexSound` says that the block found
under a key was published with a prefix whose chain ends in that key, and line 178
that its last block is the wanted one. `EqualOrCollide` then walks the two chains
back together: as long as the links agree, so do the prefixes; where they first
differ, two different links have one hash; and where one chain ends before the
other, some link has the hash that chains start from. So either the block was
computed behind the very tokens, or there is such a collision (`Collide`). The
first alone is what the comment of the code promises, and what `kv_context` refutes.

**The static engine.** `IInv` of `StaticBatchProofs` is `Typed` and five parts:

* `QueueInv`: requests wait in the order of arrival, each is in one place, the
  queue's bound holds across the two critical sections of `submit`, a stream is
  the output and its end, and `Counted`: `running` is the number of requests that
  have a sequence and no end of their stream yet;
* `BatchOK`: the requests of the batch have sequences in increasing order; those
  of earlier batches have ended;
* `CacheOK`: a sequence that nobody in the batch owns is empty;
* `PhaseOK`: one part for each place in `_run_batch`: who has been visited in this
  pass, what the next decode holds for whom, who has been released;
* `LastOK`: the output of a request that was prefilled last is its own generation.

The last part is about the engine's known flaw (run `static_stream`): all prefills
of a batch are decoded before anything is sampled, so only the request prefilled
last reads its own logits. From the second token on all read their own
(`SamplesOwn`), though the last one alone has a context without a foreign token.

`RunningCounted` is false of the engine in general (`MCStaticBatch_leak.cfg`): a request
that has ended is forgotten when a later one of the pass raises. `Tame` says
what it takes to rule that out: no sampler that raises of itself, batches of
two at most, no empty prompt. Then only the first of a batch can lack logits, and
when it raises nobody has ended yet. `NoneForgotten` is what that needs on top of
`IInv`: the last of a batch has logits once it is prefilled, a pass visits in order,
and who has ended is released, or is about to be.

**The simple engine.** Its promise, one generation at a time, is false once a
client has left (`MCSimpleEngine_overlap.cfg`). The invariant of `SimpleEngineProofs`
therefore has two layers. Four parts hold whoever leaves: `LoopOK` (the line at the
gate is made of those who stream, each once; `_pending` counts at least those who
are present), `StageOK` (who has a thread has been at the gate; an ended stream's
thread has returned), `ThreadsOK` (position, output and queue for each place in
`_run_blocking`) and `CacheOK` (no cell beyond the context). They give
`SimpleTypes`, also for generations that overlap. The fifth, `Serial`, holds while
nobody has left: who generates holds the gate, the cache is its context up to its
position, and the logits it will read continue it. Each step of a thread is
reduced to what it does to that thread alone (`WorkerStep`), since a second thread
would have to hold the same gate. `Serial` survives `StreamEnds` because the gate is
left only by a generator whose thread has returned, which is what `Disconnect`
does not wait for.

**The prefix cache.** `IInv` of `BlockManagerProofs` is the account of what can be
lost, and holds with either backend:

* `LanesOK`, `PausedOK`, `CellsOK`, `EntriesOK`: what the variables range over;
* `JobOK`: the job in progress is to publish, or to share with a donor it has; the
  call that the pool is in belongs to it, and its slot has been vacated;
* `DonorsOK`: each donor is free, has an entry, or is the job's, and is listed
  once; the entries are those in the LRU list, and those with a table in the pool;
* `NothingPinned`: a donor without an entry has no cells.

`DonorsConserved` is the last two, and not inductive without the job's part: that
`Publish` does not overwrite an entry, and `Withdraw` does not return a donor that is
free, is known only of the donor that the job has taken, and that the pool's
table for it is the job's only of the call that the job has started. `CInv` is about the contents: for each lane
(`LanesExact`), entry (`EntriesExact`) and the job's slot (`JobExact`) the cells are
one for each position up to a length, and their tokens those of its text as far
as that goes. A request that reuses an entry gets its cells from the donor, the
donor from the job's slot, that slot from a lane, so the three need each other.
The job's slot may hold *fewer* cells than what is published has tokens: after a
pause the last one is missing. Only the backend's refusal (`Checked`) keeps that
from becoming an entry, which is where the proof uses the hypothesis and where
the finding `prefix_hole` is. Hashes do not occur in it, as matches are compared
by tokens. Under `PoolIsUsedAsSpecified` the theorems of `PagedKVProofs` hold of the
pool inside the manager.

**The harness and the registry.** `IInv` of `LoadHarnessProofs` says of which set of
requests each counter is the number:

* `RequestOK`, `SentOK`: what handler, engine, answer and row of one request tell of
  each other, and that a request was sent when its level came;
* `CountersOK`: no counter is ahead of the requests there are;
* `Balanced`: in a window that was not disturbed, arrivals less completions are the
  requests in their handlers (`InFlightExact` is this and that the gauge is that
  difference);
* `WindowOK`: in a window that only its level has used, `arrived`, `finished` and
  `errored` are the numbers of the level's requests that were taken, served and
  broken, and the ring buffer, until it wraps, lists the served ones once each.

None of the properties is inductive: each compares numbers, and a step is right
because of which request it counts. `ReportsAgree` is then arithmetic of disjoint
sets, and the percentiles are a fact about ranks: the harness's samples come in
the order of its rows, the registry's in that of completion. `Ranked` therefore
defines the k-th smallest by how many are below, and `RankedByRequest` counts
positions by counting requests, so the order does not matter.

**The output.** `IInv` of `OutputProofs` is `Typed` with `HistoriesOK` (each sampler's
history is that of the output; the chain's is one token ahead from its sampling
until `Emit`) and `PicksOK` (once the fast sampler has chosen, its choice is the one
the chain will make from the same logits). A pause between two tokens restores a
history by telling the sampler the whole output again, which is right because
the last n of all tokens told one by one are the last n of the output (`Restored`).
`TextMatchesStream` is inductive relative to it: while a request runs, its text is
its stream and has no stop string in it, so when one is found the text is cut in
what is streamed (`FindFacts`, `TruncatedFacts`), and without the last piece the
stream is the earlier text, in which there was none. For
`OnlySplitCharactersLost` (what is left of the promise that `output_lossless`
refutes; it is stated in `OutputProofs` and not part of a run) the invariant is
`LossOK`. `MarksOf` writes each byte of a split character, and each half of a whole one, as one replacement; it does not
depend on where a text is cut (`MarksConcat`, `DecodedMarks`), so the stream, decoded
piece by piece, has the marks of all bytes decoded at once (`MarksOf(streamed) =
MarksOf(BytesOf(output))`); and while no byte was replaced, the pieces end and
begin between characters, so that decoding commutes with joining
(`DecodedConcat`).

The folds of the community modules, which the texts and histories are built with,
are defined by recursive functions and `CHOOSE`. `FoldSolution` shows by a least
counterexample that such a function exists, `FoldAppend` what it does to one more
element, and `ByAppend` is induction over a *set* of sequences, which needs no
operator as a parameter.

**Model-checked only.** Liveness under fairness (`EveryRequestAnswered` of the three
engines, `HarnessEnds`) is out of the prover's reach. Every other property of a
passing run is stated by a theorem.

## 5. Not modelled

* *Configuration, request parsing, start-up, the endpoints that only read*:
  parsing and layout. What reaches an engine, submissions and one stop from one
  event loop, is the environment of the models.
* *Text of the Prometheus exposition and the dashboard*: rendering. Its request
  counters and summaries are in `Serving`.
* *llama.cpp bindings, tokenizers, chat templates, sampling at temperatures above
  zero*: calls into a library, or a random choice the models make freely.
* *The reports of the load harness, and the other benchmarks and scripts*:
  formatting, and clients of the server that send what `LoadHarness` sends.
* *Exceptions of backend calls outside decoding and sampling*: those of `seq_rm` and
  of the prefix cache in admission, preemption and retirement of the continuous
  engine, and of `seq_rm` in the `finally` of the simple one (`simple.py:145`), which
  would lose the SENTINEL. That of llama.cpp ignores what the library returns
  (`llama_cpp_backend.py:342`) and so does not raise.
* *Sustained load.* Requests are finitely many in every run, so
  `EveryRequestAnswered` does not rule out that newcomers keep a low priority from
  its slot for ever while `starvation_ms` is 0. Nor does the code.
* Left out of modelled components, because nothing reads them back: statistics,
  token counts, rates, timings, `last_used` of blocks, logging.

## 6. Plan

Done: the continuous engine with its policy and the service it implements; the
paged allocator and the store it implements; the static and simple engines; the
prefix cache; the API with its metrics and the harness that reads them; the
samplers and the text; theorems for all safety properties. Left:

`Continuous` with `BlockManager` in place of the contract `OnAdmit`. The two share
the lanes, and the state space is out of TLC's reach as they stand. The way to
it is a proof: `ReuseExact` gives the contract for one lane at a time, so what is
missing is a module that composes the two and a refinement of each.
