# Verification of flour

flour is an LLM inference server in Rust: an OpenAI-style HTTP API in front of a
local engine with a paged KV cache, and DistKV, a distributed store through
which engines share the KV of prompt prefixes. This directory holds TLA+ models
of it, the TLC runs that check them and the TLAPS proofs of what matters most.
Paths below are relative to `src/src/` unless they start with `src/`.

To check a module, `tlc -workers 2 -config <X>.cfg <Module>.tla`; to check the
proofs, `tlapm <M>.tla` for `FoldTheorems` and the modules named `...Proofs`.

## 1. Inventory

| Component | Code | State it keeps | Operations | Module |
|---|---|---|---|---|
| Master | `distkv/master.rs`, `distkv/protocol.rs`, `bin/flour-master.rs` | per worker: address, capacity, used bytes, epoch, last heartbeat, status; per key: generation, state, placement; next put id | register_worker, heartbeat, mark_worker_dead, put_start, put_commit, get_route | `DistKVMaster` |
| Worker store | `distkv/worker.rs` | bytes per (key, generation), used bytes | put_bytes, get_bytes, delete_generation | `WorkerNode` |
| Local KV handle | `kv_cache/local.rs` | committed generation per key | try_get_committed, put_bytes, mark_committed | `WorkerNode`, `DistKVCluster` |
| Object store, client | `kv_cache/distkv_store.rs`, `distkv/client.rs`, `kv_cache/object_store.rs` | none of its own; an operation in progress | get_object, put_object | `DistKVCluster`, `KvObjectStore` |
| HTTP layer | `distkv/http.rs` | the Master behind one Mutex, a store behind another | one handler per operation | atomicity of the actions |
| Registration loop | `distkv/registration.rs`, `bin/flour-worker.rs` | epoch, place in the loop | register, heartbeat_once, run_registration | `WorkerRegistration` |
| Paged KV cache | `models/common/paged.rs`, `prefix.rs`, `cache.rs` | free stack, reference counts, block table, prefix registry, pool | allocate_kv, write_current, match_prefix, register_prefix, export/import_prefix_bundle, reset_sequence, clear_prefix_cache | `KvCache` |
| Session, engine | `kv_cache/manager.rs`, `policy.rs`, `key.rs`, `models/common/model.rs`, `engine.rs` | the request: tokens, reused prefix | prefill, decode, finish, publish_best_effort | `KvSession` |
| Chat completions | `api/chat.rs`, `api/openai.rs`, `api/error.rs`, `engine.rs` | per request: body, place of the handler, generation and response, channel, result; the engine's Mutex and whether it is poisoned | chat_completions, the spawned generation, `generate`'s loop, the event stream | `Chat` |
| Sampling | `sampling.rs` | the random generator | sample, arg_max, softmax, apply_repeat_penalty | `Sampling` |
| Serving nodes | `api/chat.rs`, `api/models.rs`, `api/mod.rs`, `main.rs` | engine Mutex, runtime threads | chat_completions, list_models, generation task, embedded data path | `ServingNodes` |
| Bundle codec | `kv_cache/bundle.rs` | none | encode, decode, the importer's checks | `BundleCodec`, `PrefixTransfer` |
| Attention kernel | `backend/cpu.rs`, `models/common/attention.rs` | running maximum, sum and accumulator of a call | paged_attention, causal_attention, gather_blocks | `PagedAttention` |
| Tokenizer, templates, other layers, loader | `tokenizer.rs`, `models/**`, `loader/` | none across calls | conversions and numerics | not modelled |
| DistKV simulator | `distkv/test/simulator.rs` | a test harness | | not modelled; its claims are properties of `DistKVCluster` |

How they interact:

* An engine answers API requests one at a time under the Mutex of `AppState`.
  `generate` opens a `KvSession`, which matches the prompt against the engine's
  registry, then asks the object store for a longer prefix, imports it, runs the
  suffix, decodes, and publishes the prompt's prefix after the cache lock is
  released (but under the engine lock).
* A chat completion is three parties: a handler on a runtime thread, a generation
  on the blocking pool, and, for a stream, the body of the response, which reads
  the generation's pieces from an unbounded channel and then joins it.
* A published prefix is a bundle: one engine's pool blocks, encoded under a key
  that names the model and hashes the tokens. The importer compares the decoded
  header with its own configuration, writes the blocks into fresh blocks of its
  pool, and the attention kernel reads them block by block.
* `DistKvObjectStore::get_object` looks in the committed index of a worker in
  the same process; else it asks the Master for a route and fetches the bytes
  from the worker the route names. `put_object` calls put_start, writes the
  bytes to the chosen worker (in memory or by HTTP), calls put_commit, and marks
  the committed index if the worker is its own.
* A worker registers with the Master, gets an epoch, and heartbeats with it. A
  refused or failed heartbeat makes it register again.

Hard behaviours: the three steps of a put interleaved with everything else;
stale commits and heartbeats; a write that arrives after its sender gave up; a
worker that comes back empty; a Master that comes back empty; a wall clock that
jumps; capacity accounting across overwrites, rejections and re-registrations;
block references shared by a table and a registry on paths that fail half-way;
slots handed out of order; threads that block on a std Mutex inside an async
runtime; clients that leave in the middle of a stream, generations that fail
after it began, a panic that poisons the engine's Mutex; stored objects that are
cut or come from an engine that only shares the key; masks and maxima at the
borders of blocks. `PROJECT.json` lists them as hazards, each at its line.

What makes each component correct:

* Master: no slot is used twice, nothing uncommitted is routed to, commits of
  stale tickets are refused, routes never go back, the ledger is exact.
* Worker store and local handle: the byte count is exact, the index serves
  committed bytes only.
* Object store: an answer is a miss or the committed bytes of the key.
* Registration: a healthy worker is never dead to the Master; it registers again
  only because of faults, for every registration unroutes what it holds; after
  failures stop, worker and Master agree on the epoch.
* KV cache, session: reference counts are exact, cached blocks are never
  overwritten, a suffix always remains to be run, attention reads its own KV, a
  remote store never makes things worse.
* Bundle codec: an object is accepted exactly when it is whole and alike, and
  then yields the KV the importer would have computed.
* Attention kernel: block by block it computes what softmax over the whole
  sequence does.
* Chat completions: a client reads what was generated, in order, can tell
  success from failure, and every request ends and lets go of the engine.
* Sampling: a token is one the options allow.
* Serving nodes: an engine serves one generation at a time, no group of nodes
  waits for itself, every request is answered.

## 2. Modules

```
KvObjectStore            what get_object promises
   ^ refined by
DistKVCluster  -- EXTENDS --> DistKVMaster <-- EXTENDS -- WorkerRegistration
   |
   +-- INSTANCE --> WorkerNode
KvSession -- EXTENDS --> KvCache <-- EXTENDS -- PagedAttention
                                                      ^
                    BundleCodec <-- EXTENDS -- PrefixTransfer
Chat -- EXTENDS --> Sampling
ServingNodes
```

`MCDistKVMaster`, `MCDistKVCluster`, `MCKvSession`, `MCChat` and `MCPrefixTransfer`
are instances for TLC. `DistKVMasterProofs`, `DistKVClusterProofs` (which extends
it), `PrefixTransferProofs` (of `PagedAttention` too), `ChatProofs` and
`KvSessionProofs` each prove theorems of the module in their name; `NodeProofs`
of `WorkerRegistration` and of `ServingNodes`, which share no state.
`KvCacheProofs` has a lemma for each operator of `KvCache`, `FoldTheorems` the
lemmas on sums, folds and largest elements they share.

**DistKVMaster.** One action per method of `MasterState`, each atomic because
the HTTP handlers hold one Mutex around it. A rejected put_start is an action of
its own, `PutStartRejected`: it has the side effect the code has, the release at
line 136. The response of put_start becomes a member of `tickets`; a commit is
sent for any ticket, at any time and any number of times, which covers delayed
and repeated requests, and heartbeats carry any epoch. The clock may be set to
any value. The choice among the workers with the most free bytes depends on the
iteration order of a HashMap and is free. A put id is modelled as fresh; leases and addresses are
left out (nothing reads a lease; a worker's id and address go together).
History variables: `acked` (commits that succeeded), `routed` (the newest
generation a route named), `stray` and `misfreed` (what the double release has
done to the ledger).

**WorkerNode.** The store of a worker and the committed index next to it, as
operators that `DistKVCluster` composes. Bytes are named by the put that wrote
them and their length.

**KvObjectStore, DistKVCluster.** The contract, and the system that implements
it: each engine runs a get or a put in the steps of the code, one per lock or
call. A call to the Master is one action; a lost response is `OpFails` right
after. A write to a remote worker is a message on `wire`, delivered or lost at
any later time, also after its sender has failed. Workers crash and come back
with a new, empty store; the DELETE handler may be called by an operator; the
Master may restart (only in the runs that say so). The mapping of the refinement
takes as committed the puts that were acknowledged.

**WorkerRegistration.** The loop of `run_registration` against the Master's
operations, in discrete time. Request and response are two steps, and a request
whose sender saw an error may still arrive later. `Tick` may not pass the end of
a sleep, nor the end of a round trip, which is taken to be at most `RoundTrip`.
The delay between register attempts is any delay. At `MaxNow` time stops and a
sleeper wakes up early, so that the bound on time cuts off no behaviour of the loop.

**KvCache, KvSession.** `KvCache` is a value, and each method an operator on it,
so that `KvSession` can compose the calls a step of the code makes under one
lock. A pool slot holds the token prefix whose K and V it would hold; a block
hash is the token path it chains. `PoolWrite` is the run coalescing of
`PagedKvPool::write` as the code has it. With `TellKvApart = FALSE` the pool's
content is left out, which block accounting never reads. `KvSession` is a
request from `prefill` to `publish_best_effort`, with every place where it may
fail, and a remote store that another engine or a crash may change at any step.
Finished bundles wait in `publishing` while the next request may begin: more than
this server does, where `api/chat.rs:41` holds the engine lock until the publish
has returned, and what the library's `Engine` by itself allows. No property
depends on the difference.

**PagedAttention.** One call of `paged_attention` is `Call` and then a
`FoldBlock` for each turn of its loop; `causal_attention` of the same file is
the reference. A softmax weight is kept as its exponent, minus infinity and NaN
included, and a weighted sum as a function from kv positions to exponents: two
sums are equal when they are term by term. So the model sees a wrong mask, a
missed or double rescaling, a lost block and a NaN, and no rounding. Scores are
any function of a query, an item of the pool and a KV head. The module extends
`KvCache`, and reads the pool through the block table as `gather_blocks` does.

**BundleCodec.** The frame and its checks, as operators. Lengths are counted in
bytes, so a cut anywhere and a dtype of another size show; a tensor is its
cells, not its bytes.

**PrefixTransfer.** A peer exports and encodes a prefix; the object may be cut,
padded or replaced; an engine whose free stack is in any order fetches it,
decodes, compares, imports, runs the suffix through the attention kernel and
decodes on. `Peers` differ from the engine in one respect each, some of them
with tensors of the same size. `Damage` is external: nothing in the code cuts an
object, the check is for the case that something does.

**Sampling.** Logits are integers or NaN, probabilities exact natural weights
(a function `Weight` of the distance from the top and the temperature, 0 where
the exponential underflows). What rounding can do at the end of the cumulative
loop is an outcome of its own (`EdgeTokens`). The unstable sort gives every
order of equal probabilities. `InNucleus` is the reference: what top_k and
top_p mean, without ranks.

**Chat.** Handler, generation and response of a request, with the loop of
`generate` between them. Pieces carry their token. A client may leave at any
time; the prefill, a forward pass or a decoding may fail; a generation may panic
under the lock, which poisons it. In the code the handler locks the engine once
for its model id and the generation locks it again: `SpawnGeneration` and
`LockEngine`. Between the two another request may take it.

**ServingNodes.** The engine Mutex and runtime threads of nodes that may embed a
worker. A handler that waits for the Mutex keeps its thread; a generation runs
on the blocking pool (large enough in the model) and keeps the engine until its
publish has been answered; an embedded worker needs a thread to answer.

`PROJECT.json` maps every definition to its lines.

## 3. Runs

| Run | Question | Bounds |
|---|---|---|
| `master` | slots, stale commits, routes, the byte ledger | 2 workers, 2 keys, sizes 1 and 2, capacity 2, 3 puts, 2 epochs per worker, timeout 0 |
| `master_double_release` | I6 of master.rs:12 (violated) | 1 worker, 2 keys, 4 puts, 1 epoch |
| `cluster_one_worker` | the contract of the object store | 2 engines, one of them colocated with the worker, 2 puts, 1 crash, 1 delete, clock 0..1 |
| `cluster_master_restart` | what survives a Master restart | sizes 1 and 2, capacity 2, 2 puts, 1 restart |
| `cluster_restart_fetch` | exact fetches after a Master restart (violated) | 3 puts, 1 restart |
| `registration` | heartbeat timing, registrations without a fault, getting back in sync | interval 3, timeout 10, round trip 3, time 0..24, 3 faults, 8 epochs |
| `session_blocks` | block accounting | blocks of 2 tokens, 4 blocks, prompts of 1 to 7 tokens, 2 generated tokens |
| `session_kv_integrity` | what attention reads (violated) | the same, two unrelated prompts |
| `chat` | streams, answers, sampling, progress | 2 requests, 4 tokens, 3 rows of logits, max_tokens 1 and 2, 1 panic |
| `prefix_transfer` | what is accepted, imported and attended to | 8 publishers, 3 prompts, blocks of 2 tokens, 3 blocks in any order, 2 layers, 2 heads over 1 KV head, 1 decoded token |
| `serving_spare_threads` | one generation per engine, no mutual wait, every request is answered | 2 nodes, 1 thread each, 3 requests |
| `serving_mutual_wait` | every request is answered (violated) | 4 requests |

Why the bounds are enough.

* Master: the conflicts are between an old put, a newer one and the object's
  state, so three puts show them all; the second epoch shows a worker that comes
  back. A timeout of 0 makes a worker dead by `mark_worker_dead` alone; a clock
  that moves, which the code only compares, runs in `cluster_one_worker` and
  `registration`. An object that must move, one that must be rejected and one
  placed in an earlier epoch fit in three puts on two workers of two bytes. The
  theorems of section 5 remove the bounds.
* Cluster: a reader with a route in hand, a writer, and one crash give the races
  the two-step get has. The engine without a worker exercises remote writes, the
  other one the local path, on the same slots. `MaxEpoch` is 2: one
  registration after the crash.
* Registration: the code has 3 s, and a timeout of 10 s; round trips of 3 s are
  the longest that `HEARTBEAT_INTERVAL + 2 * RoundTrip <= HEARTBEAT_TIMEOUT`
  leaves room for. 24 units are more than two full timeouts and three faults
  let a lost response, a late request and a restart of the Master meet. Three
  faults make seven epochs at most (`ReregistersOnlyAfterFaults`), so a
  `MaxEpoch` of 8 stops no registration; a loop that registers on its own reaches
  the eighth. Workers do not interact in this module, so one is enough.
* Session: with four blocks a prompt of seven tokens fills the pool, so that
  allocation fails in prefill and decoding, and imports run out of room.
  `session_blocks` checks deadlock.
* Chat: two requests are one that holds the engine and one that waits, leaves or
  finds it poisoned; both may stream. Two tokens of budget let a stop string span
  two tokens and a channel hold two pieces. The rows have a clear maximum, a tie
  and a NaN; the bodies use greedy, top_k, top_p and defaults; the underflow cuts
  the tail. Temperature 0 stands for any that is not positive.
* Transfer: a prompt of five tokens imports two blocks and runs a third; all six
  orders of three free blocks occur; one block is fully masked for the first
  query of a suffix; two heads share a KV head. Scores rise and fall along the
  sequence. The theorems of section 5 remove the bounds.
* Serving: three requests are one less than the wait needs with one thread per
  node, so the pair of runs shows where the limit is.

Bounds named `Max...` are guards of the model, not of the code. Deadlock is not
checked where a bound ends every behaviour.

## 4. Fairness

`master*`, `cluster_*`, `session_*` and `prefix_transfer` check safety and need none.

`RegFairSpec` assumes weak fairness of `Tick` and of each worker's `LoopStep`:
time passes, the task of the loop is scheduled by its runtime, and a request
that does not fail is answered. Nothing is assumed of failures, of late
requests (each may arrive or be lost) or of restarts; `MaxFaults` makes them
stop, which is the premise of `EventuallyInSync`.

`ServingFairSpec` assumes weak fairness of the steps of each request: a runtime
gives free threads to waiting tasks, a thread waiting for a std Mutex gets it
when it stays free, and a peer that can answer does. Nodes and the network do
not fail there. Mutex contention is finite because the requests are. Clients
promise nothing: `Send` has no fairness.

`ChatFairSpec` assumes weak fairness of the server's steps of each request:
handlers and generations are scheduled, the free Mutex is taken, a prefill, a
forward pass and a publish end (whether a publish does end is the subject of
`ServingNodes`), and the server polls the response of a client that is there.
Weak fairness is enough because a generation that waits for the Mutex waits for
finitely many others. Failures, panics and clients have no fairness: the body
may stay unread for ever only if the client leaves.

## 5. Proofs

All theorems hold for every value of the constants that satisfies the named
assumptions, without the bounds of section 3.

**The Master** (`DistKVMasterProofs`; assumption `MasterAssumption`: natural
bounds, sizes and capacities, finitely many keys, `NoWorker` is no worker) for
any sets of workers and keys:

* invariants `TypeCorrect`, `CapacityBound`, `SlotsAreUnique`,
  `NoDirtyNorStaleCommit`, `NoLeak`, `LedgerIsExact`;
* action properties `CommitOnceAndNewest`, `RoutesMonotone`.

None of them is inductive alone. `CoreInv` and `SlotInv` add the links between
tickets and objects: a ticket's put id and generation are not above those of its
key's object (`TicketsNotNewer`), each object is the image of one ticket
(`ObjectsHaveTickets`), an object being written has not been acknowledged and a
complete one has (`AckedMatchesState`), and no route named a generation above
the object's (`RoutedNotNewer`). The new ticket of put_start is then above all
earlier ones of its key, which gives unique slots; a commit can only match the
newest ticket, whose put is unacknowledged. `CoreInv` is the part that also
survives a Master restart, which the cluster's proof needs. `LedgerInv` adds the
sums: the double release can only take too much off the ledger, so it never counts
bytes that no object holds, and it is exact while neither that release nor one
across epochs has happened.

`FoldTheorems` has what sums over a finite set need: the sum is natural, one
element can be taken out, two functions that agree have the same sum, one that
differs at one place differs by that much. The prover cannot instantiate the
library's induction theorems, but it can use well-foundedness of a *set*: each
lemma takes the smallest subset for which the claim fails. `FoldLeft` takes its
operator as a parameter and so is out of a lemma's reach; `FoldExists` instead
gives the function it is defined by, and `IsTrace` what it is after each element,
over which each fold of the cache has an induction of its own.

**The cluster** (`DistKVClusterProofs`; assumption `ClusterAssumption`) for any
engines, workers, keys, sizes, crashes, deletes and late messages:

* with any number of Master restarts: `ClusterTypeCorrect`, `StoresAreExact`,
  `CommitOnceAcrossRestarts`;
* as long as the Master has not restarted: `FetchesAreExact`, `IndexIsCommitted`,
  `RoutesAreServed`, and `Implementation`, the refinement of `KvObjectStore`.

The condition `restarts = 0` is not a convenience: run `cluster_restart_fetch`
has the behaviour in which a restarted Master hands out a slot twice and a fetch
is wrong (section 6). The argument is that bytes, messages and operations in
progress all follow a ticket: whatever lies in slot (k, g) of a worker was written
by a put that some ticket sent there (`BytesPlaced`, `WirePlaced`, `OpsPlaced`),
the committed index names acknowledged generations only (`IndexAcked`), and with
unique slots (`OneLife`) that put is the one the reader's route is about.
`Landed` is for `RouteServes`: a write that is or may be committed is in its slot
while its worker lives in the incarnation it was placed in. For `Implementation`,
an initial state maps to an initial one, and each action of the cluster maps to
the contract's `Commit`, to its `Answer` or to a stutter.

**Registration** (`NodeProofs`; assumption
`RegistrationAssumption`: `HEARTBEAT_INTERVAL + 2 * RoundTrip <=
HEARTBEAT_TIMEOUT`) has two. `HealthyWorkersAreAlive`: a worker in sync and in
its heartbeat loop is never past the timeout, for every interval, timeout and
round trip that satisfy the assumption. `HealthyNeverDead` says nothing of when the phase ends, so `RegInv` bounds the end of each phase both
from now (`Deadline`) and from the last heartbeat the Master noted
(`HeardInTime`); the sum of the worst phases is the assumption.
`RegistrationsAreProvoked` proves `ReregistersOnlyAfterFaults`: with f faults a
worker has at most 1 + 2f epochs. The bound is reached, by a request that arrives
late and is then answered by the loop with a registration of its own. It is not
inductive either, since it ignores registrations that are still to come:
`PaidInv` counts two for each late request, and one for a loop that is about to
register or no longer has the Master's epoch (`OwesRegistration`).

**Chat** (`ChatProofs`; assumption `ChatAssumption`: bodies are what serde
accepts, logits are integers or NaN, the defaults are sampling parameters) for
any number of requests, any vocabulary, any logits and stop strings:
`ChatTypeCorrect`, `StreamsArePrefixes`, `DoneMeansComplete`, `UsageIsExact`,
`SampledIsAllowed`. `ChatInv` has one group of facts per request: only the holder
of the engine is in the loop (`Mutex`); what was received, followed by what is
in the channel, is what was generated, or the head of it once the client has
gone (`Delivers`); pieces stay within the budget and the result counts
them (`Budget`); what a finished client was told fits the result (`Told`,
`Pending`, `Awaiting`). `SampledIsAllowed` rests on `SampleIsAllowed`, a theorem
about the operator `Samples` alone: top_k keeps ranks below k whatever order ties
are sorted in, top_p keeps a rank only while the weight above it has not
reached the mass, so what has weight left is in `InNucleus`, which speaks of no
ranks. Both take the weight function's values to be natural and positive at
distance 0, exp of 0, as a hypothesis (`NaturalWeights`): a statement over all
naturals, which TLC could not evaluate as an ASSUME. `SomeWeight` of `MCChat`
satisfies it.

**The KV session** (`KvSessionProofs`; assumptions `KvCacheAssumption`,
`SessionAssumption`: no prompt is empty) for any block size, pool, prompts,
bundles and remote store:

* invariants `SessionTypes`, `ReferencesCounted`, `NoBlockShared`,
  `PrefixesClosed`, `SuffixLeft`, `CacheFollowsSequence`, `FallbackIsFree`;
* the action property `WritesStayPrivate`.

`KvCacheProofs` says what each operator does to the account of the blocks.
`RefCountsExact` counts, and counts do not compose; `Accounted` says the same in
sets: stack and table list no block twice, the registry gives no two paths one
block, the stack lists exactly the blocks that are neither mapped nor cached, and
a count is 0, 1 or 2 by where the block is. It holds because a call pushes, pops,
maps and registers whole blocks, whatever the order of the stack; the loops over
`Incref`, `Decref` and `RegisterBlock` are folds, each followed along its trace.
`SessionInv` adds what the steps of a request know of each other. Between match
and suffix (`Prefilling`) the table maps whole blocks of the prompt that are all
cached, and fewer tokens than the prompt has; until a bundle was imported it is
the match that `local_fits` was computed from, which is why a fallback finds as
many free blocks as the first match left (`SameFree`). While decoding
(`Decoding`) a cached block of the table ends within the prompt, so the slot of a
generated token is in a block of the sequence's own. A block that the suffix
registers maps the path it is registered under, because the registry is closed
under prefixes and the table maps what the registry has of the prompt.

**Attention** (`PrefixTransferProofs`; assumption `AttentionAssumption`: head
counts are positive, every query head has a KV head, scores are bounded) proves
`StreamedAttentionExact` for any block size, block table, number of heads and
query positions and any scores. `AttentionExact` speaks of the end of the loop;
`AttnInv` says of every turn that `running_max` is the largest score visible so
far and that each accumulated term is a score minus it. The first block gives
every row a score because position 0 is visible to every query; without that
the first rescaling would be NaN. A lemma gives the maximum of a bounded set of
integers by well-founded induction.

**Transfer** (the same module; assumptions `CodecAssumption`,
`TransferAssumption`: configurations with positive sizes, prompts of natural
tokens) proves `ImportedExactly`, that what is imported is exactly what is whole
and alike, for any engines and prompts. Its invariant `FileInv` ties the stored
header to its publisher and wholeness to magic number and length; the payload of
an aligned, nonempty prefix is not empty, so every cut changes a length that is
checked. And `ImportedIsAttendedExactly`: each step of a transfer is a step or a
stutter of the kernel, so its theorem carries over.

`TransferTypes` and `ImportedIsOwn` say what the import leaves behind: whatever
the number of layers, blocks and tokens and the order of the free stack, each
position the importer covers holds the KV this engine computes itself. The
argument follows a tensor from pool to pool. `FileInv` says that in a whole file
the tensor of block b, layer l and half h lies at its offset (`Carries`): the
payload is a flattening of a flattening, and `FlattenReads` says where an element
of equally long rows comes to lie. `DecodedItems` reads the same offsets back, so
a file of an engine that is alike gives, position by position, this engine's own
columns (`AcceptedItems`). `ImportReads` of `KvCacheProofs` says that writing whole
blocks into distinct blocks of the table leaves each item at its slot; distinctness
is the account of the blocks again (`ImporterInv`), which holds of the importer
from the start because its pool is a cache that nothing has used.

**Threads and locks** (`NodeProofs`; assumption `ServingAssumption`) for any
number of nodes and threads: `EngineIsExclusive`, `FewNeverWaitForEachOther` and
`MutualWaitIsForEver`. The last two say exactly when section 6, item 4 is reached.
A generation waits for another node only (`AwaitsElsewhere`), so a group of nodes
that waits for itself (`MutualWait`) has two members at least, each with `Threads`
blocked handlers and a generation that holds its engine: with fewer than
`2 * (Threads + 1)` requests there is no such group, and run
`serving_mutual_wait` shows that so many are enough. Once such a group exists its
threads stay blocked and its engines held. The hypothesis is that the requests are
finitely many.

So every invariant, action property and refinement that a passing run checks is
stated by a theorem. Only model-checked is liveness (`EventuallyInSync`,
`EveryRequestAnswered`, `EveryRequestEnds`), which is out of the prover's reach.

Each property of a passing run is paired in `PROJECT.json` with a mutant, a
plausible mistake in one mapped definition that makes the run fail. The mutated
forms stand in the modules just before the definition they replace.

## 6. Where the code and its documentation disagree

Each of the first four has a run with a counterexample.

1. `distkv/master.rs:136`. put_start releases the key's earlier reservation
   before it looks for a worker, and returns at line 163 when there is none,
   with the object still marked reserved. The next put_start of the key
   releases it again, and the worker is over-committed, against I6
   (`master_double_release`). `LedgerExact` says what does hold. Line 140 has a
   second way: it subtracts bytes that were reserved in an earlier epoch from
   the ledger of the new one (`misfreed` marks both).
2. `distkv/master.rs:178`. After a Master restart generations start at 1 again
   while workers keep their bytes, so two puts share a slot and a fetch returns
   the bytes of the other (`cluster_restart_fetch`), against client.rs:109. The
   committed index (`kv_cache/local.rs:53`) keeps its entries as well, so a
   staged write can then be served by the local fast path, against
   distkv_store.rs:42; `IndexNeverServesStaged` holds without Master restarts.
3. `models/common/paged.rs:196`. The run coalescing compares a batch index with
   a slot instead of a slot with the next one (`session_kv_integrity`).
4. `api/chat.rs:30`. Handlers wait for the engine's std Mutex on runtime threads
   that the embedded worker needs. With `2 * (Threads + 1)` requests two nodes
   wait for each other for ever (`serving_mutual_wait`).

Met while modelling, without a run of their own:

* `models/common/cache.rs:301`. An import takes new blocks for a prefix that is
  partly cached, and the suffix then finds none: a remote hit fails a prompt that
  fits without it, against the aim of `kv_cache/manager.rs:149` ("correctness
  never depends on the remote cache"). `FailedImportCostsNothing` states what
  holds: only an import that succeeded in full does that.
* `engine.rs:237-239`: "The stop text is counted as generated but not emitted to
  the caller." Only its last token is held back; when a stop string spans tokens,
  the earlier ones have been emitted (`Emit`, `StopAtString`).
* `sampling.rs:85-95`. The cumulative loop returns token 0 for a target of 0.0,
  and the last token when rounding leaves the sum below the target, kept by top_k
  and top_p or not; a test (`top_k_only_considers_top_k_tokens`) takes it that
  they never are. `SampledWithinOptions` exempts these two tokens.
* `engine.rs:259`. The last token of the budget runs through the network though
  nothing is sampled from it, so a completion that has all its tokens can still
  fail, for instance for want of a KV block (`GenerateFails` at that point).
* `registration.rs:33` returns an error from the loop when a success response has
  a body that cannot be read, where line 19 says "retrying until it succeeds"
  (action `RegisterBodyFails`).
* `engine.rs:270` releases the cache lock before the publish, but the caller in
  `api/chat.rs` holds the engine lock throughout, so the next generation waits
  for it anyway (`Publish` keeps `engine`).

## 7. Not modelled

* Numerics: rounding, projections, norms, the MLP, rotary tables. Two engines
  with different weights under the same directory name share keys and headers,
  and the importer cannot tell them apart; the model takes a model id for a set
  of weights. A payload has no checksum: a changed byte that keeps the length
  goes unnoticed, and is not among the damages.
* The tokenizer, chat templates, JSON and URL encoding, ids and timestamps of
  answers, log lines, keep-alive comments, statistics other than token counts.
* Loading of models and command lines: file input before the system runs.
* Hash collisions of block hashes, keys and put ids are excluded.
* Two details no property depends on: the check `token_ids.len() < token_count` of
  `models/common/cache.rs:182`, which cannot fail where an export is made, and the
  registration of the blocks of an imported prompt in `PrefixTransfer`, which ends
  at the attention over them (`KvSession` has it).
* A peer that accepts a request and never answers: the HTTP clients set no
  timeout, and nothing promises an answer by a deadline.
* Whether a put succeeds is not promised anywhere and not checked: old
  generations are never deleted from a worker, so a full one refuses what the
  Master places on it. Nor is eviction from the prefix registry.
* The DistKV simulator, a test harness.

## 8. Plan

Done, in this order: `DistKVMaster` with its proofs, `WorkerNode`,
`KvObjectStore` and `DistKVCluster`, `WorkerRegistration` with its proofs,
`KvCache` and `KvSession`, `ServingNodes`, `PagedAttention` with its proof,
`BundleCodec` and `PrefixTransfer` with its proofs, `Sampling` and `Chat`.

Proved since: the ledger of the Master, the cluster and its refinement, `Chat`,
the KV cache and the session, types and content of a transfer,
the threads and locks of the nodes.

Next, by importance:

1. Liveness of puts in the cluster, with the full worker store as its limit.
