# TLA+ verification of ravnest-agent

Ravnest splits a language model over several machines, one pipeline stage per
machine, and serves it through an OpenAI-compatible API. A *coordinator* keeps
the list of machines; a *worker* process on each machine follows that list and
rebuilds its part of the pipeline whenever it changes.

1. [The system](#1-the-system): components, state, interaction, what is hard
2. [The modules](#2-the-modules) and how they correspond to the code
3. [The runs](#3-the-runs): what each checks, bounds, fairness
4. [The proofs](#4-the-proofs)
5. [What the project found](#5-what-the-project-found)
6. [What is not modelled](#6-what-is-not-modelled)
7. [What is left](#7-what-is-left)

Paths are relative to the repository.

## 1. The system

| component | code | state | operations |
|---|---|---|---|
| Coordinator | `ravnest/coordinator.py` | `nodes` (last_seen, rank), `cluster_version`, `ready_nodes`, `proportions` | register, heartbeat, remove, check_heartbeats, signal_ready, `_check_barrier`, `/config` |
| Worker, main thread | `ravnest/worker.py` | `current_version`, `node`, `engine`, `reconfiguring`, its position in `run()` | register, get_config, heartbeat, leave, wait_barrier, reconfigure, configure_pipeline |
| Worker, leaf thread | `ravnest/worker.py` 244-282 | `inference_thread`, `reconfiguring` | receive a prompt, generate, pause on a connection error |
| API server | `deploy/api_server.py` | inference lock, `queue_size`, engine reference | enqueue, generate, stream, release |
| Inference engine | `ravnest/inference/inference_engine.py` | KV block tables, `is_pipelining`, generation counters | broadcast prompts, prefill, decode loop, feedback |
| Dynamic communication | `ravnest/communication/communication_dynamic.py` | sockets by rank and `meta_` key, asynchronous receives | connect/accept, forward, feedback, metadata broadcast, close |
| KV cache | `ravnest/inference/kv_cache/` | block tables, reference counts, free blocks | allocate for a batch, allocate for new tokens, free, reset |
| torch.distributed communication | `ravnest/communication/communication_torch.py` | process groups | create, warm up, the same channels |
| Hardware and layer split | `ravnest/hardware.py`, `ravnest/pipeline_split/` | sockets of the exchange, proportions | collect, report, proportions, layers per stage, weights per file |
| Single node | `deploy/entrypoint_single.py` | the thread and the streamer of a stream | generate, generate_stream |
| Training | `ravnest/node.py`, `ravnest/compute.py`, `ravnest/trainer.py` | pass ids, buffers, parameter versions, gradients | forward, backward, optimizer step, the trainers' loops |
| gRPC endpoints and ring averaging | `ravnest/communication/endpoints.py`, `communication_grpc.py` | load buffers, sender queues, ring buffers, iteration counters | buffer_status, send_buffer, reduce_chunk, gather_chunk |
| Cluster formation | `ravnest/operations/` | clusters, quotas, rings, addresses | genetic search, cut of the model, rings |
| Command line | `ravnest/cli.py`, `deploy/entrypoint.py` | node processes, the file of process ids | native, native-stop |
| Kernels, LangChain, protocol definitions | `ravnest/inference/modeling/`, `ravnest/langchain_integration/`, `ravnest/protos/`, ... | – | – |

**Interaction.** A worker calls the coordinator over HTTP: `/register` once and
again whenever a heartbeat answers 404; `/heartbeat` in every round of its loop;
`/config` to learn the version, its rank and its peers; `/ready` and `/barrier`
while it reconfigures; `/leave` on SIGTERM. The coordinator never calls a
worker. A monitor thread of the coordinator drops members that have not been
heard of for `heartbeat_timeout` seconds. Workers talk to each other through
the pipeline's sockets: activations from rank to rank, tokens from the leaf to
the root and on to the stems, prompts from the root to everybody. Inside a
worker the main thread, the leaf thread and the API server's threads share the
engine and the event `reconfiguring`.

**What is hard.**

- Membership changes while workers are in the middle of following an earlier
  change. A worker's configuration may be outdated when it signals, when the
  barrier clears, and when it builds.
- The barrier table, the ranks and the version must change together.
- Calls fail after they were processed, so they are repeated or their effect is
  not known; processes crash, and come back under the same id before or after
  the coordinator has noticed.
- A worker that is busy for a minute looks dead and is removed while it is alive; the waits
  of a reconfiguration (90 s at the barrier, 60, 70 and 300 s for the peers) are longer than that.
- Threads blocked on sockets that another thread closes; a flag that two threads
  set and clear.
- A generation in which root, stems and leaf each decide when it is over, on
  channels that keep what a failed request left behind.
- Counters at a limit: request queue, KV blocks, rounded layer shares.
- Threads and processes that outlive what started them: the generating thread of a
  dropped stream, a thread that connects after its join has timed out, a node whose
  command has ended.
- Two rounds of a protocol on one port, and rounds of averaging told apart by a
  counter that starts again: nothing names the round a message belongs to.

**What makes the components correct.**

- *Coordinator*: ranks are the indices of the sorted member ids; every change of
  the membership is a new version; only members count at a barrier.
- *Worker*: configurations of one version agree; nobody is let through the
  barrier of the current version while a member still has its old connections;
  `current_version` only moves forward; after failures stop, all live workers
  run the current version, for which the heartbeat timeout must be longer than
  those waits.
- *Leaf loop*: a stage that is left inside a request comes out of it; a pause ends with
  the next reconfiguration.
- *API server*: a queue slot and the lock are given back exactly once on every path;
  requests that are served generate one at a time.
- *Engine and communication*: while nothing fails, all stages of a generation stop at
  the same step and leave empty channels; a client is given its own tokens.
- *KV cache*: free blocks and blocks in tables partition the cache; no block is in two
  tables; a request leaves nothing behind that the next one could run short of.
- *Set-up*: the exchange of hardware and the making of connections end; every layer is
  in exactly one stage and no stage is empty; a process is not forgotten.
- *Training*: a gradient finds its pass, not too many versions later; labels match
  outputs; a buffer holds at most one tensor; gradients are applied.
- *Averaging*: every parameter is averaged in one ring, and every member ends with the
  sum over all clusters of the same round.

## 2. The modules

### Coordinator

`Coordinator.tla` is class `ClusterState`. Every method holds `self.lock` from
its first to its last line, so every method is one action.

| variable | code |
|---|---|
| `members` | keys of `self.nodes` |
| `rank[n]` | `self.nodes[n]["rank"]`; `NoRank` is None, also for ids that are no members |
| `version` | `self.cluster_version` |
| `ready` | `self.ready_nodes`, the dictionary of sets, as pairs <<version, id>> |
| `stale` | members whose `last_seen` is more than `heartbeat_timeout` ago |

| definition | code |
|---|---|
| `Position`, `Recompute` | `_recompute`, called with the membership that the method leaves |
| `Register`, `Heartbeat`, `Leave`, `CheckHeartbeats`, `SignalReady` | `register`, `heartbeat`, `remove`, `check_heartbeats`, `signal_ready` |
| `CheckBarrier` | `_check_barrier` |
| `ConfigAvailable`, `Config` | the route `/config/{node_id}` |
| `Lapse` | the passing of time, as far as `check_heartbeats` can see it |

Ids are integers because the code uses them only as keys and in `sorted()`.
`CoordNext` lets any id make any call in any order. The only thing it asks of a
caller is that it signals a version that it has been given.

### Cluster

`Cluster.tla` adds the workers' main threads. `pc[w]` is the place in `run()`
and `reconfigure()`; each step ends at the next HTTP call:

| `pc` | about to |
|---|---|
| `register` | POST /register; `regRet` says where `register()` was called from |
| `top` | GET /config at the top of the loop (worker.py:405) |
| `idle` | the heartbeat of a worker without a configuration (410) |
| `load` | the heartbeat after load_model in `reconfigure()` (348) |
| `signal` | close the old connections and POST /ready (350-295) |
| `poll` | GET /barrier, repeatedly (307-325) |
| `build` | `configure_pipeline()` up to its heartbeat (192) |
| `finish` | create Node and InferenceEngine, start the role's loop, set `current_version` |
| `beat` | the heartbeat at the end of the loop (419 and 430) |
| `refetch` | GET /config after a heartbeat that showed another version (421 and 432) |
| `dead` | there is no process |

`cfg[w]` is the configuration `reconfigure()` works on and `recRet[w]` where it
returns to; `current[w]`, `engine[w]`, `comm[w]` and `loops[w]` are
`current_version`, the configuration the engine was built for, whether its
sockets are open, and which of the API server and the leaf thread were started.

A call is one step: sent, processed and answered. A lost call (`RegisterReplyLost`,
`BeatLost`, `ConfigLost`, `SignalLost`) is processed or not, and the worker takes
the path of the exception. A lost request of `register()` needs no step: the loop
repeats it. A lost poll needs none either. `register()` gives up after five
minutes without an answer; that is a crash in the model. Three abstractions:

- The first heartbeat of `reconfigure()` is part of the step that fetched the
  configuration. The heartbeat after `load_model` repeats it, and meets all that
  it can meet.
- A heartbeat answered by 404 and the registration that follows are one step: an
  id that is not a member stays none until it registers, and the refused heartbeat
  changed nothing. A registration whose answer is lost there is `RegisterReplyLost`.
- Everything between the heartbeat of `configure_pipeline` and the end of
  `reconfigure()` touches only the worker's own state and its peers' sockets; it
  is the step `Finish`. Whether every peer has answered makes no difference to
  the main thread, because `_setup_connections` goes on after its timeouts.

How long a wait lasts enters in one place. A worker that waits out the 90 seconds of the
barrier (`BarrierWait`) has made no heartbeat meanwhile; so `BarrierTimeout` requires, when
`HeartbeatTimeout` and a period of the monitor are shorter than that, that the coordinator has
removed it. A live worker falls silent at the labels where the code may make no heartbeat for
long (`SlowLabels`), and that is one of the failures. What may fail is the constant
`Failures`, a set of budgets per kind; `faults` is what is left of the chosen one. A process
that ends because its port is held (see Cadence) is a `Crash` at `finish`.

`self.reconfiguring` is not a variable here. The branch of `run()` for a paused
worker (417-428) makes the same calls with the same consequences as the branch
after it. What the flag means to the leaf thread is the subject of Serving.

### Cadence

`Cadence.tla` is two workers and the coordinator again, with the times of the code and without
failures: what Cluster leaves to chance, how long each wait lasts, is computed here. Only the
duration of each worker's first `load_model` is free.

| variable | code |
|---|---|
| `age[w]` | ticks since `last_seen`; `Gone` for an id that is no member |
| `version`, `ready` | `cluster_version`, `ready_nodes` |
| `pc[w]`, `left[w]` | where the main thread is, and how long the sleep or wait it is in still lasts |
| `return[w]`, `cfg[w]`, `current[w]` | as `recRet`, the version of `cfg` and `current` in Cluster |
| `load[w]` | what `load_model` will take; it is slow the first time only |
| `port[w]`, `accepting[w]` | the listening socket, and how long its thread still waits in `accept()` |
| `out[w]`, `tries[w]` | the thread that connects to the peer, and its remaining attempts |

A step of time is five seconds and happens only when both workers wait, so calls take no time
and every wait lasts exactly as long as in the code. A version number that nobody holds is
used again, which keeps the state space finite. `close()` on a listening socket while
another thread is inside its `accept()` does not end that `accept()`, and the port stays bound until
it returns: this is the behaviour of Linux, external to the repository. It makes the `bind()` of the
next build fail, because the thread may sit there for 300 s (communication_dynamic.py:190-192).

### Membership

`Membership.tla` is the abstract specification: the membership is a sequence of
numbered views, numbered without gaps (`Change`); a worker adopts a later view
that has been issued (`Adopt`); a process that stops forgets its view, and may
take its member out in the same step (`Stop`). There are no calls, ranks,
barriers or failures in it. `Cluster.tla` states that the cluster implements it
(`ImplementsMembership`), with `current_version` for `adopted`.

### ApiQueue

`ApiQueue.tla` is the request handling of `create_app`: `pc[r]` is where the request
on connection `r` is, `lock` and `size` are the code's lock and counter.

| `pc` | the request |
|---|---|
| `new` | has arrived and needs a thread of the framework's pool |
| `wait` | is counted and blocked in `lock.acquire` |
| `timeout` | was not given the lock in time and has still to return its slot |
| `generate` | is inside `engine.generate` (both endpoints, not streamed) |
| `respond` | has the lock; its endpoint has returned a generator that has not started |
| `step`, `pause` | is inside the generator, or between two of its chunks |
| `release`, `slot` | is about to run the two lines of `finally` |
| `lost` | had its generator dropped before it started |

The web framework is external and modelled as the code uses it: endpoints declared
with `def` run on a thread of a pool, and so does each step of a generator; when the
client has gone the response is cancelled, which closes a started generator at its
`yield` (its `finally` runs) and merely discards one that has not started. A client may
leave at any time. That a request is given the lock in any order is what
`threading.Lock` documents. The `except Exception` of `chat_completions` (272-279) is never reached,
because `_non_stream_response` turns everything into HTTPException.

`BoundedQueue.tla` is the abstract queue: requests are admitted while fewer than
`MaxQueue` are inside, one is served at a time, and leaves afterwards. The refinement
maps the requests that are counted to `inside` and those that have the lock to `serving`.

### SingleNode

`SingleNode.tla` puts the queue on top of an engine. With `SingleNodeEngine` a stream
starts a thread (`thread[r]`) that generates, and iterates over what the thread puts into
a streamer; a dropped stream may leave its thread behind (`left`), and a thread that
raises an error never ends the streamer. With a pipeline as the engine nothing is added.
Every step of `ApiQueue` is kept, with a condition on the thread where the stream waits
for it. The streamer is external; one thread left behind stands for any number.

### Pipeline and Serving

`Pipeline.tla` is one generation after the other on one set of connections.

| variable | code |
|---|---|
| `pc[s]` | where the thread that generates stands: the root is `idle`, about to `send`, or waits for feedback (`fb`); a follower is at the head of its loop (`top`), reads batch size, prompts or lengths (`prompt`, `plist`, `lens`), waits for an activation (`act`) or for feedback |
| `gen[s]` | the request and the number of tokens that a stage counts for itself |
| `meta`, `act`, `up` | what is unread on the metadata, forward and feedback sockets |
| `work`, `tok`, `orphans` | `feedback_recv_work`, `feedback_ip`, and receivers left behind by a timeout |

A tensor is represented by the request and the step it was computed for; it may be the
end of the text (`eos`) or the zeros that a buffer was initialised with. `Read` is
strict where the code is: a pickled list where a tensor is expected, or the reverse, raises.
`StepWithoutInput` and `GiveUp` are the timeouts of 300 s and 30 s, `Abandon` is a client
that closes its stream. `broken` and `foreign` are history variables: whether a stage has
given up or been left inside a request, and whose client got another's token.

`Serving.tla` puts the loops of `worker.py` around it: the leaf loop with its two kinds of
errors, the pause, and `reconfigure()`. Reconfiguration of all workers is one step here,
because the barrier in the middle of it, which Cluster is about, makes them meet; what the
old threads do on closed connections is kept (`Interrupted`). A thread that reads an announcement
gets an error before or after the event is set again; if its peer vanished without closing it
stays where it is (`deaf`). A thread in the middle of a request runs on with zeros until it
looks up a peer that is gone; the KeyError is caught in `run()` like any other and leads to the
head of the loop on the new pipeline, unless an earlier send had kept an OSError or the token had
not come for 30 s: then it pauses (`lost`).

### KVCache

`KVCache.tla` has the block tables, the free blocks, `_available_blocks`, the sizes and
the reference counts, driven by `InferenceEngine.generate`: `Begin` resets and admits a
batch whose lengths the API server permits (`Permitted`), `Prefill` and `Decode` are the two
allocations, `ResetUnder` is the reset by a thread that has no business with the engine.
The code's branches for too few or fragmented
blocks are left out, and two properties say that they are never reached for requests
within the limit the API server checks.

### LayerSplit, HardwareExchange, Sessions and Startup

`LayerSplit.tla` has no state: proportions from hardware in hundredths with Python's
rounding, the two ways to count layers, what the split of each model family keeps at a
rank, and which checkpoint files a stage reads. `HardwareInfo` is of the calls that return: an
output of nvidia-smi that is no number (hardware.py:31) and the use of CUDA through torch
(hardware.py:43, whose attribute torch does not have) raise. `HardwareExchange.tla` is the two rounds
on one port: reports, then answers. A connection is a record in `backlog`; whether it
reports is known to its sender only. `Sessions.tla` is how three nodes connect: for the
sockets, the threads that accept and connect with their timeouts; for torch.distributed,
the program of groups each node goes through, where a step is taken by all members of a
group together. `Startup.tla` extends both with `ravnest native`: commands that start
node processes, watch them, or write their ids to a file and end; `native-stop`; and the
failures in between. Its variable `mode` says which of the uses of the program is
followed: one node per machine after the exchange, all nodes on one machine, a single
node, or the connecting of three started nodes, which is explored by itself because it
shares no state with the commands.

### Training

`Training.tla` is a cluster of root, at most one stem, and leaf: the main threads
(`pc`), the buffers of the gRPC service (`fwd`, `bwd`), the threads that poll and
deliver (`fsend`, `bsend`), the passes with the parameter version each was computed
with (`live`, `version`), gradients that wait for an optimizer step (`grads`) or were
erased before it (`dropped`, a history variable). `async` chooses between
`BaseTrainerFullAsync` and `BaseTrainer`. The two copies of `endpoints.py`, of the
package and of its `communication` directory, serve the same calls; the map names each
for one direction.

The training stack does not start at this commit: `node.py` imports a name that
`communication/__init__.py` does not export, and `forward` of `node_tcp.py` calls its
helper with arguments it does not take. The module follows the control of `node.py`, on
which the trainers were written, and keys a pass by its id throughout.

### Formation and RingReduce

`Formation.tla` is `clusterize`: a search that keeps the best individual (any individual
may be evaluated next, as mutation can reach all of them), the clusters it decodes to,
quotas by largest remainder, the cut of a model by thresholds, and from the parameters
each provider holds the rings and the addresses that `node.py` reads back. A run may end
as `failed` where the code raises. `RingReduce.tla` continues with the averaging among
the clusters: a thread per provider and ring, with its iteration counter, which senders
poll, and its buffer of chunks. A chunk's value is the set of clusters and rounds that
were added up in it. When a provider begins a round is its trainer's matter (node.py:614-619),
which counts the provider's own passes: it may begin one whenever its last one is over, and need
not begin as many as its neighbours. `Sums.tla` is Python's `sum()`
over a finite set, which the formation and `LayerSplit.tla` use.

### Mutants

The definitions whose comment begins with "Mutant" are changes a maintainer might
make by mistake to the definition that follows them. No specification uses them;
each shows that some property of the runs depends on the line that is changed.

## 3. The runs

| run | instance | result |
|---|---|---|
| `cluster` | 3 ids, 2 needed; 3 workers and one stops, or 2 workers and any two failures; heartbeat timeout 150 s, fairness | 168 069 states, no error |
| `cadence` | 2 workers, 2 needed, loading takes up to 120 s each; heartbeat timeout 60 s, fairness | `EventuallySettled` is violated |
| `peers_keyed_by_rank` | 2 ids, 2 needed, 1 lost call | `PeersKeyedByRank` is violated |
| `api_queue` | 3 connections, 2 of them streams, 2 slots, 2 threads, both engines, fairness | 8 992 states, no error |
| `one_generation` | two connections, both streams, either engine | `OneGeneration` is violated |
| `api_turns` | a stream and another request | `TurnsComeUp` is violated |
| `serving` | 3 stages, 2 requests, 1 reconfiguration, 1 early timer, fairness | 42 754 states, no error |
| `serving_tokens` | 3 stages, 3 requests, no reconfiguration | `OwnTokens` is violated |
| `kv_cache` | 2 sequences of up to 6 tokens, blocks of 2, up to 2 references to a block | 7 363 states, no error |
| `training` | 3 nodes, 5 batches, both trainers, fairness | 303 090 states, no error |
| `ring_reduce` | 4 providers, up to 3 clusters, 3 parameters, 4 models, 2 rounds | 326 779 states, no error |
| `startup` | 3 nodes, 5 fleets, 3 numbers of layers, 3 backends, fairness | 180 841 states, no error |

**Properties of the cluster.**

- `ClusterTypeOK`: types.
- `RanksFollowIdOrder`: a rank that is not None is the index among the sorted ids.
- `ReadyAreMembers`: barriers count members and issued versions only.
- `SameVersionSameMembers`: two workers whose configurations carry the same version
  have the same members in them, and no rank twice. This is what makes the pipelines
  they build separately fit, and it is why every change must raise the version.
- `ClearBarrierMeansArrived`: when /barrier reports the current version as clear, all
  live members with a rank have that configuration and no old sockets. The members
  without a rank are excluded because they registered twice: such a member may still
  count from its previous life, which is the second finding's state.
- `ImplementsMembership`: the refinement.
- `EventuallyConverged`: after the last failure the members become exactly the live
  workers and, if they are enough, all of them reach the current version and stay. It is
  claimed of a heartbeat timeout above the 90 s of the barrier and the 130 s to 140 s a build
  can wait for its peers; the run has 150. Then a worker falls silent only by a failure.
- `EventuallySettled`: the same of two healthy workers at the default timeout of 60 s. It is
  violated; see [What the project found](#5-what-the-project-found).

**Properties of the request queue.**

- `ApiTypeOK`: types, and `queue_size` within its bounds.
- `SizeIsExact`: `queue_size` counts the requests inside, on every path.
- `LockHasOneHolder`: the lock is locked exactly while one request has the engine.
- `StreamFindsThread`: waiting requests do not take the last thread from the stream they
  wait for. Its condition, `MAX_QUEUE` not larger than the pool, holds for the defaults
  (16 and 40) and is not checked by the code: `RAVNEST_MAX_QUEUE` may be set higher, and
  then requests can block the stream until they time out.
- `OneGeneration` (run `one_generation`): no two generations run at once, whether their request
  is served or its client has gone. It is violated; what does hold is that the requests that are
  served generate one at a time (theorem `ServedOneByOne`).
- `ImplementsBoundedQueue`: the refinement.
- `EveryRequestEnds`: a request that has arrived is answered, but for the stream that was
  lost as described above and the stream whose thread has died.

**Properties of the pipeline.**

- `ServingTypeOK`: types, and a receiver is under way only while its stage waits for it.
- `HealthyTokens`: a client gets tokens of another request, or in a wrong place, only when
  since the last reconfiguration a stage has given up or been left inside a request. So
  the stages' separate counts agree, and nothing crosses a reconfiguration.
- `NoLeftovers`: under the same condition nothing is unread when all stages are back.
- `EveryRequestEnds`: the root answers or fails each request.
- `StagesComeBack`: a stage that waits for an activation or a token ends the request and comes
  back to the head of its loop, or gives it up as a lost connection, whatever the root and its
  neighbours do and also when the pipeline is replaced under it. It says nothing of a stage that
  has begun to pause, which lasts until the next reconfiguration (hazard at `worker.py:262`), and
  of one that reads an announcement from a peer that vanished, which may read for ever (hazard at
  `worker.py:246`).

**Properties of the KV cache.** `BlocksNotShared` and `CounterIsExact` are the partition;
`PromptsFit` and `PoolSuffices` say that any request within the limits finds what it needs,
after any history; `KVTypeOK` types.

**Properties of the set-up.**

- `RootGoesLast`: when the root ends the exchange, all nodes have the proportions of the
  hardware all of them reported.
- `StagesTile`: with all nodes running, their stages divide the model, in order, without
  gaps and overlaps, for each family, with a tied or separate head, and each node finds
  what it keeps in the files it reads. It holds for models that are not too deep for the
  number of nodes; the [proofs](#4-the-proofs) say how deep, and what happens beyond.
- `NoStrays`: a running process is watched, named by a file or asked to exit, or lost in
  one of two ways (hazard at `cli.py:645`).
- `SetUpEnds`: the exchange ends unless a node comes back early, which is the deadlock of
  `hardware.py:119`; the making of sessions always ends, and every session is whole if no
  node exits and no timer runs out.
- `StartupTypeOK`: types.

**Properties of training.**

- `GradientsFindTheirPass`: a gradient on its way to a node is of a pass the node holds,
  in order, once; no buffer has two messages (`BuffersHoldOne`).
- `StalenessIsBounded`: passes in flight and versions between a pass and its gradient are
  bounded by the length of the cluster.
- `LabelsMatch`: with `BaseTrainerFullAsync` the leaf computes a loss from the labels of
  the batch whose outputs it has. `BaseTrainer` does not have this property: it skips a
  batch at a closed gate.
- `GradientsAreApplied`: stems and leaf lose no gradient. The root may: those it takes
  while it sends (node.py:649) are erased by a turn that takes no other.
- `TrainingEnds`: with `BaseTrainerFullAsync` all nodes end with empty hands.
- `TrainingTypeOK`: types, with the bounds of all counters.

**Properties of formation and averaging.**

- `QuotasCoverTheModel`: rounding loses nothing, and no quota is more than a rounding step
  above its share.
- `RingsAgree`: each parameter has exactly one holder in each cluster, is in one ring, the same
  in every cluster, and is sent to its holder in the next cluster.
- `AveragesAreExact`: after a round all chunks are the sum of every cluster's value of this
  round, each once. The counter that starts again at 0 does no harm, since a provider
  cannot be a whole round ahead.
- `OnlyLateRoundsAreWaitedFor`: if providers are in a round and no thread can send or take a
  message, then some provider has begun fewer rounds than one that is still in its last. So the
  polls and the full or empty buffers never close a circle by themselves. Whether that provider
  ever begins its round is for its trainer, and nothing ends the wait if it does not (hazard at
  `communication_grpc.py:391`). The guards are operators of their own (`CanBegin`,
  `CanSend`, `CanReceive`), so that this is a state predicate.
- `FormationTypeOK`: types, and fitness never above its first value.

**Bounds.** In the cluster, the number of ids and the failures are the only bounds; nothing
else is capped, and the state space is finite because each failure allows a bounded number
of membership changes. Three ids are needed for a barrier at which two survivors wait for a
third, and for ranks that shift in the middle; with two needed, two survivors wait for each
other after any stop, and a single one waits for a third to arrive. `MCInit` has two
cases, because three ids with two arbitrary failures have some five million states: three workers
of which one crashes or shuts down, anywhere; or two workers, the third not started, and any two of
crash, restart, shutdown, lapse and lost call, a restart also standing for the arrival of the
third. A node that comes back before and after its removal, and a call that is lost
during the recovery from another failure, are among these.

`Cadence` has two workers because two already miss each other; three would have more ways to.
Each duration of loading up to 120 s in steps of five seconds is tried for each worker. All timeouts of the code are
multiples of five seconds. Six version numbers are enough to have one that nobody holds, since at
most five are held.

`CHECK_DEADLOCK FALSE` in `cluster`: when all failures have happened, all processes may be dead
and forgotten, and nothing is left to happen.

Three connections on two slots and two threads fill the queue and the pool, let a
stream and a plain request wait behind a stream, and let a stream be lost while others
wait. Connections are reused without end.

A pipeline of three has each kind of stage. Two requests, of two tokens and one, let one be
abandoned or time out in the middle and the next one meet what is left; the third of
`serving_tokens` is needed to see a foreign token without a reconfiguration. One
reconfiguration puts old and new threads side by side. A timer may go off once (`MaxLate`)
while somebody still works; otherwise only when nobody does. `kv_cache` admits each
combination of lengths within six tokens, which fills the pool; `MaxRefs` bounds the
number of requests through the one counter that grows. Five batches keep a cluster of
three, whose gate admits four passes, at its gate, and leave gradients for the end. Three parameters, two to three
clusters and rings with two receivers are the smallest in which rings are cut differently
by different clusters; two rounds are needed for a counter that returns to 0 to be mistaken, and for providers to be
in different ones. `Rounds` is only a bound: nobody is made to begin a round.
One cluster of four, and a threshold that no submodel meets, end the formation as `failed`.
Three nodes have a first, a middle and a last rank. `MaxTries` 2 stands for 30
connection attempts, so the root may be missed for good. The fleets make equal shares, a
last share of 0, and no memory at all. With three nodes no rounding takes more than a
hundredth from the last one; the theorem `StagesTileTheModel` has what more nodes need.

`CHECK_DEADLOCK FALSE` in `serving`, `training`, `ring_reduce` and `startup`: requests,
batches, rounds and nodes are used up; that nothing stops before is what the liveness
properties and `OnlyLateRoundsAreWaitedFor` check.

**Fairness.** Weak fairness of the monitor thread, an endless loop that sleeps
for five seconds; of each worker's main thread, which never blocks without a
timeout (all calls have one, the barrier has 90 seconds, `_setup_connections`
joins with one); and of time passing for a dead process. `BarrierCleared` and
`BarrierTimeout` share the fairness of the thread and exclude each other. No
failure, restart or lost call is ever forced. Fairness of coordinator calls
is that of the thread that makes them. In `Cadence` one weak fairness of `CadenceNext` is
enough: time passes only when nobody has anything to do, and between two ticks each worker takes
finitely many steps.

In `ApiQueue` each admitted request proceeds (weak fairness: threads and event loop run,
`acquire` has a timeout). Strong fairness says that the pool serves those that wait for a
thread in order, and that a stream that keeps yielding ends, because the loop of
`_generate_stream` is bounded by `max_seq_lengths` and its waits by 30 seconds. No client
is forced to send or to leave.

## 4. The proofs

### Coordinator and Cluster

`Cluster_proofs.tla` proves of the coordinator for every finite set of integer ids, every
`MinNodes` and every order of calls (`CoordSpec`):

| theorem | states |
|---|---|
| `CoordinatorTypes` | `CoordTypeOK` always holds |
| `RanksAreIndices` | `RanksFollowIdOrder` always holds |
| `PipelineRanks` | ranks of two members differ, lie in `0 .. Cardinality(members) - 1`, and rank 0 is the smallest id, the one /config calls the master |
| `ReadyNodesAreMembers` | `ReadyAreMembers` always holds |

Assumptions: the three named in `Coordinator.tla` (ids are integers and finitely
many, `MinNodes` is a natural number, None is not a number).

`CoordTypeOK` is inductive by itself. `RanksFollowIdOrder` and `ReadyAreMembers`
are inductive relative to it. The argument for ranks has two halves.
`RecomputeRanks`: after a `_recompute` all ranks are indices, whatever they were.
`RanksStep`: the only method that touches an entry without a `_recompute`, the
registration of a known id, takes a rank away and gives none. `PipelineRanks`
then follows from the counting lemmas `PositionIncreases` and `PositionBound`,
which rest on the library's theorems on finite sets: for a larger id the set of
smaller ids is a strictly larger set.

It proves of the cluster for every set of ids, every `MinNodes`, every heartbeat
timeout and all budgets of failures (`ClusterSpec`):

| theorem | states |
|---|---|
| `ClusterTypes` | `ClusterTypeOK` always holds |
| `WorkersMoveForward` | `MovesForward` always holds: no worker is ahead of the coordinator, and one that reconfigures does so to an issued version later than its own |
| `ClusterImplementsCoordinator` | `ClusterSpec => CoordSpec`, so the four theorems above hold in the cluster |
| `OneVersionOnePipeline` | `SameVersionSameMembers` always holds |
| `ClusterImplementsMembership` | the refinement `ImplementsMembership` |
| `BarrierMeansArrived` | `ClearBarrierMeansArrived` always holds |

Further assumptions: None is not a configuration, the heartbeat timeout is a natural
number, failures are of the five kinds and budgets natural numbers (`NoConfigAssumption`,
`TimeoutAssumption`, `FailuresAssumption`).

The inductive invariant is `ClusterTypeOK /\ MovesForward` (`ClusterInvariant`).
Types alone are not inductive: that a worker may signal only a version it was
given, and that `reconfigure()` has a configuration in hand, depends on where
the worker stands in its code, a pending `register()` aside (`Place`).
`CoordinatorPart` shows that a step of the cluster is a step of the coordinator
or none; this is where the signalled version must be an issued one.

- *OneVersionOnePipeline.* `SameVersionSameMembers` relates two workers, and a step that
  gives one of them a new configuration must know how the other's relates to the
  coordinator. The strengthening `ViewsAgree` says so: each configuration is that of an
  issued version, has the coordinator's members while its version is current, and its
  ranks are indices of its own peers. `VersionStep` (no change of the members without
  a new version) carries it from step to step, and `PositionIncreases` turns equal
  members into different ranks.
- *ClusterImplementsMembership.* `ViewsStep`, one case per action. A worker adopts a
  version in `Finish` only; that it is a later, issued one is `MovesForward`.
- *BarrierMeansArrived.* The strengthening `SignalledArrived` says of each node in the
  barrier table for the current version that it has arrived, or that the process that
  signalled is gone: it is dead, or its successor is about to register, or has
  registered and lost its rank by it. `BarrierStep` (a step that raises the version or
  gives ranks empties the table) is why an old signal never counts for a new version.

### ApiQueue and SingleNode

`SingleNode_proofs.tla` proves for every finite set of connections, every choice of streams,
every `MaxQueue` and every `Threads` (`ApiSpec`):

| theorem | states |
|---|---|
| `ApiTypes` | `ApiTypeOK` always holds |
| `QueueSizeIsExact` | `SizeIsExact` always holds |
| `OneRequestAtATime` | `LockHasOneHolder` always holds |
| `StreamNeverStarves` | `StreamFindsThread` always holds |
| `ApiImplementsBoundedQueue` | the refinement `ImplementsBoundedQueue` |

The inductive invariant is `QueueInv`. The bounds of the counter are not inductive by
themselves: that it never falls below 0 follows from its being exact, and that it is
exact from counting the requests before and after a step (`CountMoves`). Most steps
neither enter nor leave the sets of counted and of holding requests, and are one lemma
(`MoveKeepsQueue`). `StreamNeverStarves` counts: the busy threads belong to counted
requests, and the stream is one that has none.

The same module carries this over to a server with either engine: each step of
`ServerSpec` is one of `ApiSpec` or a stutter (`ServerIsApiServer`), so `QueueInv` holds.
`ServedOneByOne` follows: a thread of a stream that is served belongs to one that is
between the first and the last of its chunks (`ThreadsHoldLock`), such a stream has the
lock, and the lock has one holder; so at most one of the requests that are served generates. The
thread that a dropped stream leaves behind is no part of the theorem: with it `OneGeneration` is
false.

### Training

`Training_proofs.tla` proves for a root and a leaf with or without a stem, every number
of batches and epochs and every update frequency (`TrainingSpec`):

| theorem | states |
|---|---|
| `StemsAndLeafApplyGradients` | `GradientsAreApplied` always holds |
| `BuffersNeverOverflow` | `BuffersHoldOne` always holds |
| `GradientsComeInOrder` | `GradientsFindTheirPass` always holds |
| `GateBoundsStaleness` | `StalenessIsBounded` always holds |
| `FullAsyncLabelsMatch` | `LabelsMatch` always holds |
| `TrainingTypes` | `TrainingTypeOK` always holds |

The inductive invariant `TrainingInv` has five parts, each inductive with those before it.

- `GradientInv` says where a stem or leaf may have gradients that no step has used: between
  a backward pass and the update that follows it, with `backward_monitor_flag` set, or below
  the update frequency (`NothingDue`).
- `FlowInv` follows every pass on its way. `BufferInv` counts for each wire the tensors in the
  buffer and the permission of the one sender, and `PlacesInv` says which senders are at work
  for each place of the main thread. With these the counters of neighbours can be compared:
  what a node has begun and the next one has not is what is in the buffer and the sender
  between them, and these are consecutive passes (`PassesInv`); the gradients come back in
  the same order (`GradientsInv`); so a node holds exactly the passes between its two
  counters (`LiveInv`). `AgeInv` has the gate of the root, and that every new version costs
  a gradient: `nForwards - nBackwards` never grows from a node to the next, which is why the
  gate of the root bounds all of them.
- `LoopInv` ties passes to batches. With `BaseTrainerFullAsync` no batch is left behind without
  its pass, at the root as at the leaf; `MessagesInv` carries the batch of a pass through
  buffers and senders. Together they give `FullAsyncLabelsMatch`.
- `RangesInv` is what remains for the bounds in `TrainingTypeOK`.

That there is at most one stem is an assumption the code justifies: a second one would not
find the key `steady_state` (`TrainingAssumption`).

### Set-up

`Startup_proofs.tla` proves for any number of nodes, layers, connection attempts and fleets
(`StartupSpec`):

| theorem | states |
|---|---|
| `NodesAreAccountedFor` | `NoStrays` always holds |
| `ProportionsReachEveryNode` | `RootGoesLast` always holds |
| `StartupTypes` | `StartupTypeOK` always holds |
| `StagesTileTheModel` | if `FewLayers`, `StagesTile` always holds |

- *NodesAreAccountedFor.* The invariant adds that a command which has not begun has no
  processes. A step moves one command, and `OneCommandMoves` says what it has to leave in
  order; each action then shows that it does. `native-stop` is the one step that empties a file.
- *ProportionsReachEveryNode.* The root counts connections and does not look at what they are,
  so the argument is that the count is of different nodes. `BacklogInv`: no connection is
  queued twice, one that reports belongs to a node that will not report again, one of the
  second round to a node that waits on it. `RoundsInv`: in the first round there is a set
  of `accepted` nodes whose reports have arrived, in the second one of `accepted` nodes that
  have the answer; when the counter reaches `Size - 1`, the set is everybody. A node that comes
  back in the first round, which nothing in the code excludes, can stop the exchange (`SetUpEnds`)
  but not corrupt it: the root waits for its report and does not count it.
- *StagesTileTheModel.* When all nodes of a pipeline run, each has been started by a command
  that knew the proportions (`BegunInv`, with `RootGoesLast`), and these are the same for all.
  So all nodes count the layers of each stage alike (`StagesSplit`), and what is left is
  arithmetic on the functions of `LayerSplit.tla`:
  - `HundredthsRounds` and `SharesFit`: each share but the last is rounded by at most half a
    hundredth, half to even. So the last one, which takes what is missing to 1, is at least
    -((n - 1) div 2) hundredths.
  - `ProportionalSplitDivides`: the layers that truncation leaves over are at least 0 and fewer than
    the stages, and go one each to as many stages with the largest fractions; the counts add up.
    `TruncateRounds` is the place of the hypothesis: a share below 0 must truncate to 0 layers.
  - `EachHasOne`: the loop that gives a layer of the largest stage to an empty one keeps the sum
    (`GivingKeeps`), can go on while a stage is empty (`GivingGoesOn`), and ends with none empty.
  - `RangesTile`: ranges between the partial sums of positive counts are not empty, follow one
    another and cover `0 .. L - 1`. `StageHolds` and `StageIsLoaded` then add, per family, the
    embedding, norm and head, and the files.

`FewLayers` says `((Size - 1) \div 2) * l < 100` for every number of layers `l`: any model on one or
two nodes, fewer than 100 layers on three or four, fewer than 50 on five or six. It is a bound the
code does not check, and `StagesTile` needs one:
see [A share below nothing](#5-what-the-project-found).

### KV cache

`KVCache_proofs.tla` proves for every number of sequences, every maximal length and every size
of a block, over any number of requests and of resets under a running one (`KVSpec`):

| theorem | states |
|---|---|
| `CacheTypes` | `KVTypeOK` always holds |
| `NoBlockIsShared` | `BlocksNotShared` always holds |
| `NoBlockLeaks` | `CounterIsExact` always holds |
| `ContiguousRoom` | `PromptsFit` always holds |
| `RoomForEveryToken` | `PoolSuffices` always holds |

Assumption: the three sizes are positive (`SizesAssumption`). The inductive invariant is
`KVInv`. Besides the partition it has what a request may be (`RequestInv`: no sequence outgrows
`MaxSeq`), that the cache is empty between reset and prefill (`FreshInv`), and that a row has no
block beyond that of its next token (`SlotsInv`).

- The prefill gives row `r` the blocks after those of all rows before it. `Offsets` and
  `RowsDoNotOverlap` show that these ranges are disjoint and end within the pool.
- In a decoding step the pool has to have a block for each row that wants one. The pool has as
  many blocks as the tables have entries; a row that wants a block stands for an entry
  without one, hence there are as many free blocks (`DecodeHasRoom`).
- Which of them a row gets is decided by its rank among those that want one. `NewBlocks`: the
  choice is injective, since ranks match the wanting rows with the first free blocks one to one.

### Pipeline

`Serving_proofs.tla` proves for any number of stages and requests, any lengths, any number of
reconfigurations and of early timers (`ServingSpec`):

| theorem | states |
|---|---|
| `ServingTypesHold` | `ServingTypeOK` always holds |
| `TokensAreOwn` | `HealthyTokens` always holds |
| `NothingIsLeft` | `NoLeftovers` always holds |

Assumptions: those of `Pipeline.tla`, and that there is at least one set of connections. The
inductive invariant is `ServingInv`: types, and `Healthy` unless `broken`. Nothing is said of a
pipeline in which a stage has given up, since then anything may be read as anything.

`Healthy` has one case for each place the request can be: with the root (`AtRoot`), on its way
to stage `l` (`AtStage`), answered by the leaf (`Returning`), known to the root (`Returned`), or
complete (`AtRest`). Each says for every follower where it may be and exactly what is on its
sockets. The followers are not in step: while the root already sends the next activation, a
stem may have the last token unread, and while one request begins, a stem may still have to
see the end of the one before (`Behind`, `Waiting`, `Beyond`, `Over`). What a stage does by itself is
`Alone`, and `AloneStep` shows that it never moves the request from its place; the other
actions move it to the next one. A follower's count of tokens is part of each case, so that
all stages end a request at the same token is a consequence. `Fresh` are connections no
request has used: a reconfiguration makes them from any state, a broken one included.

### Formation and averaging

`RingReduce_proofs.tla` proves for all lists of memories and bandwidths, all models and any number of
clusters and rounds (`AveragingSpec`, of which `FormationSpec` is a part):

| theorem | states |
|---|---|
| `FormationTypes` | `FormationTypeOK` always holds |
| `QuotasAddUp` | `QuotasCoverTheModel` always holds |
| `RingsMatch` | `RingsAgree` always holds |
| `RoundsAreExact` | `AveragesAreExact` always holds |
| `OnlyALateRoundIsWaitedFor` | `OnlyLateRoundsAreWaitedFor` always holds |
| `FormationInvariant`, `AveragingInvariant` | the inductive invariants of both parts |

Assumptions: memories, bandwidths and sizes are positive, and `Rounds` is a natural number
(`FormationAssumption`, `RoundsAssumption`).

*Formation.* `FormationInv` has what each stage of `clusterize` leaves to the next: a decoded
individual puts every provider at one position of one cluster and leaves no cluster empty
(`Groups`), and a formed state is `FormedFrom` some ends of submodels. That is little, because the
stages are functions; the work is what they compute.

- `DecodeGroups`: sorting a cluster loses and repeats nobody (`SortedLists`).
- `RoundedPercentages` and `HandedOut`: a unit goes to the largest remainder, whose remainder then
  becomes 0. The remainders always add up to at least the units still missing, each is less than one
  unit, and so nobody gets a second one (`GiveKeeps`); this gives the sum of 100 and the bound of one
  step above the share.
- `SubmodelsTile`: the scan by thresholds ends submodels at increasing parameters, and a formation
  succeeds only with an end for each provider of a cluster but the last, which takes the rest. So
  exactly one provider of each cluster has a given parameter, the first part of `RingsAgree`.
- `RingSlices` and `AddressIsHolder`: rings are cut where the holder in the largest cluster
  changes. A provider reads its own rings back from the smallest parameter of each, and these are
  the same slices for every cluster because the parameters of a provider are contiguous
  (`Contiguous`).

*Averaging.* All that `RingInv` needs of the formation is `Rings`: along each parameter the holders are a
ring of one provider per cluster. It has four parts.

- `EdgeInv` compares neighbours. A counter returns to 0 after each phase, so `Half` and `Step`
  number all iterations of all rounds; a sender is at most one iteration ahead of its receiver
  (`NotOvertaken`) and has sent whatever the receiver has completed (`Follows`). The poll compares the
  code's counters only, and that it cannot confuse two rounds is this invariant.
- `BufferInv` says that a buffer has chunks of the iteration its owner is in, or of the first one of
  the phase it has not begun; each parameter once, and exactly what has been sent and not been taken.
- `GotInv`: `keys_received` counts the parameters whose chunk was taken, so the iteration ends
  when and only when all are there.
- `ChunkInv` has the value of every chunk at every moment. In the reduction, a chunk that has passed
  a provider is the sum over the arc of clusters from the chunk's own on; in the gathering, chunks
  behind the front are sums over all clusters. `Arcs` is the one step: an arc and the next
  cluster are disjoint and make the longer arc. `AveragesAreExact` is its last case.

None of them is inductive alone: a chunk has the right value because the message was of this
iteration, and that needs the neighbour's counter, which needs the count of what was taken.

*OnlyLateRoundsAreWaitedFor.* `LeftInv` adds that a thread in a phase lacks some parameter. `SomeoneGoesOn`
assumes that no provider is late in the sense of the property and takes, among the threads that are
in a phase, one that is least far (`Progress`). Threads in no phase are further than it: their
provider has another thread in a phase, or has ended at least as many rounds as the provider of
the one taken has begun. If the thread taken has something left to send, its receiver is no
further; if all is sent and its buffer is empty, the sender of a parameter that it lacks has not
sent it, hence is no further. Such a neighbour is no less far either, so both are in the same
iteration, and one of them can send. The step to a deadlock that is left, a round somebody never
begins, is the case the assumption excludes.

### Sums and induction

The induction theorems of the library take an operator, which the provers here cannot
instantiate. `Sums_proofs.tla` does without: each set of natural numbers has a least element
(`Least`, from the well-foundedness of <), so an induction is a proof that there is no least
counterexample, and one over finite sets is an induction over their cardinality (`ByRemoval`). On
these rest `Recursion` (a recursively defined function exists), `SumExists` and the facts about sums
(one element removed, linearity, bounds, change of one value, permutation into a sequence), with
which the quotas, percentages and counts of layers are added up. The folds of the community
modules are used as they are defined.

**Model-checked only.** Every invariant and every refinement of the passing runs is stated by a
theorem. What TLC alone checks is liveness under fairness (`EventuallyConverged`, `EveryRequestEnds` of both
modules, `StagesComeBack`, `TrainingEnds`, `SetUpEnds`), for which the prover has no rules; and the
violations.

## 5. What the project found

- **Two workers that load at different speed never meet** (`cadence`). A worker makes no
  heartbeat during the 90 s at the barrier (worker.py:284) and up to 130 s of a build, and the coordinator
  removes it after 60 s (coordinator.py:35). The removal empties the barrier table
  (coordinator.py:122), and the other one, which signals once, is not released either. In the
  run's trace one of two healthy workers loads the model 65 s longer than the other. They pass
  each other at one barrier after the next, until one calls `bind()` on a port that its own
  thread still holds in an `accept()` of 300 s (communication_dynamic.py:190): its process ends, and the other one
  idles for ever. `wait_barrier`'s docstring (worker.py:287-289) says that a dead node is removed within 60 s
  and the barrier then clears for the rest; the module's (7-8) that a worker
  reconfigures without restarting the process. With a heartbeat timeout above 140 s
  the members meet (`EventuallyConverged`).
- **A second registration removes the rank** (`peers_keyed_by_rank`). `register` of a
  known id stores rank None and does not recompute. The next configuration fetched
  has the key "null" among its peers and `int(k)` raises in `configure_pipeline`; the
  exception leaves `run()` and ends the worker (action `BuildDies`). The node that
  lost its rank is enough to end every worker that reconfigures to that version.
  The members then time out, so a later start of the processes recovers.
- **A stream whose client has left keeps the lock** (`api_turns`). Lock and slot of a
  streamed request are released in the generator's `finally`, and a generator that never
  ran has none. A client that gives up while its request waits in the queue is enough:
  the request later gets the lock and its response is cancelled before the first chunk.
  From then on every request waits for `QUEUE_TIMEOUT` and gets 504. `EveryRequestEnds`
  shows that the waiting requests at least end.
- **A single node generates twice at a time** (`one_generation`). With one node a stream
  generates on a thread of its own. When the client leaves, the generator is closed and the lock
  released, and nobody stops or joins the thread (entrypoint_single.py:83): the next request
  generates on the same model next to it. The server calls itself "Single-request-at-a-time"
  (deploy/api_server.py:5), and deploy/README.md:390 has "Single request at a time" as its
  limitation.
- **A closed stream leaves its tokens to the next client** (`serving_tokens`). When a client
  of a pipeline closes its stream, the generator ends at its `yield` and the root is free; stems
  and leaf are still inside the request. The next announcement is read by stages that
  expect a token or an activation, and the token that is still on its way is the first the
  root takes for the next request. The docstring of `_generate_stream` says that it works
  "like _generate". `StagesComeBack` and `HealthyTokens` show the limits of the damage: the
  stages come out after their timeouts, and a reconfiguration clears everything.

A sixth came out of the proof of `StagesTile`. It has no run of its own; the theorem's hypothesis
states it, and the numbers below are those the code computes.

- **A share below nothing.** `compute_proportions` rounds every share to hundredths and gives the
  last node what is left (`hardware.py:96`), which is below 0 when the others were rounded up by more
  than its share. With shares of 33.6, 33.6, 32.6 and 0.2 % the proportions are 0.34, 0.34, 0.33 and
  -0.01; of a model of 126 layers `_get_layers_proportional` makes 43, 43, 41 and -1, because it looks
  for stages with exactly 0 layers (`base_split_spec.py:47`, below the comment "Ensure every stage has
  at least 1 layer"). The third stage is then given a layer that does not exist and the last one none.
  `FewLayers` is the bound below which `StagesTileTheModel` shows that this cannot happen.

Other things the properties have to except, or do not claim, and what the repository says:

- The hardware exchange stops when a node comes back early (`SetUpEnds` excepts it), while
  hardware.py:4-6 and README.md:107 present the exchange as working.
- `BaseTrainer` skips a batch at a closed gate, so that labels and outputs shift (`LabelsMatch`
  is of `BaseTrainerFullAsync`), while docs/train.rst:223-225 says that the same order of
  data on root and leaf pairs each instance with its true label.
- Providers of one ring that begin different numbers of rounds wait for ever: the trigger counts the
  provider's own passes (node.py:616), and the poll has no timeout (communication_grpc.py:391).
  `OnlyLateRoundsAreWaitedFor` names this as the only wait that may not end.
- Gradients that the root erases (`GradientsAreApplied` is of stems and leaf) and processes nobody
  knows of after a second background start (`NoStrays` excepts them) contradict no line found.

## 6. What is not modelled

- A restart of the coordinator. Versions begin again at 1, which contradicts what Membership
  promises; no code handles it.
- In Cadence: more than two workers, lost calls, and the pause after a lost connection, which makes
  a worker look for a new version every 5 seconds instead of every 10.
- In Serving: a peer that crashes and closes its sockets between two reconfigurations. Its
  neighbours then run on with zeros, and zeros that the root takes for tokens reach the client.
- A peer of an old version that is accepted for a new one (`communication_dynamic.py:208`):
  Serving exchanges all connections at once, and Sessions is of one version. A process that
  exits between connecting and sending its rank.
- Micro-batches, which need longer requests than the API admits, and `MemoryTracker`.
- Requests beyond `max_seq_length_during_gen`, which the API server refuses, and with them the
  allocator's branches for a full or fragmented pool.
- `entrypoint.py`'s own loop for a non-root node (wait and call `generate` again), which is the
  worker's without its pause.
- Reuse of process ids, and a second Ctrl-C while a command waits for its nodes.
- Docker commands of the command line: they write a compose file and call docker. `doctor`, `bench`,
  `pull`, `version`.
- Floating-point arithmetic: proportions, fitness and thresholds are integers of a fixed
  denominator. The averaging of optimizer states, which takes the path of the parameters.
- Ring averaging inside `Training`: what triggers a round, and the new parameter version after it
  (node.py:620-626).
- The error paths of `get_hardware_info` (hardware.py:31 and :43).
- Code that nothing calls: `_connect_to_peers`, `add_node`, `remove_node`,
  `assign_connection_targets`, `recompute_forward`, the converters of `operations/utils.py`.
- The contents of models, prompts and tensors; kernels and lazy initialisation; LangChain;
  generated code.

## 7. What is left

- A coordinator that restarts, with an abstract specification in which numbers may begin again.
- Connections of two versions at once, which would split `Reconfigure` of Serving into the
  steps of each worker and compose it with Cluster.
