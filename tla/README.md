# nyarix-runtime: TLA+ models, model checking and proofs

Nyarix is a Rust runtime that passes packets through a graph of modules. This
directory holds TLA+ modules for its core, TLC configurations that check them on
small instances, and TLAPS proofs of the properties that matter most. Paths are
relative to `src/crates/`. `PROJECT.json` lists the components, runs, mutants,
hazards and theorems, and maps each definition to the lines it models.

## 1. The system

### Components

| Component | State | Operations | What makes it correct |
|---|---|---|---|
| Execution engine (`nyarix-graph/execution.rs`) | per call: the tree of branch tasks, a semaphore; shared: the graph mutex, node queues, flow metrics | `execute_sequential`, `execute_parallel`, `walk_node`, `run_branch` | every call returns its own results; no task, permit, guard or packet is lost or left over |
| Node queue (`nyarix-graph/queue.rs`), priority queue (`nyarix-runtime/priority.rs`) | three or five bounded lanes | send, recv (biased), drain, closing | higher lanes first, FIFO in a lane, nothing lost |
| Graph node, edges (`node.rs`, `edge.rs`, `condition.rs`) | lifecycle state, queue, edge type and predicate | initialize, migrate, process, shutdown, accepts | initialize before process before shutdown |
| Flow graph (`graph.rs`), profile builder (`graph_builder.rs`) | nodes, edges, adjacency, entry/exit marks, allowed feedback edges | add/remove/connect/disconnect, find_path, validate, insert_after, remove_and_reconnect, swap_node, build_from_profile | adjacency agrees with edges; validate accepts exactly the well-formed graphs |
| Main loop (`nyarix-runtime/execution_loop.rs`) | phase, packet in hand, source, sink, node states | initialize_all_nodes, the `select!`, process_one, drain, shutdown_all_nodes, two timeouts | an in-order pipe that stops when told to |
| Pause, shutdown (`pause.rs`, `shutdown.rs`) | a watch value and its handles; a token | pause, resume, wait_until_*, cancel | a paused loop starts nothing; a cancelled one ends |
| Installer, cache, history (`nyarix-loader/installer.rs`, `cache.rs`, `rollback.rs`) | install tree, `packages.json`, `history.json`, in-memory indexes | install_package, record, evict_to_fit, save, open, record_install, rollback_package | what was reported installed is there; rollbacks go back |
| Scan, validation, resolution, load order (`nyarix-loader/lib.rs`, `validation.rs`, `conflict.rs`, `version_resolver.rs`, `dependency_graph.rs`; `nyarix-runtime/module_loader.rs`) | the module index, the report of a load | scan_directories, validate_package, load_modules, load_order | no file is lost from the report; what is loaded fits together |
| Instances and capabilities (`instantiation.rs`, `capability_enforcement.rs`, `sandbox.rs`, `nyarix-module-api/context.rs`, `capability.rs`, `rate_limiter.rs`, `io_policy.rs`) | instances, the registry, a token bucket, connection counts | enforce_and_instantiate, instantiate_and_register, the mediated I/O checks | nothing runs without its capabilities; the bucket bounds all requests |
| Events (`nyarix-module-api/event.rs`, `context.rs`) | a broadcast ring, subscriber tasks, the context's handles | publish, subscribe, on_event, cancel_subscriptions | delivery up to lag; subscriptions end with their owner |
| Package format (`nyarix-package`) | the entries of an archive, a trust store | add, sign, build, open, signature_status, classify | trust is earned by a signature over what is there |
| Packets (`nyarix-packet`) | handles on shared cells, a pool | clone, change, recycle, trace, encode, decode | a packet is a value; a recycled one has an id of its own |
| Telemetry (`metrics.rs`, `throughput.rs`, `export.rs`, `debug_dump.rs`) | counters, gauges, histograms, windows | look up, update, percentile, export, dump | nothing recorded is lost; the parts of an export fit |
| Pools, version switch, config, ids, logging | data | formatting, parsing, wrapping | see "Not modelled" |

### Interactions

The loop takes a packet from a tokio channel, locks the graph, runs
`execute_sequential` and sends the result to a second channel. A caller may
instead run `execute_parallel` on the same `Arc<Mutex<FlowGraph>>`, which locks
per hop, spawns a task per accepting Parallel edge and joins them. Both record
metrics through `Arc`s they look up in a shared registry, which a dump reads while
they run. Pause handles tell the loop to stand still while somebody mutates the
graph. All modules of a graph share one `RuntimeContext`: its mask, its bucket, its
event bus and its list of subscriptions, so one node's shutdown reaches the
subscribers of all. The loader keeps the install tree the modules come from, reads
its files twice when it loads them, and locks nothing; only the file system
connects two runs of its process.

### What is hard here

* Tasks of one call, and calls of one graph, interleave between `await` points:
  a node's queue is shared, and a packet received need not be the packet sent.
* The first failing branch aborts its siblings wherever they are suspended.
* A branch holds the graph mutex while it awaits its queue, and its permit while
  it joins its children.
* Cancellation, pause, closing channels and timeouts race with each other.
* Files are rewritten in place and directories deleted before their index is
  saved; the process may be killed between any two of these steps; a file may
  change between the scan that indexes it and the read that loads it.
* A subscriber is aborted while it handles an event, or falls behind the ring.
* Packets share their contents until one of them is changed.

`PROJECT.json` "hazards" lists each such point at its line with the properties
that would catch it going wrong.

## 2. Modules

| Module | Models | Extends / composes |
|---|---|---|
| `GraphExecution` | both engines, the node queues, the drain by shutdown | |
| `ExecutionLoop` | the loop, pause, token, channels, node lifecycle | `INSTANCE PacketPipe` |
| `PacketPipe` | the abstract promise: an in-order, lossy, non-duplicating pipe | |
| `PackageStore` | installer, cache, history, crash and reopen | |
| `FlowGraph` | the topology, every operation that changes it, and the builder | |
| `FlowGraphSearch` | `detect_cycle`, `find_path`, `validate`, apart because they recurse | `FlowGraph` |
| `ModuleEvents` | the event bus, subscriptions, and the node lifecycle that cancels them | |
| `ModuleAccess` | enforcement, instances, the registry, the mediated I/O checks | |
| `DependencyOrder` | the dependency graph and its depth-first search | |
| `ModuleLoading` | `load_modules` beside changes to the directories | |
| `ModuleLoadOrder` | the load order of what was loaded | `ModuleLoading`, `DependencyOrder` |
| `PackageFormat` | archives, signatures and trust | |
| `PacketLife` | packets, the pool, the wire format, the priority queue | |
| `Telemetry` | the registry, the tracker, exports and dumps | |
| `MC...` | the constants of the runs of the module named after `MC` | that module |
| `GraphProofs` | the theorems about `GraphExecution` and `FlowGraph` | both |
| `LoaderProofs` | the theorems about `ModuleLoading` | that module |
| `ModuleApiProofs` | the theorems about `ModuleAccess` and `ModuleEvents` | both |
| other `...Proofs` | the theorems about the module named before `Proofs` | that module |

Definitions whose comment begins "Mutant of" or "mutant:" are faulty versions of
the definition named there or standing next. No specification uses them; each
shows that a property notices the bug.

### GraphExecution

A *branch* is one `run_branch` future, named by its call and the sequence of
Parallel edges it forked along (a branch forks at most once, because
`run_branch` returns the joined results). `pc[b]` is the await point the
future is suspended at; one action runs it to the next one:

| Action | Code |
|---|---|
| `Enter`, then `StartParallel` or `Refuse` | `execute_parallel`: the entry is counted before the lock is awaited, and checked under it |
| `StartSequential`, `RefuseSequential` | `execute_sequential`: both at once, under the caller's guard |
| `Acquire` | a spawned task's `acquire_owned().await` |
| `Validate`, `Send`, `Relock`, `Recv` | `walk_node`: payload check and sender clone under the lock; `send().await` without it; the lock again; `recv().await` with the lock held, then `process` and routing |
| `JoinOk`, `JoinErr`, `JoinEnd` | `join_next`: collect, fail at once (dropping the JoinSet), or finish |
| `Cancel` | the runtime drops an aborted task: guard, permit and its own JoinSet go, a packet already sent stays |
| `Hop`, `HopRefused` | one iteration of `execute_sequential_inner`, under the caller's guard |
| `Shutdown` | `shutdown_all_nodes` draining the queues under the lock |

What `process` does is a choice bounded by constants: nodes that may absorb,
fail, panic, retag, or reject by size. A packet is its origin and its lane.
Metrics of single nodes are in `Telemetry`; the flow counters are here. The graph
does not change during a behaviour.

### ExecutionLoop and PacketPipe

`pc` follows `run_with_timeout`. A biased `select!` polls its branches one after
the other while other threads run, so each poll is a step and a cancellation may
fall between two of them. `phase` distinguishes the main loop from the drain,
which share `process_one`. The environment sends, consumes, closes either
channel, pauses, resumes, drops the handles, cancels and holds the mutex. Either
timeout may elapse whenever its future is pending. `sincePause`, `sinceCancel`,
`processed` and `atStop` are observers that no guard reads.

The refinement maps `accepted` to the packet in hand followed by the source,
`forwarded` to what was received followed by the sink, and `stopped` to the loop
having returned.

### PackageStore

A slot is `<root>/<name>/<version>/`; a file in it is Absent, Torn or the build
that wrote it (`fs::write` truncates first, so a write that fails or is killed
tears the file). `install_package` is one step per write, each of which may
fail; `remove_dir_all` may fail anywhere in a directory. `Crash` forgets memory at any point; `Open` reads both indexes, refuses a
torn one, and scans any subset of the readable version directories, because
callers choose which roots to scan. `RecordInstall` follows a reported
`Installed`, as the doc of `record_install` asks; it may also never happen.

### FlowGraph and FlowGraphSearch

`graph` is the struct's fields: the edges Vec and the adjacency index as the two
sequences they are, the rest as sets; edge types and conditions take no part.
`AddNode`, `RemoveNode`, `Connect`, `Disconnect`, `MarkEntryPoint`,
`MarkExitPoint`, `AllowFeedbackEdge`, `InsertAfter` and `RemoveAndReconnect` are
the methods of these names, each run to its end because they take `&mut self`,
with what the first failing `connect` leaves behind (`ConnectAll`). `Only` is
`retain` and `filter`. `outcome` is what the last
one returned. Ids are chosen by the callers, so one in use may be added again and
a mark may name an absent node, as `add_node` and `mark_*` let them. `Build` is
`build_from_profile`, for every stack of distinct nodes and types, unknown ones
included. The searches are evaluated in every state, `detect_cycle` for every order
in which the HashMap may yield the nodes.

### ModuleEvents

`published` is every event sent, of which the ring keeps the last `RingSize`. A
subscriber is a task with a cursor into it: idle at `recv`, being polled, or
suspended in an async handler. `Wake`, `Poll`, `HandlerDone` and `HandlerTimeout`
are the loop of `subscribe_async` (and of `subscribe`, which has no timeout but no
await in the handler either); `Lagged` moves the cursor to the oldest event kept.
An abort (`CancelSubscriptions`) marks the task and `Cancelled` ends it, at its
next yield. The lifecycle calls of the nodes, which share one context, are two steps
each, because the module subscribes while its `initialize`, `migrate` or `shutdown`
runs and subscribers run beside it; `EndMigrate` is `swap_node`. As in `node.rs`, no
call looks at the state the node is in: a stopped node may be initialized again, a
running one too, and shut down twice. Every call may fail. A panic of one takes the
context along, which the loop owns (`execution_loop.rs:156`).

### ModuleAccess

One step is one check. `Enforce` is `enforce_and_instantiate`, `Register` is
`instantiate_and_register`, which checks nothing; `Initialized` is what `initialize`
returned, a caught panic included. `CheckDenied` and `CheckLimited` are the file,
network, dns and bind checks with the capabilities they ask for in order, the
bucket, the whitelists and the connection that may follow. A token is counted in
`Unit` parts so that a refill in the middle of one is exact, where the code uses an
`f64`. `acquired` and `conns` are observers.

### ModuleLoading, ModuleLoadOrder and DependencyOrder

`load_modules` is the scan of one directory after the other (`ReadDir`, then
`DiscoverOne` for each listed file, in any order, as `read_dir` has none), the second
read of each indexed file (`ReadOne`) and the validation of one candidate after the
other (`ValidateOne`, of the one at `turn`); `Change` replaces, tears or removes a
file anywhere in between. A file is an inode, which two paths may lead to: a link,
or a directory given twice under two names. Versions are small numbers and a
requirement is the set of versions it matches. `Resolve` is the choice among API
versions with its fallback. `DependencyOrder` is the search over the names that
validated, with the cycle it reports; it recurses, so `ModuleLoadOrder` joins the
two apart from what the proofs use.

### PackageFormat

An archive is the sequence of its entries: a path may occur twice, and `open` and
`read_entry` disagree on which counts. `Build` writes each path the way tar does,
without a leading `./`, so what was signed under such a spelling is read under
another. `signable_bytes` sorts with `sort_unstable_by_key`, which leaves equal paths
in an order of its own: `Place`, a constant, is any such order, as long as it depends
on the paths and their positions alone (the sort sees no more, and is deterministic).
Signatures are ideal: one names its key and what it covers, and only `Sign` makes one.
`Corrupt`, `Lose` and `Swap` are what happens to a file between builder and reader;
`Trust` registers a key at any moment.

### PacketLife

A handle points to a cell; `Arc::make_mut` copies a shared cell first
(`MakeMut`). A handle is held by a task, kept by the pool, or waits in a lane. Time is
in half milliseconds so that the conversions to whole ones round, as they do in
`encode` and in the trace. `session` stands for `session_id`, `flow_id` and `stream_id`,
which `Metadata::new` makes together and a maker may replace (`with_session`,
`with_flow`). `Release` replaces payload and id and keeps the rest, these three
included; `given` notes the sessions a second packet was given, so `SessionsApart` says
that they mix nowhere but there. `pushed` notes that `trace_push` added hops.

### Telemetry

Recording a metric is two steps, the lookup that returns an `Arc` and the update
behind it. `plan` fixes which calls are parallel (the graph is theirs for a hop),
sequential (for the whole call), or with a tracker only. An export copies the
registry entry by entry, counters, then gauges, then histograms; a dump does so
with the graph in hand and then reads the nodes' metrics again. Rates are whole
bytes per tick. A call leaves with a latency if its packet reached an exit point, and with
`packets_dropped` from everywhere else: a refused entry or payload, a node that absorbs
or fails, a budget exceeded, a dead end.

## 3. Runs

Passing runs (distinct states in brackets):

| Run | What it shows |
|---|---|
| `parallel_faults` (337,803) | two overlapping parallel calls on a diamond, `max_concurrent_branches` 0, one node failing, one rejecting or panicking, a drain by shutdown at any point, and a call, made once the two have returned and maybe beside branches they aborted, refused at a node that is no entry point. Queues hold a packet per branch that waits for one until they are drained (`QueueCoversOwed`), and exactly the owed and the abandoned packets (`NoForgedPackets`); no task outlives its JoinSet (`NoStrayBranch`); permits are conserved (`PermitsConserved`); an Ok call joined all and returns exactly its leaves' packets (`ResultsComplete`) |
| `mixed_calls` (46,221) | a parallel and a sequential call overlap on a nested fan-out with routing, retagging, dead ends, a limit, a failing and a panicking node, scheduled fairly; a later sequential call is refused. One owner of the mutex (`LockOwner`), every packet counted once more unless a panic unwound its call (`FlowAccounted`), every call returns and leaves neither tasks nor permits nor a guard behind (`CallsSettle`) |
| `execution_loop` (486,368) | all events together, scheduled fairly: at most one packet starts after a pause or a cancellation (`AtMostOneLate`); `LifecycleOrder`; when a run that was not forced returns, no node is running and all that was sent before the main loop ended has been processed, unless the sink is gone (`LeavesNothingBehind`); the loop implements `PacketPipe`; cancelled or closed it returns, and each packet sent is served or the run returns, unless the loop is stuck for ever in one of the three ways that `Stuck` names (`LoopProgresses`) |
| `package_store` (4,250,681) | failed, killed and retried installs of three builds beside rollbacks, records, saves and evictions: what is reported Installed is there (`InstallCompletes`); two rollbacks in a row return to where they began, and each changes the version unless the store was reopened (`RollbackAlternates`); evictions go oldest first and spare what is listed (`EvictionSound`) |
| `flow_graph` (110,128) | every sequence of mutations and every profile: the fields agree (`GraphConsistent`), splices keep who reaches whom (`SplicesKeepPaths`), a failure changes nothing but in one case (`FailureKeepsGraph`); the searches agree with definitions over the edges, and what a profile builds validates (`SearchesAgree`) |
| `module_events` (1,442,434) | two subscribers on a ring of one, beside two nodes that share their context and are initialized, swapped and shut down in any order and again: a handler gets matching events once, in order, and misses only overwritten ones (`DeliversWhatIsKept`); once every node has been shut down, successfully or not, no subscriber of theirs is left that was not aborted, and Running means that the last call the present module was given is an initialize that succeeded (`LifecycleKept`); again and again a subscriber has caught up, and an aborted one ends, even if its handler never returns (`SubscribersServed`) |
| `module_access` (1,225,472) | two instances of either module, every check, every tick: no window of time lets through more than the bucket and its refill, and the connection table counts what is open (`AccountsKept`); an enforced module is never refused what it declared (`NoLateDenial`); what a context resolves was initialized (`DependenciesInitialized`) |
| `module_loading` (1,205,109) | every content of three files in two directories, one file under two paths, one changing at any moment of the load: each listed path ends in exactly one place (`EveryFileAccounted`); what is loaded agrees on its dependencies and fits the Runtime (`LoadedFits`); no package whose part in the conflicts is its own is rejected for another's fault (`UnrelatedSpared`); the load order is topological, or a real cycle is reported (`GraphAnswers`) |
| `package_format` (2,509,203) | every archive of five members by two keys, changed, cut or rearranged twice: a trust level means its key signed the very bytes the archive has to show (`TrustIsEarned`); a package signed last verifies, also rearranged if no path occurs twice, and what verifies opens to the manifest that was signed (`SignatureCovers`) |
| `packet_life` (2,313,532) | two handles through the pool, the lanes and the wire: nobody is left with another's packet, recycled ids are nobody else's and sessions mix only in the pool (`HandlesAccounted`), sharing is never visible and nobody retags a queued packet (`PacketsAreValues`), an expired packet stays expired and a detailed trace has one ordered stamp a hop (`TimesSurvive`) |
| `telemetry` (1,121,037) | calls that record side by side with an export or a dump: `RecordsKept`, `ExportsAgree`, and percentiles in the bucket of the observation they stand for (`PercentileBrackets`) |

The violation run contradicts the lines of the documentation quoted in
`PROJECT.json` "findings": in `nested_semaphore`, with fewer permits than levels of
fan-out, a branch holds its permit while it joins children that each need one, and
the call never returns (`AllCallsReturn`).

A property built of several parts is one formula of named parts (`SearchesAgree`,
`SignatureCovers`); each part is commented where it is defined.

### Bounds

* `GraphExecution` needs no counter bound: graph and calls are finite and
  acyclic. `Path` lists the fan-outs branches can have. Two calls suffice for
  interference between calls; where branches converge, a lane of one packet makes a send wait
  for space; one
  permit makes branches wait for each other; two levels of fan-out make a branch
  both a child and a parent.
  `Late` names the calls made only once the others have returned: in both runs it is
  the refused one, which then meets at most what aborted branches left running.
* `ExecutionLoop`: `Packets` 3 (one in hand, one in each channel), `Pauses` 2 (a
  pause after a resume), source capacity 2, sink capacity 1 so the loop waits
  for space, two nodes so that one of several fails.
* `PackageStore`: two versions of one package, two builds of one version, one with a
  payload file and one with an entry that escapes `payload/`, one kill, two clock
  readings (ties and order); `MaxHistory` 4, the shortest history with two rollbacks.
  The proofs below hold for longer ones.
* `FlowGraph`: three nodes and `MaxEdges` 3 hold a cycle of three, parallel edges
  with one more, a self-loop with an edge in and out, and two-to-one and
  one-to-two splices; many-to-many, which the code refuses, is reached with
  parallel edges or a self-loop. `MaxMarks` 1 and `Markable` {m1} limit the
  marks of callers; the sources and sinks of a profile are marked on any node. The
  two others are interchangeable (`SYMMETRY`): no property or constant tells them apart.
* `ModuleEvents`: `RingSize` 1 and `MaxEvents` 2 make a subscriber lag, `MaxTasks` 2
  makes one of several be missed or aborted, two kinds and a filter for one of them
  make events not match. Two nodes share the context: what one registers after the
  other's shutdown must fall to its own. Calls on them are not bounded.
* `ModuleAccess`: a bucket of 2 that refills half a token per tick over
  `MaxTime` 3 empties, refills in part and fills up half; two instances of two names, one
  depending on the other, are started in either order and under one name;
  requests on both sides of port 1024 and of the whitelist; one connection each.
* `ModuleLoading`: the six manifests hold a cycle, versions that suit one requirer
  and not another, an optional dependency, one that is missing, an API too old and
  another platform; three files, one of them listed by both directories, hold a
  duplicate and one more; one change.
* `PackageFormat`: `MaxEntries` 5 holds two signings and a member between or after
  them; `MaxFaults` 2 changes or loses members, among them each of the signature's, and
  takes a manifest past a payload and another manifest. `MCPlace` turns equal paths
  round in some archives, so that case is reached: without its condition on several
  manifests `SignatureCovers` fails. The proofs hold for any number and any sort.
* `PacketLife`: two handles share or race; `MaxIds` 2 gives each an identity of its
  own; a pool and lanes of one are full at once; two writes and two hops, so that a trace has two
  stamps that differ; `MaxTime` 2 half milliseconds around a deadline at 1, on either
  side of a rounding. `new` gives each packet that deadline, the pool none. No caller
  chooses a lane itself (`Maintenance` is empty); the proofs hold with any.
* `Telemetry`: two recorders of one node and three users of a tracker of two flows;
  bounds 2 and 4 with durations 2 and 5 fill a bucket at its edge and the overflow;
  three ticks pass a window of two. A plan is two measured calls or three that only a
  tracker sees; the clock goes on (`Tick`) while one of the latter is to start, since
  nothing else reads it.

Deadlock is checked in `flow_graph` and in `mixed_calls`, where `Finished` stands
for the end of all calls. It is off elsewhere because the system really stops: a
loop that has returned, a load that is done, a store whose torn index it refuses to
open, a branch whose packet was drained, or a bound that is used up.

### Fairness

* `GraphExecution!Fairness`: for every branch, weak fairness of its steps and its
  cancellation together (an aborted task is polled once more, and dropped). tokio
  polls woken tasks, its mutex and semaphore are FIFO, and `abort` takes effect at the
  next await. `process` is assumed to return. Callers owe nothing: starting a call is
  not fair.
* `ExecutionLoop!LoopFairness`: strong fairness of the loop (the mutex is taken
  and given back by others any number of times; tokio's queue of waiters is FIFO),
  weak fairness of the timers and of the other user giving the mutex back.
  Nothing else is owed: who paused need not resume, and nobody need read the sink.
  So `LoopProgresses` has to say where the loop may stay for ever, and does: waiting
  for a resume or for space in the sink, where it notices no cancellation
  (`AwaitsOthers`), and polling for ever because the last handle went while it paused
  the graph (`Spins`). Without either of the two the property fails.
* `ModuleEvents!Fairness`: for every subscriber task, weak fairness of what drives it:
  waking, polling, its timer, and a cancellation being noticed. Handlers owe nothing:
  `HandlerDone` is not fair. Neither are publishers, nor the lifecycle calls.

## 4. Proofs

TLAPS checks these for every value of the constants that satisfies the named
assumption of each module (types and finiteness only). Each module of proofs shows
that an inductive invariant holds initially and is kept, action by action, and that
it implies the property.

**GraphProofs** (`GraphExecution`). `TypeCorrect`: `TypeOK` is inductive. Its difficult
conjunct is that permits stay natural, which follows from the guard of
`Acquire`. `LockOwnership`: `LockOwner` is inductive together with `TypeOK`;
each branch that changes its place takes or gives up the mutex in the same step.
`QueueAccounting`: `QueueCoversOwed` is inductive with `TypeOK` and `LockOwner`:
`Send` adds a packet and a creditor, `Recv` removes one of each, `Cancel` removes
only a creditor, and a drain ends the promise, as `down` records. The lemmas on
cardinality of the set of owed branches and on the depth of a queue carry the
arithmetic. `ReceiveNeverWaits` follows: a branch at `recv` is itself owed, so the
depth is positive.

`NoTaskStrays` and `OkIsComplete` need `TreeInv`, which says of each branch and its
children in turn how their places and results go together: a child is unborn until its
parent forks, a live one has a parent that joins it or is being aborted itself, and
those of a parent that returned Ok were never born or have been joined. `OneParent` (a
path names one parent) keeps a step of one branch out of the others' clauses.
`PermitConservation` counts the branches that hold a permit: each step that changes
whether one does changes `permits` in the other direction, and `Cancel` frees exactly
the one it holds. `FlowAccounting` counts the calls that have entered and not yet been
counted (`Uncounted`), which only the steps that begin a call, `RecordExit` and a panic of the root
change. `QueueExactness` strengthens `QueueCoversOwed` to an equation: `Send` adds one
to a queue and to what is due there, `Recv` takes one of each, and `Cancel` turns an
owed packet into an orphaned one. `ResultsAreComplete` is the sum over a tree: `ResultInv`
says that as long as no branch of a call has failed, the packets that its branches hold
and nobody has joined yet are as many as its leaves hold (`Tallied`), counted as pairs
of a branch and a number so that a join moves pairs and loses none. A root that returns
Ok has joined all, so what it returns is all there is.

(`FlowGraph`). `GraphsConsistent` needs only that its own property, as `Sound`, is
kept by each step an operation is composed of: a node more, a node less, an edge more,
and one edge less. Two facts carry these. Filtering goes element by element and
distributes over concatenation (`FilterAppend`, `FilterConcat`), which relates what
`remove_node` retains of the edges to what it retains of the adjacency (`NoneOf`,
`OthersOf`). And the edge that `disconnect` takes is the first of its ends, so that the
entry `RemoveFirst` takes of the adjacency is the one at the same place (`EdgeGone`);
with a later parallel edge the two orders would differ. A profile's nodes and
a list of connections are computed step by step: `Recursion` says that such a
computation exists, `SameSteps` that it is unique, and `Connecting` that it stays sound
wherever it stops. `FailuresKeepGraph` needs `Sound` of the state before:
`insert_after` cannot fail once it has begun, since both ends of each edge it connects are
in the graph; `remove_and_reconnect` can, but only at a bridge that names the node that
is gone. Then the node had an edge to itself, and as it has one predecessor or one
successor, the very first bridge is refused and nothing else has changed.

**ExecutionLoopProofs.** `TypeCorrect` includes that a packet is in hand exactly at
the places that process or send one. `LifecycleOrdered` needs `NodesRun`: from the end
of `Initialize` to `ShutdownNodes`, at every place and not only while processing,
every node is Running. `LoopImplementsPipe`: initial states map to initial states, and
every action maps to `Accept`, `Forward`, `Drop`, `Stop` or a stutter under the
mapping above. `AtMostOneLateTaken` needs `LateInv`: where the loop has polled the
token in vain, and while it is not cancelled at all, no packet was counted since a
cancellation; where it polls the source, none since a pause. So only an event between
two polls of one `select!` lets a packet through. `NothingLeftBehind` needs
`SettledInv`: a loop that returns has shut every node down unless a timeout forced it
(`NodesSettled`), and before `Initialize` none was started; and `ProcessedInv`: until a
timeout drops one, the packets processed, the one about to be and those in the source
are all that were sent, so that a drain that finds the source empty has processed
what was sent before it began.

**PackageStoreProofs.** `InstallsComplete` needs `InstallInv`: while an install is
at step k, the archive and the first k - 1 payload files are its own; no other
action touches the disk while an install is under way. `RollbacksAlternate`
needs `HistoryInv`: not only the history in memory but the saved one too has the
property, as a crash and a reopening bring that one back; and `ChangesInv`: until
then the versions in a history are in the index and not `fresh`, so that the one
recorded next is none of them. `EvictionsSound` needs
`CacheInv`: the list in memory and the saved one name no slot twice. What is kept of a
list is enumerated in order (`Places`, `Retained`), so that both dropping an entry to
record it anew and dropping a prefix to make room are lemmas on positions; the sizes
(`Total`) of a suffix grow with it, so the first cut that fits is the shortest.

**LoaderProofs** (`ModuleLoading`). `LoadTypes` needs that the index names no version
twice. `LoadedFit` and `Spared` need `VerdictInv`: what was judged valid or invalid so
far is a candidate before `turn` for which `IsValid` holds or not, and that depends on
the candidates and the index alone, which no longer change; the rest is about
`IsValid`, its conflicts and the two resolvers. `FilesAccounted` needs `PlaceInv`: each
listed file is in one of five places, still waiting, among the duplicates, the errors or
the rejected, or loaded, and in each of them once; a step moves one file on.

**ModuleApiProofs** (`ModuleAccess`). `AccountsAreKept`: the bound on every window of requests is
not inductive. `TokensAccount` says what the tokens in hand are worth: from any
request on, the tokens left and those taken since never exceed the full bucket plus
the refill up to `lastRefill`. Connections are counted by the cardinality of the set
of those each instance holds. `EnforcementHolds` needs that an enforced instance runs
only if all it declared is granted (`DeclaredGranted`) and that only what is not
granted is denied (`DenialsFounded`); the mask itself never changes.
`ResolvesInitialized`: what is registered is live and has that name
(`RegistryLive`), so what is handed out is live and unique under its name
(`DepsLive`), and nothing live ever stops being so.

(`ModuleEvents`). `LifecycleHolds` needs `ListedUntilAborted`, that a
subscription not yet aborted is still in the context's list, and `ListEmptyAtRest`,
that between calls the list is empty once all nodes are shut down: every call that
returns without emptying it leaves its own node in another state (`CallMarksNode`
says so of `initialize`). `DeliveryHolds` strengthens what a handler
got with `Positioned`: the cursor lies between the start of the subscription and the
tail, and everything handled is behind it.

**PackageFormatProofs.** `TrustEarned` needs that every signature in the archive is
one `Sign` made (what others add or damage is never one), and that the entry
`signature_status` looks at exists, for which the lemma `HasLeast` (a nonempty set of
naturals has a least element) finds the first entry at a path. `SignaturesCover`: what
`signable_bytes` covers is a set of items, each with the place the sort gave it among
those of its path. The sort tells equal paths apart (`SortAssumption`), so two archives
with the same items whose paths stand alike have the same content at every position
(`PlacesTell`), and the last manifest, which `open` returns, is the same
(`SameManifest`); with one manifest it is the same wherever it stands. `Sign` appends
nothing covered, so a first signature verifies (`SignVerifies`); with no path twice the
sort has nothing to choose, and a rearranged archive looks alike (`RearrangedAlike`).

**PacketLifeProofs.** All three theorems rest on `LifeInv`, which says for every handle
which cell it points to and where it is (`Referenced`, `HandlesSound`, `Placed`): held,
pooled once, or queued once. A pooled packet has an id nobody else's packet
or encoding carries (`RecycledRenamed`), a queued one the lane of its tags
(`QueuedByTags`), and what is on the wire came from a sound value (`WireSound`), whose
trace is in order, one stamp a hop, and within the packet's age (`Timely`).
`SessionsApart` is kept because what a step makes visible is new, says of itself what
something visible said before, or is recorded in `given` (`SeenApart`). `PacketsAccounted` is a consequence.
`ValueSemantics` and `TimeSurvival` are about steps: one lemma per call shows that
it keeps `LifeInv` and leaves what every other handle reads (`OthersKept`); the
rounding of the wire is integer arithmetic on half milliseconds.

**TelemetryProofs.** `ExportsConsistent`: what an export saw is related to what was
being recorded meanwhile. `ExportInv` has four parts. `OneHop`: at most one call is in
a node, as it has the graph. `Listed`: what that call has left to record for the node is
an end of the list calls, duration, depth, error, and nobody else has anything to
record for a node. `Gaps`: hence a node's calls exceed its durations by at most one,
and only between these two updates, and its errors never exceed its calls. `Copied`:
the calls an export copied exceed by at most one the durations observed by now, or those
it copied, which are copied later; and while a dump has the graph, what it copied
of the nodes is what the registry still has.

`NothingRecordedIsLost` needs `RecordInv`. Every registered counter is the sum of what
was recorded under its name, a gauge the last of it, a histogram its count in each
bucket (`Kept`), and the one cell the registry has is the only one made (`Cells`).
`WindowInv` is about the tracker: windows are in order and no longer than the window,
and the total agrees with the flows not only now but for every later cutoff
(`Agreement`): the sum of what is not older than any `t` is the same in the total and
over the flows. Only so does it survive that each window is pruned when it is
written, at different times. `PercentilesBracket` follows from the invariant by the
lemma that the bucket a rank falls in is the one of the observation of that rank
(`CumulativeReached`). The lemmas on sums (`SumInserted`, `SumGrows`, `SumDropped`) are
inductions over prefixes, each done with `HasLeast`: the shortest prefix where the
claim fails cannot be.

Only model-checked, and why:

* liveness (`CallsSettle`, `AllCallsReturn`, `LoopProgresses`, `SubscribersServed`),
  which the prover does not reach;
* what the recursive searches compute (`SearchesAgree`, `GraphAnswers`) and the paths
  they are about (`SplicesKeepPaths`): the modules that declare them are beyond the
  prover, and what they compute is induction over data.

## 5. Observations beyond the runs

What the modelled code does that its documentation, or a reader, might not expect.
The models show these with one constant or one conjunct changed, or they were met
while reading the code for them; no run is kept for them.

Engine and graph

* A branch aborted between its send and its receive leaves its packet in the queue;
  a later call, although alone, gets it (`execution.rs:382`, against lines 275-276),
  or finds the lane full and waits for space, for ever if nobody receives there
  (lanes of 2 packets spare `mixed_calls` that; with lanes of 1 `CallsSettle` fails).
* A drain between send and receive makes `recv` wait with the graph mutex held,
  against "This always resolves without waiting" (`execution.rs:389`).
* A node that panics unwinds past `record_flow_exit`: the packet is neither delivered
  nor dropped in the metrics (`execution.rs:261`). An overrun of the declared time
  fails the call but is not among `errors_total` (`execution.rs:324`, `:408`).
* `remove_and_reconnect` of a node with an edge to itself has removed it when it
  returns MissingNode (`graph.rs:512`); `FailureKeepsGraph` names the exception.
* `remove_node` keeps the node's allowed feedback edges (`graph.rs:61`), and
  `insert_after` on such an edge makes two edges that are not allowed: the graph
  no longer validates (`graph.rs:428`).
* `swap_node` and `insert_after` install a module in a running graph without
  initializing it (`module.rs:16-18`), and `swap_node` calls `migrate` whatever the
  two versions are (`graph.rs:551`).
* The biased receive serves a lower lane only while the higher ones are empty. Once
  all senders of a priority queue are gone, `recv` returns None as soon as the first
  lane is empty; what waits in lower lanes is found by `drain` alone
  (`priority.rs:121-122`).

Loop

* The main phase's `sink.send` is bounded neither by the token nor by a timeout
  (`execution_loop.rs:291`); the drain does not look at the pause (`:245`).
* The wait for a resume is not raced with the token (`:227`, against 175-177): a
  cancellation while paused is noticed after the resume, or never.
* If the last handle is dropped while paused, the loop polls for ever and never
  receives, where `pause.rs:97-101` announces "an implicit permanent resume":
  `wait_until_resumed` returns, but the watch goes on saying paused.
* A packet sent while the loop drains or shuts its nodes down may be left in the
  source: `RemainderProcessed` is about those sent before the main loop ended.

Store and loading

* A kill between an eviction and `save` leaves a `packages.json` that lists
  deleted versions (`cache.rs:176`); a kill inside `save` leaves a file that does
  not open (`cache.rs:135`, `rollback.rs:186`).
* Two `Installed` records of one version make that version its own predecessor,
  and a rollback then changes nothing (`rollback.rs:236`), where lines 79-81 and 262
  document NoPreviousVersion for a package of which only one version was ever
  recorded. `Changes` holds until the store is reopened: a version the new scan missed
  is installed, and recorded, again.
* A rollback validates the archive only, not its payload (`rollback.rs:299`), which a
  torn re-install or an eviction that failed midway may have damaged.
* An install of a version already in the index has rewritten its files when it
  returns AlreadyInstalled (`installer.rs:70`, against `installer.rs:34`). Nothing
  takes an evicted package out of the index (`nyarix-loader/lib.rs:120`).
* `load_modules` drops the scan's duplicates without a word, so the gauges of modules
  loaded and failed omit them; a package is valid even if what it depends on is not;
  conflicts are narrowed by name (`module_loader.rs:181`), so one version is rejected
  for another's fault, against `module_loader.rs:137-142`; and a package that can do
  without a dependency falls with one that insists on it (`version_resolver.rs:123`),
  where `manifest.rs:54-56` says that is no error. `Unambiguous` names both cases.
* Of several versions of a name the dependency graph knows the last: what an earlier
  one lacks is not reported missing.

Modules, packages and packets

* One bucket serves every module, and a request the whitelist refuses has paid a
  token. Enforcement and the registry are two ways to start a module; no function
  does both. Enforcement publishes no `CapabilityDenied` event.
* One node's shutdown aborts the subscriptions of every module that shares the context
  (`node.rs:250`), also of nodes still running, where `node.rs:234` speaks of those
  "the module registered" and `context.rs:445` of "the lifetime of this context".
  Dropping the handle `subscribe` returns detaches the task (`event.rs:255`).
* Signing again after adding a member leaves a package Invalid: the first signature
  is the one read. `open` takes the last manifest, `read_entry` the first one
  (`archive.rs`). A package signed with a path like `./manifest.toml` is read under
  another and is Invalid (`archive.rs:72`).
* With a repeated path the signed bytes do depend on the order of the members, against
  `signing.rs:44-45`, and in a long archive on how an unstable sort leaves them
  (`signing.rs:53`): a signature then does not settle which of two manifests is last.
* `classify` returns whatever level a key is registered at, also those `trust.rs:70-73`
  says it never produces.
* A packet acquired from the pool keeps its predecessor's session, flow and stream,
  tags, trace, ttl and time of creation: `release` (`pool.rs:42-46`) clears the payload
  and renews the id only, where the comment at `pool.rs:90` has it clear the metadata.
  `SessionsApart` allows exactly this, so it passes with the leak in the model; without
  `given` in `Release` it fails. The pool's doc says lock-free, it has a mutex. The
  engine never calls `decrement_ttl` (`packet.rs:174-175`).
* `trace_timestamps` is parallel to the trace (`metadata.rs:88-92`) only if detailed
  tracing is on from the start and `trace_push` is not called besides. Time on the
  wire is not charged to a deadline.
* Over no elapsed time the rate is bytes per window, where `throughput.rs:122` says 0.0
  (a test wants it positive, `throughput.rs:155-161`); over a short one it divides by that,
  where the comment at 131-132 wants no tiny divisor. No property judges rates.
* Rates are not pruned when they are read, and a flow is never forgotten; a flow's
  rate can exceed the total's. `execute_parallel` bypasses the tracker. Metrics are
  named by module, so nodes of the same module share them.

## 6. Not modelled

* `io_pool.rs`, `cpu_pool.rs`: wrappers of tokio and rayon that nothing in the loop
  uses yet. `version_switch.rs`: one comparison that nothing calls yet.
* Configuration, identifiers, error types, logging setup, process memory and the test
  application: value types, parsing and I/O.
* Of modelled components: the per-edge channels, which execution does not use;
  `set_state` by third parties; `diff` of two graphs, which reports only; rendering
  to DOT and JSON; resource limits and sandbox permissions, which nothing enforces;
  the fields of a packet nothing interprets; Ed25519, tar and zstd, which are ideal.
* A graph mutated beside the engine (`execution.rs:387`), a rollback to a torn payload
  (`rollback.rs:299`) and the starvation of lanes (`priority.rs:123`) are hazards no
  property covers; the models show the last two, but nothing promises otherwise.

## 7. Plan

Done: the engine, the loop with its abstraction, the package store, the flow graph,
events and node lifecycle, capabilities and the registry, loading, the package
format, packets and telemetry; proofs of every safety property the runs check but
the three that are about searches. What is left, in order:

1. `FlowGraph` composed with the engine: nodes swapped, inserted and removed between
   the steps of a branch.
2. `diff` of two graphs against its definition, and `version_switch` once something
   calls it.
