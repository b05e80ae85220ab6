# Specifications of DynXX

DynXX is a C++23 SDK that gives applications on Android, iOS, HarmonyOS,
Windows, macOS, Linux and the web one C and C++ API for logging, storage,
networking, compression, crypto and JSON, and two script engines (QuickJS and
Lua) in which the same API is bound.  This directory holds TLA+ models of it,
the TLC configurations that check them, and proofs that TLAPS checks.

    tlc -config MCExecutor.cfg MCExecutor.tla     # any of the MC*.cfg files
    tlapm ExecutorProofs.tla                      # or any *Proofs.tla

Paths below are relative to `src/`; the core is in `src/core/`.

## 1. The system

An application, or a script inside it, calls down through layers that are
written by hand and mirror one another:

    script library   scripts/JS/DynXX.js, scripts/Lua/DynXX.lua
    script bridge    src/bridge/ScriptAPI.cxx, JSBridge.cxx, LuaBridge.cxx   (JSON text)
    binding          platforms/Android (JNI), platforms/HarmonyOS (N-API)    (platform values)
    C API            src/DynXX-C.cxx                                          (pointers)
    C++ API          src/DynXX-X.cxx                                          (C++ values)
    core             src/core/

| Component | State | Operations | Talks to |
| :-- | :-- | :-- | :-- |
| Executor, Worker (`core/concurrent/Executor.cxx`) | a pool of workers that grows to its capacity, a round-robin index, a mutex; per worker a queue, a mutex, a condition variable, a thread, a stop flag | `operator>>`, the worker's loop, the destructors | used by the JS VM |
| JS VM (`core/vm/JSVM.cxx`, `BaseVM.cxx`) | one QuickJS context, a `recursive_timed_mutex`, an executor, a cache of values | `loadFile`, `loadScript`, `loadBinary`, `callFunc`, `jAwait`, `newPromise…` | QuickJS, the executor, the host through the message callback |
| Lua VM (`core/vm/LuaVM.cxx`) | one Lua state, the mutex, libuv's loop and timers | `loadFile`, `loadScript`, `callFunc`, `Timer.add`, `Timer.remove` | libuv, the host |
| Connection pool (`core/store/ConnPool.hxx`) | a map from ids to `shared_ptr`s, a mutex | `open`, `close` (unused), `closeAll` | SQLite and KV stores |
| SQLite store, connection, result (`core/store/SQLite.cxx`) | a database handle, a statement and the current row | `execute`, `query`, `readRow`, columns | SQLite |
| Key-value store, connection (`core/store/KV.cxx`) | an MMKV instance, a `shared_mutex` | `read…`, `write`, `contains`, `allKeys`, `remove`, `clear` | MMKV, other processes |
| Log (`core/log/Log.cxx`) | level, callback, mutex; spdlog's level | `setLevel`, `setCallback`, `print` | the platform's log, spdlog, the host's callback |
| Zip (`core/zip/Zip.cxx`) | a `z_stream`, two buffers | `input`, `processDo`, `processFinished`; `process` over bytes, files, streams | zlib |
| HTTP client (`core/net/HttpClient.cxx`) | the handles and lists of one request | `request`, `download` | curl |
| JSON codec, coding, crypto, device, network type | none that outlives a call (a decoder owns a tree) | conversions and queries | cJSON, OpenSSL, WolfSSL, the platform |
| SDK lifecycle and C++ API (`DynXX-X.cxx`) | the root path and the global stores, client and VMs | `dynxxInit`, `dynxxRelease`, one function per operation | everything |
| C API (`DynXX-C.cxx`) | none | null tests, copies, ownership of results | the C++ API |
| Script bridges (`bridge/`) | the message callback, a promise per call on a worker | decode the parameters of a JSON text, call, encode the result | C++ API, engines |
| Script libraries (`scripts/`) | a stream's handle | one wrapper per function, zip streams | bridges |
| Bindings (`platforms/`) | the VM, global references, the callbacks | convert, call, release | the C API |

What is hard about it: worker threads that sleep and are woken, stopped and
joined; one recursive lock shared by JS code, native callers and the tasks that
settle promises, with calls that nest across the language border; handles that
are raw pointers to objects a pool owns, and that cross into scripts as texts; a
store shared with other processes; a logger whose parts are set up once, in an
order; two nested loops around a library that buffers; globals that are set and
reset while jobs use them; some four hundred functions in four layers that have
to name, type, take and give back the same things.  Nothing in the repository
tests these: its "tests" are example programs (`platforms/POSIX/DynXXPOSIX.cxx`,
`scripts/*/biz.*`).  `PROJECT.json` lists the hazards line by line.

What makes each component correct:

* Executor: every accepted task runs once, on the worker the round robin gives
  it, in order; no wakeup is lost; destruction ends.
* JS VM: the mutex is balanced over nested calls; a promise's record is not
  used once it was deleted; whoever waits for a promise should not hold what its
  task needs; calls return and promises settle.
* Stores: a handle names a live connection, one per id, until it is closed;
  connections are deleted once; calls on a key-value connection are atomic.
* Log: a message arrives whole, in order, at the level and sink that hold.
* Zip: success means that all input was consumed and all output written.
* Lifecycle: a release leaves nothing behind; a callback of the application
  does not outlive what it uses.
* Bridges and libraries: an argument given in a script arrives; a handle is the
  same object on both sides; what is encoded can be decoded.
* Bindings and C API: on every path a call gives back what it took, and nothing
  else; null is tested where it can come from.

## 2. The modules

| Module | Models | Size of its instance |
| :-- | :-- | :-- |
| `TaskPool` | what the executor promises: tasks in lanes, round-robin, in order, at most once | abstract |
| `Executor` | the executor and its workers, step by step; implements `TaskPool` | `MCExecutor`: 2 clients, 2 workers (which submit too), 3 tasks |
| `JSVM` | the JS VM's lock, calls, loads, promises and event-loop tasks on top of `TaskPool` | `MCJSVM`: 2 host threads, 1 worker, 2 promises, calls nested once |
| `Store` | the pool and the handles of the C API, init and release | `MCStore`: 2 clients, 2 ids, 3 connections |
| `AtomicKV` | a key-value store whose calls take effect in one step | abstract |
| `KVConnection` | a connection's calls under its `shared_mutex`; implements `AtomicKV` | `MCKV`: 3 threads, 2 keys, 2 values, one other process |
| `Log` | level, callback, blocks, file sink | `MCLog`: 2 threads, 2 messages of one and three blocks |
| `Zip` | the loops that drive zlib | `MCZip`: inputs of 1 to 8 bytes, up to 2 of them after the stream's end, buffers of 3 |
| `Lifecycle` | `dynxxInit`, `dynxxRelease`, jobs of scripts under way, Android's log callback | `MCLifecycle`: 2 threads that log, 2 jobs, 2 references |
| `ScriptApi` | every function bound into the engines: its parameters, in stages, their nodes and what it returns | operators |
| `ScriptLibs` | every wrapper of the two script libraries: what it calls and which keys it writes | operators |
| `ScriptCalls` | a script's session over the two: handles, promises on workers, zip streams, data that is converted | `MCScripts`: both engines, every function |
| `CApi` | every function of the C API that a binding calls: null arguments, ownership of the result | operators |
| `CallSteps` | calls as sequences of steps that take, call, copy and give back | operators |
| `JniCalls`, `NapiCalls`, `NativeCalls` | every function of the Android and the HarmonyOS binding, and the calls of the HTTP client and of crypto into their libraries, as such sequences | operators |
| `Ownership` | one call at a time through them, with every failure | `MCOwnership`: both bindings and the native calls |
| `ExecutorProofs`, `JSVMProofs`, `StoreProofs`, `KVProofs`, `LogProofs`, `ZipProofs`, `ScriptProofs`, `SdkProofs` (of `Lifecycle` and of `Ownership`) | the inductive invariants and the theorems | for all values |

`JSVM` does not repeat the executor: it uses the actions of `TaskPool`, and
`Executor` is proved to implement `TaskPool`, so that the two compose.
`ScriptCalls` composes the bridge with the libraries on top of it, `Ownership`
the bindings with the C API below them.

Operators whose comment begins "A slip" are not part of a model.  They are
the mistakes a programmer could make in the definition that follows them, and
are there so that each property can be seen to fail when the code is wrong.

### How state and actions correspond to the code

*Executor.*  Variables are the members of `Executor` and `Worker`, a program
counter for each thread that submits (`spc`), for each worker (`pc`) and for
the destructor (`dpc`).  A critical section that other threads enter on a
worker's mutex is one step; the worker's own spans `WaitTest`, `Block` and
`Take`, so the mutex is free unless the worker is between them.  `Block` is the
atomic release-and-sleep of `cv.wait`; a notification moves a sleeper back to
the lock, and wakeups may be spurious.  Running tasks may submit, as JS tasks
do.  `HasJthread` chooses between the two builds of `Executor.cxx`.

*JSVM.*  Each thread has a stack of frames, because native code and JS call one
another: a frame is an activation of `callFunc`, of a load, the task of
`newPromise`, or one of the two tasks the constructor submits for QuickJS's
event loop (`Loop`), which occupy a worker from the start.  `Lock` and `Unlock`
are one level of the recursive mutex.  A loop's task takes it if it can (`Enter`)
or gives up (`GaveUp`); what QuickJS runs in it may make promises and call the
host, and `LoopOver` is its end.
`NewPromise` and `PromiseMade` are the two halves of `newPromise`, before and
after the worker can see the record.  `AwaitOver` is the last poll of `jAwait`;
the polls before it change nothing.  A call that is nested in another keeps its
caller's level while it awaits; `Blocks` says when that stops everyone.

*Store.*  `Find`, `Create` and `Emplace` are `ConnPool::open`, which holds the
pool's mutex while the creator opens the database; `Get` is `weak_ptr::lock`
and `get` in the C++ API.  `Close` deletes the object behind the handle and
leaves the pool as it is, as `dynxxStoreSqliteClose` and `dynxxStoreKvClose` do.

*KVConnection.*  A call locks, acts and unlocks; a read acts in two steps,
`containsKey` and the getter.  Another process changes the file at any time.

*Log.*  `setLevel` is two steps, the file sink's preparation and the store
under the mutex.  `print` locks, filters, delivers block by block and unlocks.

*Zip.*  `Read` is `readF` and `input`, `ProcessDo` a call of zlib, `Write` the
output and the two loop conditions.  zlib is external: `Deflate` and `Inflate`
say what its manual promises (it stops only for want of input or of room, keeps
what it likes until it is told to finish, and reports the end once).  Inflate
stops at the end of the compressed stream, however much input is left: `tail` is
how many bytes of the input come after it.  Bytes are counted.

*Lifecycle.*  One variable says which step of its call the application has
reached; each assignment of a global pointer is a step (`InitStep`,
`ReleaseStep`, in the code's order), because jobs (`Submit`, `Start`, `Test`,
`UseStore`) test such a pointer and use it later, and settle their promise in the
VM's context (`Settle`).  `ReleaseJs` is the body of `~JSVM`, which frees the
context, `JoinJs` the join that its base class does after that.  `freed` becomes
true when a job uses a store or the context after its end, and nothing happens
after that.  `Start` takes the VM's mutex, which a worker holds for the whole of
a job.  `SetCallback`, `SetRef` and
`SetMethod` are the three assignments of `logSetCallback`, `Unload` to
`ForgetRef` those of `JNI_OnUnload`; `Deliver`, `Enter` and `CallMethod` are a
message on its way through `log_callback`.

*ScriptApi, ScriptLibs, ScriptCalls.*  A JSON text is a function from keys to
kinds of nodes: absent, null, boolean, number, text, empty text, the text of an
address, array, array without elements.  A bound function is the sequence of
the groups of parameters it reads before it tests them; a wrapper is what it
calls, what it sends and whether it parses the answer.  `Call` is a synchronous
call, `Submit`, `WorkerBegins` and `WorkerEnds` a call of `DEF_API_ASYNC`.  An
open may fail, and its text is then empty; a script may pass that text all the
same, and may close an object while a worker still has a call on it.  The only
thing it is trusted with is to forget a handle it closed itself.  A call that
dereferences what is no live object is the last of its session (`Defined`).
`StreamStep` follows the loop of
`DynXX.Z._.stream`, whose every call may fail; `Apply` is an encoder or decoder
on the data of a script.

*CApi, CallSteps, Ownership.*  A resource of a call (an argument's copy, the
result, a library's object) is not had, held, null, a literal of the program,
lost or given back; a list may also be held without texts (`bare`) or with a null
in it (`hollow`).  A binding is the sequence of its conversions, the C
function, the copy of the result and its releases (`BindsOn`): `program` is that
of the call in progress, `position` the step it does next; what the C function does with null is looked up in
`CApi`.  An argument may be left out where the Kotlin
declaration has `?`, or on HarmonyOS, whose arguments go by position, together
with all that follow it (`omits`); it may be refused where N-API may throw.  The
lists of mimes and data of a form are made, and their texts freed, by the count
of the names (`Counts`), so that a list that is null is read when the names are
not (`ListIsNull`, `NoneCounted`); a library call may fail,
and then what its error path gives back is given back.

## 3. The runs

Passing runs:

| Run | Properties | What they say |
| :-- | :-- | :-- |
| `executor` | `NoLostWakeup`, `IndexInPool`, `ImplementsTaskPool`, `EveryTaskRuns`, `DestructorReturns` | The notification after the unlock is enough; the index never leaves the pool while it grows; lanes, order and at-most-once; every accepted task runs unless the executor is destroyed; destruction ends |
| `jsvm` | `LockBalanced`, `RecordOutlivesNewPromise`, `NestedAwaitNeverEnds`, `EveryCallReturns`, `EveryPromiseSettles` | The lock is balanced; `jPromise->p` is read from a live record because the caller of `newPromise` holds the lock its task needs; a nested call that awaits a pending promise while its caller holds the lock stays there, whatever anybody does; unless one does so, polling callers, the worker and the event loop's tasks let one another through: every call of the application returns and every promise settles |
| `store` | `HandlesLive`, `NoLeak`, `OpenSucceeds` | While nobody closes an id its handles are live and shared; each live connection has one owner; concurrent opens of one id both succeed |
| `kv` | `ImplementsAtomicKV`, `EveryCallReturns` | The calls of one process are atomic; once no new calls come, all that are under way return, writers that waited for overlapping readers among them |
| `log` | `BlocksTile`, `DeliveredWithinLevel`, `EveryCallReturns` | Messages arrive whole, unmixed, to one sink; neither level nor callback changes between the filter and the delivery |
| `zip` | `SuccessIsComplete`, `ChunkConsumed`, `Terminates` | Success is the whole output of the stream; no chunk is read before zlib has consumed the one before, or come to the stream's end; the loops end |
| `lifecycle` | `CallbackRefLive`, `ReleaseLeavesNothing`, `OnlyReleaseFreesInUse` | The log's mutex, though the binding has no lock, is enough for the callback's reference; a release ends with no component, connection, callback or job, whatever jobs did meanwhile; a job may use what the release freed, but no later than its end |
| `scripts` | `ArgumentsArrive`, `ThrowsOnlyOnNonNumbers`, `DeadOnlyIfEmptyOrClosed`, `StreamReleases`, `RoundTrips` | Keys and types agree through three layers; an exception needs a number that is none; a call meets no dead object unless it was given the empty text of a failed open, or ran on a worker and lost its object to a close; a stream releases its object on every failure; encoders and decoders undo one another through the libraries |
| `ownership` | `GivesBackAll`, `FreesOnlyItsOwn`, `ReadsNoNull`, `PlatformsAgree` | Over all failures: no memory left, none freed that is not the call's own, no null read, the same C function on both platforms; each with the exceptions that section 5 lists |

A module's type invariant is checked by the run of each, but for `Lifecycle` and
`Ownership`, whose type invariants are proved.  Runs that show a disagreement
between the code and what the repository says of it:

| Run | Property | What happens |
| :-- | :-- | :-- |
| `executor_jthread` | `DestructorReturns` | "jthread automatically handles stop request and join" (`Executor.cxx:69`): it requests the stop and joins, but nobody notifies the condition variable |
| `store_close` | `NoDoubleDelete` | `dynxx_store_*_close` deletes what the pool still owns; the release deletes it again |
| `scripts_close` | `QueriesTheOpenConnection` | `scripts/JS/biz.ts:136` starts a query, which runs on a worker, and `:152` closes its connection: the query may find it deleted |

The properties of `scripts` and `ownership` name what is known to be otherwise
(`Mute`, `Unlike`, `Leaks`, `Crossed`) so that everything else is held to them:
a name leaves these lists when its code is repaired, and a function that is
added must satisfy the property or be listed.

### Bounds, and why they are enough

* Executor: with two workers the pool grows while the index wraps; three tasks
  put two in one queue; submitters are clients and running tasks, so the
  executor's mutex is contended.  A worker concerns one queue and one
  submission at a time, so a third adds symmetric copies.
* JSVM: two hosts contend for the lock with a worker, on which two promises and
  the two tasks of the event loop queue; both hosts may await; `MaxDepth` 2 and
  `MaxNested` 1 give one nested call per frame, on hosts and on the worker.  A
  level more repeats the same lock operations, and a second worker, with a queue
  of its own, the same contention: the safety properties are proved for any
  number of both.
* Store: three connection objects let both ids be opened, released and opened
  again while a creation fails.  The bound is the number of allocations.
* KV: two threads meet as two readers, two writers or one of each; with the third
  a writer waits for readers that overlap one another.
* Log: `MaxLen` is 2 where the code has 1023, so a message of 5 is three
  blocks, the last not full, and one of 2 is exactly one; levels below, at and
  beyond the limit are set, one of them out of range.
* Zip: with buffers of 3, inputs of 1 to 8 end before, at and after a chunk's
  end; a byte is worth up to two bytes of output, so the output buffer fills
  exactly, or several times per chunk.  The stream may end at any place of the
  input, also in the chunk before the last.
* Lifecycle: two jobs, one running and one queued when the release comes; two
  references, so that the callback can be set anew.  The counts only matter to
  TLC: the theorems hold for any.  Jobs and threads that log are symmetric.
* Scripts: a session keeps to one topic, because functions of different topics
  share no object, and opens one object of each kind; one call is on a worker at
  a time; `MaxTrail` 4 allows data to be encoded three times and decoded.
  Every combination of full, empty and left-out arguments is sent.
* Ownership: calls share no resource, so one at a time is enough; every
  argument takes every value, every failure happens.  Its constant only chooses
  the platforms, and the run takes all three.

### Fairness

Threads run: a thread that can take its next step eventually does (weak
fairness of workers, strong fairness of steps that need a mutex others take
and release again, since operating systems let every waiter of a mutex through
in the long run; the timed polls of `jAwait` retry without end and are treated
alike).  The `shared_mutex` of `KVConnection` is the exception: the standard
promises a writer nothing while readers come and go, so the steps of a call are
only weakly fair, and `EveryCallReturns` speaks of behaviours in which the
application makes finitely many calls.  Tasks, QuickJS's loops, JS functions,
callbacks and MMKV calls return.  Nobody is obliged to submit, call, make a
promise, wake spuriously or destroy.
`Lifecycle`, `ScriptCalls` and `Ownership` state safety only and have no
fairness.

### The application's part

The models assume what the API silently asks of its users:

* an executor is not destroyed while `operator>>` is under way;
* in `Store`, no other call is under way during `dynxx_init` and
  `dynxx_release`, and handles are not used afterwards; `Lifecycle` drops this
  for the jobs of scripts, which an application cannot hold back; a client keeps
  one handle per id;
* a log callback does not call the log;
* one thread of an Android application sets callbacks, initialises, releases and
  unloads (`Lifecycle`);
* in `ScriptCalls`, a script does not use a handle again after it closed it;
  nothing is assumed of what it does with a failed open's empty text, which
  becomes the pointer -2^63, nor of when it closes;
* in `kv`, other processes write but do not remove (`OutsideVal`); see below.

## 4. What is proved

TLC checks small instances; the theorems below hold for every value of the
constants that satisfies the modules' named assumptions.  None of the
properties is inductive, so each module of proofs states an inductive invariant
`IInv` and proves that it holds initially, that every step keeps it, and that it
implies the properties.

### Executor

`ExecutorProofs`, for any sets of tasks and clients and any capacity:
`TypeCorrectness`, `IndexAlwaysInPool`, and `NoWakeupIsLost` if `HasJthread` is
false (with `std::jthread` it is not true).  They rest on a positive capacity,
clients that are not workers and `NoOne` outside both.

* `MutexInv`: the executor's mutex is held by exactly the thread between
  `Dispatch` and `NotifyAndAdvance`, so that two submissions never interleave;
  without it the index could change under a submission.
* `CarryInv`: a thread inside a submission carries a task, a running worker
  runs one.
* `PoolInv`: the workers below `poolSize` exist and no others; while the pool
  grows the index equals its size, or one less in the middle of a submission.
  This ties the wrap of the index to the growth and gives `IndexInPool`.
* `LifetimeInv`: while the executor is alive no worker was told to stop, and
  once its destruction began no submission is under way.
* `BlockInv`: a worker between its test and its sleep saw an empty queue and
  no stop signal, and both are still so, because the mutex it holds keeps the
  others out.  This is why notifying after the unlock loses nothing.
* `WakeupInv`: `NoLostWakeup`, for `std::thread`.

The second part of the module proves the refinement, `ExecutorImplementsTaskPool`: `Spec`
implies `TaskPool`'s specification, under the mapping that `Executor` gives and
both kinds of thread.  On top of `IInv` it needs to know where every task is:

* `OnceInv`: a task is accepted once, and no thread carries one that was;
* `IndexInv`: the round-robin index is the lane of the task just accepted, or of
  the next one (the arithmetic of `%` is proved as `NextLane`);
* `RunInv`, `QueueInv`: what a worker runs or has queued belongs to its lane,
  queued tasks have not begun, and a queue is in the order of acceptance;
* `WhereInv`: each accepted task has finished, runs on the worker of its lane or
  is in that worker's queue;
* `GoneInv`: when the destructor has returned no thread is left.

So a task at the head of a queue comes after everything of its lane that is
not in the queue, and all of that has finished, because a worker that pops runs
nothing.

### JS VM

`JSVMProofs`, for any threads, workers and promises and any depth of nesting:
`TypeCorrectness`, `LockingIsBalanced`, `RecordsOutliveTheirUse` and
`NestedAwaitsNeverEnd`.

* `StacksInv`: only the innermost frame of a thread waits for the mutex or has
  given it up; each frame below it runs JS and holds one level.
* `LockInv`: the levels so counted are the depth for the owner and none for
  anyone else.  Hence whoever has a frame that holds a level is the owner.
* `RecordInv`: who is in `newPromise` has a live record.  A task that would
  delete it needs the mutex, which the caller of `newPromise` owns.

An awaiting frame holds nothing; if its thread owns the mutex there is a frame
below it.  `NestedAwaitsNeverEnd` follows: who would settle the promise is the
task of a worker, which holds the mutex when it does, and is not that thread; who
would end the poll needs the promise settled; and the frames below do not move.
So `Blocks`, once true of a thread, is true of it for good.

### Stores

`StoreProofs`, for any clients, ids and connections: `TypeCorrectness`,
`HandlesAreLive`, `NothingLeaks`, `OpensSucceed`.  The pool's mutex makes the
look-up, the creation and the insertion one (`OpenInv`): the id is still without
an entry when its connection is inserted, so `emplace` always inserts and no
`shared_ptr` dies there.  `PoolInv` says that no two ids share an object,
`HandleInv` that a handle is the pool's entry until the release, `OwnedInv` that
a live object is the pool's or its creator's, `ReadyInv` that a release leaves
nothing.  `Null` is no connection and no client.

`KVProofs`: `TypeCorrectness` and the refinement `CallsAreAtomic`, for any
threads, keys and values.  A call takes effect in its body, a read of a missing
key in the test, another read in the getter.  The last is right only if the key
is still there: `ExclusionInv` says that no writer is inside with a reader, and
`CallInv` that the key the test found is in the file until the getter.  The
theorems assume `OthersKeepKeys`, that no other process removes a key, and the
module's `PendingAssumption`, that "pending" is no call.

### Log

`LogProofs`, for any threads, callbacks, lengths and block size:
`TypeCorrectness`, `MessagesArriveWhole` and `LevelHolds`.  `PrintInv` says that
who prints holds the mutex and that its message passes the filter; `LastInv`
that the last block is its own, as far as it has sent, or ends a message.  With
the arithmetic of the blocks (`CountFacts`: all but the last are full, and they
cover the message) each new block continues the last or begins a message.

### Zip

`ZipProofs`, for any sizes of input and buffer and any yield of zlib:
`TypeCorrectness`, `SuccessAlwaysComplete` and `ChunksConsumed`.  It assumes a
buffer and an input that are not empty, and that deflate ends with a trailer of
at least one byte; what zlib does is the external `Deflate` and `Inflate`.
`process` concludes from room left in the output buffer that zlib is done with a
chunk, and from a short chunk that the input has ended.  The invariant says why
it may:

* `ChunkInv`: a short chunk was the last;
* `RoomInv`: after a call that left room zlib has consumed its input, owes
  nothing if it may not keep output back, and is at the end of the stream if
  the input is.  Two lemmas, `DeflateFacts` and `InflateFacts`, derive it from
  what the calls promise;
* `ReadInv`: `process` reads again only when nothing is left of a chunk, or the
  stream has ended;
* `EndInv`: at the end of the stream nothing is owed, so that what is left over
  is what follows the stream (`tail`).

### Lifecycle

`SdkProofs`, for any threads that log, jobs and references: `TypeCorrectness`,
`CallbackFindsItsRef`, `NothingLeft` and `NothingFreedIsUsedLater`.

* `CallbackInv`: who is in the callback holds the log's mutex, and the log has
  the callback; as long as it has it, the unloading has not passed its first
  step, which needs the mutex.  So nothing is deleted under the callback.
* `ReleaseInv`: each step of the release leaves one component less and nothing
  brings it back until the release has returned; a connection is open only in a
  store that is there.
* `UseInv`: outside of a release a job that passed its test has a store that is
  there, because the join lets no running job through to the next `dynxxInit`.

### Scripts

`ScriptProofs`, for any choice of engines, topics and scripts and any number of
conversions: `CallsArriveWhole`, `OnlyNonNumbersThrow`, `HandlesAreAlive`,
`StreamsRelease`, `ConversionsRoundTrip` and `TypeCorrectness`.  The argument
goes from the tables to the sessions.

* The layers agree (`JsWrappers`, `LuaWrappers`): wrapper by wrapper, a key that
  is sent is a key the function reads, of a type whose node the parameter
  accepts; outside the functions that `Mute` lists, each key the function must
  have is sent, and of the keys it wants together all are or none is.
  `LayersAgree` is the same for the library of a session.
* One call (`AllGivenArrives`, `ThrowsOnNull`, `TouchedFacts`, `EffectFacts`):
  if the layers agree, a call with every argument given passes each stage; an
  exception takes a null where a number is read; and what a call dereferences,
  creates or deletes is what its handle parameters say.
* The calls (`CallInv`): a handle that holds an address has a live object
  (`HandleInv`); the addresses in the text of a worker's call are of objects that
  were made, and may have been deleted since (`JobInv`); a stream's
  object is the only one of its session, and alive until the release
  (`StreamInv`).  What the last call did then satisfies the properties
  (`LastInv`).
* The data (`DataInv`): what was done to the data decides its type, and a
  conversion is applied only to the type it takes, so that the one that undoes
  it finds what it made.

None of them assumes anything of the scripts.  `HandlesAreAlive` says what is
left to the library and the bridge: an address arrives as the pointer it was
made of, so that a call can only meet a dead object through an empty text or, on
a worker, through a close.

### Ownership

The second part of `SdkProofs`, for any choice of platforms: `CallTypes`,
`CallsGiveBack`, `CallsFreeTheirOwn`, `NoNullIsRead` and `BindingsAgree`.  The run
already goes through every function and every failure; what the proofs add is
the reason, and that it does not depend on the tables as they are: a function
that is added as a binding of the usual form is safe by `BindingSound`, whatever
its arguments are, and one that is not has a lemma of its own to show it.

* The steps of a function are `Sound` if it frees each resource once, if whatever
  it acquires is freed by a later step and by every step before that one that
  may fail (`Settles`), unless `Leaks` lists it, if nothing but the copy of the
  result and the releases follows the C function, and if no argument that a C
  function reads or tests is null by mere omission.  `BindingSound` derives it
  for `BindsOn(handles, f, args)` with any arguments; the HTTP requests, Android's
  random bytes and messages, and the calls of OpenSSL, libcurl and cJSON are
  gone through step by step.  `CallsSound` is the result for every function.
* `AllGood` says of the C API what the argument needs: which functions return a
  literal, and for which arguments; that one only reads without a test, and one
  only reads the elements of lists.
* `MemoryInv` is the inductive part: what is held is settled by the steps that
  remain (`HeldSettles`), what was given back is freed by none of them
  (`GivenBackOnce`), an array is lost or has a null in it only after an
  exception (`LostThrew`, `HollowThrew`), and a literal or a null says where it
  came from (`LiteralWhy`, `RequiredThere`).  For the lists of a form that
  includes the count they go by: `NoNullIsRead` excepts mimes and data that are
  null only where the names are not, which is where the code reads them.  At the end of a call no steps
  remain: `GivesBackAll` follows.  A failure goes straight to the end, and
  `Settles` has it free what is held.
* `BindingsAgree` compares the two tables part by part (`AllAgree`): programs of
  one name call the same one function (`BindingInvokes`), and no name of one part
  is of another part of the other platform.

### Only model-checked

Liveness (`EveryTaskRuns`, `DestructorReturns`, `EveryPromiseSettles`, the
`EveryCallReturns`, `Terminates`), which needs fairness: fairness is stated with
ENABLED, which the provers do not handle.  Every other property of a passing
run is stated by a theorem; that of the violated runs (section 3) is false.

## 5. Where the code departs from what one would expect

The runs that end in a violation (section 3) show the disagreements with
documentation.  The models and their checks also rest on, or leave room for, the
following.

What the models follow, and the properties except or do not speak of:

* A nested call that awaits keeps the levels of its callers
  (`core/vm/JSVM.cxx:300`), against the comment above it, "Release the lock
  imediately, to avoid blocking the JS event loop": if the promise is pending its
  task never gets the mutex, and nothing that needs it goes on.  TLC reaches such
  a state (an invariant `\A t \in Thread : ~Blocks(t)` is violated), and
  `NestedAwaitNeverEnds` says that it is final.
* Tasks that are queued when an executor stops are destroyed, and the promises
  they would have settled stay pending (`core/concurrent/Executor.cxx:45`);
  `TaskPool` promises nothing for a lane that was shut.
* A read of a key-value store that another process empties between the test and
  the getter returns the getter's default, which nobody stored
  (`core/store/KV.cxx:39`).
* The file sink never writes: spdlog's level is set from a level that is stored
  only afterwards, the preparation happens once, and the level it finds is
  `None`, which turns spdlog off (`core/log/Log.cxx:184`).
* What zip reports as a success is complete, but it takes for a failure that
  deflate has no output for a chunk, that an input of full chunks ends with an
  empty one, and that the output has ended where the buffer did
  (`core/zip/Zip.cxx:42-57`), although `C/Zip.h:41-49` documents 0 and null as
  errors; the scripts' streams do so as well (`scripts/JS/DynXX.js:596-612`).
* What follows the end of a compressed stream is read and ignored, but for a
  chunk of it that comes after the one that held the end: zlib then writes
  nothing, and the input is refused.
* A job may use a store after `dynxxRelease` freed it, or the context after
  `~JSVM` did, because the workers are joined last.

What `ScriptCalls` lists (`Mute`, `Unlike`):

* `DynXXCryptoRsaGenKey` sends a boolean, as `DynXX.ts:178` declares it, where a
  number is read: `parseNum` takes `value()` of no number and throws through the
  frames of the engine (`ScriptAPI.cxx:60`, `:931`).  Neither library sends the padding of RSA under the key that is read.
* Lua asks for the version and the root path without a text to parse, and its
  `zipBytes` calls the function that unzips; JS returns the unparsed text of the
  functions that zip and unzip bytes.

The streams of the libraries ignore what `init` returned, and so pass the empty
text of a failed one.

What `Ownership` lists (`Leaks`, `Crossed`, the exceptions of `ReadsNoNull`):

* The header list and the form of a request, the handle of a download whose
  file does not open, and SHA-1's context are not given back.
* On Android the result of `cryptoRandom` and the answer of a script's message
  are not freed; on HarmonyOS the lists and the path of a request.
* HarmonyOS frees the texts of a form's lists by the count of the names
  (`napi_init.cxx:205-209`), also of the mimes and the data that `Index.d.ts:28-30`
  lets a caller leave out: it reads through null.
* JNI is given null without a test where Kotlin declares an argument, or what a
  callback returns, as nullable (`DynXX.kt:18-22`, `:35`, `:49`;
  `DynXXJNI.cxx:53`, `:125-137`, `:393`).  The model ends such a call ("null
  converted"), and no property excuses or covers it.
* HarmonyOS frees the literal it passes in place of a request's parameters, and
  maps the float functions of the store to the integer ones and the device's
  OS version to its name.
* A null handle makes a text column a literal, which the binding frees.

Seen while modelling, and beyond what the models tell apart:

* The hashes of `sha1` and `sha256` are empty: the bytes are reserved and not
  resized.
* `noNewLines` of base64 is true by default in JS and false in Lua; JS drops
  zero bytes of a buffer (`scripts/JS/DynXX.js:24-30`).
* Lua's streams call `DynXX.Z._.Stream`, which is undefined
  (`scripts/Lua/DynXX.lua:651`, `:670`; the function is `stream`); some Lua wrappers
  apply `~` or `..` to booleans.  A `read` or `write` of the script that throws
  skips a stream's release.
* `napi_util.cxx:24-25` writes one character more than it allocates; the log
  callback of HarmonyOS frees the logger's text (`napi_init.cxx:105`).
* AES-GCM with a key of 24 bytes uses the cipher for 32; line breaks that the
  base64 encoder writes are refused by its decoder.
* A download is a success once its status is 200, also if the transfer broke.
* Timers of Lua run on threads of their own without the VM's mutex
  (`core/vm/LuaVM.cxx:13-100`).
* `logSetCallback` of Android leaks the reference it replaces, and the callback
  for script messages is guarded by nothing.

## 6. Not modelled

* What QuickJS's event loop runs: the two tasks the constructor of `JSVM` submits
  are in the model, with their `tryLock`, but call `js_std_loop_promise` and
  `js_std_loop_timer` of a fork of QuickJS that is a submodule and not in the
  repository.  They are taken to return; should they not, a loop would keep the
  mutex.  A JS promise is the native promise itself; one that JS code chains
  needs the loop to settle.
* What QuickJS does when `callFunc` converts its result after it gave up the
  lock (`core/vm/JSVM.cxx:302-319`), and the cache of values.
* Exceptions out of tasks and of the executor's allocations.
* spdlog failing to open its file, which leaves its default sink in place.
* Formats and modes of zlib; a gzip file of several members is one stream with
  data after its end, which is all that `inflate` makes of it.
* The "[i/n] " in front of the blocks of a long message, so that `BlocksTile`
  speaks of the message and not of the length that is delivered.
* The failure of `handleSSL` in a request (`core/net/HttpClient.cxx:124-127`),
  after which the handle of curl is not given back: it parses the URL that
  `checkUrlValid` has just parsed, so it does not fail.
* Rows and columns of SQLite: which type a column has is a matter of data.
* Lua's timers: two threads in one Lua state are undefined from their first
  callback on, and a model would say no more than that.
* HarmonyOS's callbacks and the callback for script messages in `Lifecycle`:
  they post to a thread-safe function of the runtime.
* Objective-C's binding, whose strings are reference-counted; the WolfSSL
  variant of crypto; what libcurl transfers.
* The HTTP client for WebAssembly, which waits for callbacks of emscripten's
  fetch; when and on which thread they come is not to be read here.
* Device and network type: reads of the platform, without state.
* Digits of hexadecimal text, the encoder and the dictionaries of the JSON
  codec, numeric formatting: loops over characters.

## 7. What is left

* `SQLite`: statements and rows under the connection's mutex, columns and their
  types, a connection closed under an open result.
* `Hex` and the JSON codec against reference definitions.
* The composition of `Lifecycle` with `JSVM`, so that a job that is awaited
  meets the release, and the Windows, Linux and web backends of HTTP and device.
