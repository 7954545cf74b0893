# zeromq.js in TLA+

A verification project for the zeromq.js Node.js addon: the native sockets and
their event-loop machinery (`src/src/*.cc`, `*.h`), and the TypeScript built on
top (`src/src/*.ts`). Paths below are relative to `src/src/` unless they start
with `test/`.

## 1. The system

zeromq.js is a thin asynchronous shell around libzmq. libzmq sockets are not
thread safe, and announce events through a file descriptor that is *edge
triggered*. Node.js wants promises, resolved on the main thread. Almost
everything that can go wrong lives between the two.

| component | state it keeps | operations | interacts with |
|---|---|---|---|
| **Socket** (`socket.cc`, `socket.h`) | `state` (Open, Blocked, Closed), the libzmq pointer, `request_close`, `endpoints`, `sync_operations`, the two timeouts | `send`, `receive`, `bind`, `unbind`, `connect`, `disconnect`, `close`, `readable`/`writable`, options, `events` | Poller (owns one), delayed callbacks, worker jobs, Observer (created by `events`), Proxy (reads and writes `state`, `socket`, `endpoints`), Module's reaper |
| **Poller** (`poller.h`) | watched `events`, a poll handle, two timers, a promise slot per direction, the message to be written | `PollReadable/Writable`, `TriggerReadable/Writable`, `Trigger`, `Close`; poll and timer callbacks | calls back into Socket or Observer (`ReadableCallback`, `ValidateReadable`, ...) |
| **Delayed callback** (`util/uvdelayed.h`) | an idle and a check handle | `UvScheduleDelayed` | runs Socket code in the next iteration of the loop |
| **Worker job** (`util/uvwork.h`) | the two closures | `UvQueue` | runs libzmq code in the thread pool, then Socket or Proxy code on the main thread |
| **Observer** (`observer.cc`) | the monitor socket, a Poller, one promise slot | `receive`, `close` | attached to a Socket; closes itself on MONITOR_STOPPED |
| **Async iterator, emitter** (`index.ts:280-378`) | none, or one loop | `next`, `on`, `off` | `receive()` and `closed` of sockets and observers |
| **Proxy** (`proxy.cc`) | two socket references, a control pair | `run`, `pause`, `resume`, `terminate` | blocks, uses and closes two Sockets |
| **Module, Context** (`module.*`, `context.*`, `util/reaper.h`, `util/trash.h`) | per environment: reaper, trash; per process: shared context, terminator | construction, teardown of an environment, garbage collection | closes every Socket, Observer and Context |
| **Messages** (`outgoing_msg.*`, `incoming_msg.*`) | a zero-copy buffer and its JavaScript reference | construction, release from an I/O thread | the trash |
| **Compat layer** (`compat.ts`) | send and receive queues, `_paused`, two listener loops | the callback API of zeromq 5 | Socket and Observer |
| **Declarations** (`native.ts`, `draft.ts`, rest of `index.ts`) | option tables, classes; in libzmq the values of options, and in the socket a copy of the two timeouts | properties, `setsockopt`, `getsockopt`, `verbosity`, `connect` with a routing id | the native getters and setters |

### What is hard

* **Edges.** Whoever reads `ZMQ_EVENTS` consumes the edge of `ZMQ_FD`. Every
  method that does so (send, receive, the getters) must hand on what it saw to
  the operation that is waiting for the other direction.
* **Interleaving on one thread.** Callbacks of the loop run to completion, but
  when the outermost `AsyncScope` (`util/async_scope.h`) closes, JavaScript
  continuations run *inside* a callback, which then goes on with what it has
  cached.
* **Two threads.** `bind`, `unbind` and `Proxy::Run` hand a socket that is not
  thread safe to a worker, while the poller may still be active.
* **Deferred effects.** `close()` during a job is only noted; a delayed
  operation outlives the socket.
* **Turns.** Microtasks and `process.nextTick` run before the event loop goes on:
  a loop over promises that are settled at once keeps the event loop from
  delivering what the loop is waiting for.
* **Lifetimes.** Sockets, contexts and modules end by `close()`, by the garbage
  collector or with their environment, while worker threads, callbacks, I/O
  threads and other environments hold raw pointers to them.
* **Lists kept by hand.** An option is declared, defined and translated in three
  places, for nineteen classes.
* **Counters.** `sync_operations` guards the event loop against starvation,
  `endpoints` (unsigned) is updated by successes and failures alike.

`PROJECT.json` lists the hazards one by one, with the line where each bites and
the properties that watch it.

## 2. The modules

| module | models |
|---|---|
| `PendingOps` | abstract specification: one promise per direction, settled once, never left behind by `close()` |
| `Socket` | `socket.cc` with its poller, timers, delayed callbacks and jobs; implements `PendingOps` |
| `MCSocket` | values of `Socket`'s constants for TLC |
| `SocketProofs` | theorems about `Socket` |
| `Observer` | `observer.cc`, and the async iterator and the event emitter that `index.ts` builds on `receive()`; implements the safety part of `PendingOps` with one slot |
| `MCObserver` | values of `Observer`'s constants |
| `ObserverProofs` | theorems about `Observer` |
| `Proxy` | `proxy.cc` between two sockets, reduced to the fields the proxy shares with them |
| `MCProxy` | `Proxy` for TLC |
| `ProxyProofs` | theorems about `Proxy` |
| `CompatSocket` | `compat.ts`: the receive, send and monitor loops over ticks, microtasks and the event loop |
| `MCCompat` | the twelve applications of `CompatSocket` for TLC |
| `CompatProofs` | theorems about `CompatSocket` |
| `SocketTypes` | tables: what `index.ts`, `draft.ts`, `native.ts` declare and define for each class |
| `Options` | one option of one object, written and read through all interfaces; the routing id of `connect()` |
| `MCOptions` | the values, builds and widths of `Options` for TLC |
| `NumberProofs` | lemmas about powers of two and the conversions of numbers in `Options` |
| `OptionsProofs` | theorems about `Options` |
| `TableProofs` | the theorem that the three lists of `Options` agree |
| `Lifecycle` | `module.*`, `context.cc`, the reapers, the trash, and the lifetime of sockets, observers and zero-copy messages over several environments |
| `MCLifecycle` | `Lifecycle` for TLC |
| `LifecycleProofs` | theorems about `Lifecycle` |

`Socket` and `Observer` are compared with the same abstract specification,
`PendingOps`, instantiated with two slots and with one. `Proxy` does not contain
two copies of `Socket`: it takes from it what `proxy.cc` touches as a friend
class (state, pointer, endpoint counter), and the other users of these fields
(`connect`, `disconnect`, `bind` with its job, `close`, a pending operation).
`CompatSocket` and `Lifecycle` do the same: of the native socket `CompatSocket`
keeps the states, the messages that can be read and the room to write, and
`Lifecycle` whether it exists and who holds its address. What they assume of it
(a blocked socket throws, a pending operation may complete during a job, close()
triggers what is polled, which still succeeds if the message or the room is there,
and leaves what is delayed to its callback, close() during a job is delayed) is
what `Socket` shows.

### Socket and the code

The fields keep their names. `deferred` is the set of directions whose
`read_deferred`/`write_deferred` holds a promise, `events` the poller's bit set,
`polling` and `timer` the uv handles that are started, `delayed` the
`UvScheduleDelayed` callbacks outstanding, `work` the job. Reading and writing
are mirror images in the code (`Send`/`Receive`, `PollReadable`/`PollWritable`),
so one action serves both, with the direction as parameter. Each JavaScript
method and each callback is one action; it includes everything the handler
calls. `SyncOperation`, for instance, is the fast path of `send()`: transfer
the message, then `TriggerReadable()` with its validation, the completion of the
pending receive, and the reset of the budget this causes.

Methods that return early (a blocked or closed socket, `EBUSY`) change nothing;
they are the guards of the actions.

**Atomicity.** All JavaScript methods and callbacks run on the main thread, so
an action is atomic with respect to all others on that thread. The worker and
libzmq's I/O threads are not on it: the job has steps of its own (`WorkBegin`,
`WorkEnd`), and between these two every access to libzmq by the main thread is a
race, recorded in `race`. The exception on the main thread is JavaScript run by
the closing `AsyncScope`. A callback that settles the first direction and then
looks at the second is therefore split: `PollCallback` or `DelayedCallback` set
`resume`, any method may run, and `Resume` continues. `TimerCallback` and
`WorkDone` have nothing left to do at that point (`WorkDone`'s scope spans the
whole completion, so no JavaScript runs inside).

**libzmq** is modelled from its use: `avail[d]` is how many messages can be
received or sent before EAGAIN, `fd` is an unconsumed edge. Reading `ZMQ_EVENTS`
consumes the edge (`Edge`); an arrival raises it when there was nothing before
and may raise it otherwise; peers may go away; `zmq_bind` and `zmq_unbind`
succeed or fail. `attached` is what libzmq is really attached to.

**Timeouts** are options JavaScript may change before any call, so each
operation picks one from `Timeouts` (negative: none, 0: do not wait, positive:
timer). A running timer may expire at any moment.

**History variables** (`outcome`, `failed`, `race`, `careless`, `drift`) never
influence a step. `careless` says that the application has started a bind or
unbind with an operation pending, or used a getter or an option on a blocked
socket; `drift` is the net effect of failed jobs on `endpoints`.

Left out of `Socket`: construction and the destructor called by the garbage
collector (see `Lifecycle`), `events` (only creates an observer), `join`/`leave`
(draft sockets), `uv_*` calls that fail, `poll` callbacks with an error status,
option values (see `Options`), message contents, JavaScript run by reading
message parts inside `send()`.

### Observer and the code

`queue` is what the monitor socket has to read; the payload of events is left
out, except that the last one (`MONITOR_STOPPED`) closes the observer as it is
read (`Read`). `deferred` is the promise slot of the poller, with the name of
the consumer who waits: the application itself, the iterator, or the emitter
loop. `result` is a settled promise whose consumer has not noticed. Noticing is
a microtask: other JavaScript may come first, but no callback of the event loop
(`PollCallback` waits until all results have been noticed). `Turn` is a round of
either loop. The emitter's rounds follow each other; the iterator's body may take
as long as it likes. In emitter mode `receive` is an accessor that throws
(`Replaced`). `Close` keeps the order of `observer.cc:217-227`: first the socket,
then the poller, whose trigger runs the pending receive on a null pointer.

Left out: listeners that throw, an iteration started twice, the iterator over
sockets (the same code; which error a closing socket gives to its pending
receive is in `Socket`'s `Rejections`, with one that makes the iterator throw: see
section 3), collection of the observer.

### Proxy and the code

`Run` and `Refused` are the main thread's part of `run()`, with the checks it
makes and no others; `RunBegin`, `Steer` and `RunFails` the worker, `RunDone`
the completion. Each call of `run()` is a number, and `control_sub` and
`control_pub` hold the number of the run that created the pair, or 0 for a null
pointer. A second worker cannot bind the control address while the first is in
the loop, and returns at once. `FLOW` stands for pause and resume, which do not
change when the loop ends. `assert(err1 == 0)` on `zmq_close` is the variable
`failed`. `careless` is set by `run()` on sockets that are not open and at rest
and by `bind()` with an operation pending; `broken` says libzmq has refused
`run()` one of its control sockets. The getters and options that reach libzmq
on a blocked socket are not calls of `Proxy`, so its `careless` need not name
them; `Socket`'s `RaceOnlyIfCareless` does.

Left out: the same socket at both ends, several proxies that share a socket,
collection of the proxy during a run.

### CompatSocket and the code

The fields `_paused`, `_msg`, `_recvQueue` and `_sendQueue` keep their names
without the underscore. An async function is its program counter: `recvLoop` and
`sendLoop` say which `await` the handler of `_flushRecv` or `_flushSend` is at,
whether only its `once()` listener exists (`armed`), or nothing does (`off`). The
promise of `receive()` or `send()` is awaited at `wait` if the native socket polls for
it, and at `delayed` if the budget of synchronous operations is used up; which of
an immediate completion and a delayed one a ready operation gets is left open.
`NativeReceive` and `NativeSend` settle the promise with what is there at that moment.
They are run by callbacks of the event loop (`ReceiveSettles`, `SendSettles`), for a
polled operation also by a completion in the other direction (`AfterReceive`,
`AfterSend`), and by `close()` (`CloseNow`), which triggers the poller before it closes
the libzmq socket (`socket.cc:260`, `poller.h:49-52`).
A step of the model is what runs between two awaits (`RecvHandler`, `RecvGot`,
`SendHandler`, `SendGot`, ...); methods the application calls run the handler up
to its first await when `emit` finds the listener (`Resume`, `FlushSend`).

`phase`, `stack` and `ticks` are the engine: application code is on the stack
and returns; then the queue of `nextTick`, then the microtasks, then ticks again;
only when both are empty is it the event loop's turn (`AtLoop`), and only then do
pending operations and jobs complete. Which of several ready microtasks runs
first is left open: the number of hops between an `await` and its continuation
is not modelled. `nextTick` errors in a row are merged into one. An error nobody
listens to ends the process (`RunTick`): one of the receive loop, or that of a
`bind()` or `unbind()` that failed and was given no callback.

An application is a record: which methods it uses, its type of socket, its
timeouts, whether it listens to errors. Messages are numbered by the call that
sent them; received ones by their arrival. `bind` and `unbind` are the same
chain of `then` and `catch`, and one action.

Left out: `bindSync` and `unbindSync` (which need the package deasync), the
function `proxy()`, `connect`, `disconnect`, `subscribe` (they only forward),
and listeners of events other than errors that throw.

### SocketTypes, Options and the code

`SocketTypes` is the tables. `...Declared` is what the interfaces say of an option:
its name, its JavaScript type, the libzmq option its documentation names, and
whether it is `readonly` or marked `@writeonly`. `...Options` is the list of calls
of `defineOpt()`, from which `Accessors` computes what an object of a class has.
`Methods` is what `allowMethods()` leaves callable.

`Options` follows one cell of libzmq in one object. A write goes through the
property of the class, through `setsockopt` with a long name, or through a short
name; each is a `Way` to the setter of a property, with the conversion the
compatibility layer applies first. The setter translates names to numbers,
checks the argument's type, casts it (`Stored`) and copies a timeout (`mirror`). A
write that throws, or that libzmq refuses, is no step. `SetVerbosity` drives the
two bits that ZMQ_XPUB_VERBOSE and ZMQ_XPUB_VERBOSER share in libzmq. `Connect` is
that of `Router` and `Stream`: two native calls, of which the second may throw.

Integers and doubles are scaled down together: 3-bit `int`, 6-bit `int64`, and
doubles with 4 digits have the same edges as 32, 64 and 53 bits, values that
round up to 2^64 included. Fractions, NaN and infinities are left out, and so
are warnings and errors for closed sockets.

Strings and buffers are numbered by the bytes they hand to libzmq, with their
length (`socket.cc:758-762`). They are read back as C strings (`socket.cc:736-740`):
`AsText` says what text the bytes before the first zero decode to as UTF-8, and an
empty string, or one that is a single zero (`ZeroByte`), comes back as null. libzmq
keeps the time to live of heartbeats in deciseconds (`index.ts:763-764`): `Keep`
rounds it down (`Decisecond` is 100 in the code) and refuses negative ones.

Left out: what else libzmq does to a value. It validates many (a CURVE key's
length, an address, the range of an integer) and throws, and turns CURVE keys
between their text and binary forms; and it need not return a string that is longer
than the getter's buffer of 1024 bytes.

### Lifecycle and the code

`stage[e]` is how far environment `e` has come: loaded (`up`), or at a member of
`delete module`, in the reverse order of `module.h`: `reaping` (`ObjectReaper`),
`terminating` (`global`, if this was the last share; otherwise `released`), `gone`
(`MsgTrash`). A generation is one `Global`: when the last module has dropped it,
the next one to load creates another. `reaper` and `terminator` are the sets of
pointers, `obj` the sockets and observers, `pending[o]` a job or a delayed callback
that captured `this`. `msg` follows a buffer: in libzmq's queues, as the storage
of a received buffer in whatever environment, in the trash of the environment
that sent it, released; or lost, when its `Reference` calls a module that is
gone.

JavaScript letting go of an object and the collector destroying it are one step.
The finalizers of received buffers may run at any time, before or after the
cleanup hook of their environment: Node.js does not say. Node.js stops worker
threads before it tears the main thread down; that `process.exit()` may skip
hooks is not modelled. A message is `stuck` when no peer will ever take it and its
linger period is infinite.

Left out: proxies, constructors that fail, copied messages (at most 128 bytes),
the accounting of external memory, the warning after 500 ms.

## 3. What TLC checks

| run | asks | bounds | states |
|---|---|---|---|
| `socket_safety` | all invariants and step properties, deadlock | all methods, timeouts -1, 0, 1; budget 2, two messages per direction, two endpoints, counter modulo 3 | 835 692 |
| `socket_liveness` | `Socket` implements `PendingOps` with its fairness; a close during a job takes effect | send, receive, bind, close; everything 1 | 51 620 |
| `socket_oneway` | no lost wakeup, budget per tick, for a socket that only receives | budget 2, four messages | 912 |
| `socket_wakeup` (violation) | no lost wakeup with both directions in use | budget 1, one message | 4-state trace |
| `socket_access` (violation) | main thread and worker never both in libzmq | receive and bind | short trace |
| `observer` | promises, exclusion and termination of the three consumers | all uses; three events | 1 296 |
| `observer_iterator` (violation) | the iterator returns when the observer is closed | iterate, close | 5-state trace |
| `proxy` | ownership, control sockets, closing, termination | two runs, two endpoints, two waiting commands | 730 624 |
| `compat` | order and exactly-once, callbacks, flushes, turns of the event loop | twelve applications with three to six calls each, three arriving messages | 267 011 |
| `options` | the tables agree; what is written is read; routing ids | all classes and options, two builds, 27 values, two ids | 36 667 |
| `lifecycle` | pointers, contexts, the end of environments | main thread and a worker, one context besides the shared one, two objects, one message | 377 421 |
| `proxy_twice` (violation) | the completion's assertions hold | two runs, one endpoint, one command | short trace |

Why the bounds suffice: two directions are all there are; the budget must be at
least 2 for "some left, one left, none left" and to overshoot with both
directions at once; `Cap` of 2 distinguishes "last message" from "one of
several"; two endpoints and a modulus of 3 allow the counter to wrap both ways;
there is never more than one job. The liveness run needs none of the endpoint
counting, and only values that lead to different waiting (no timer, timer).
Three events are enough for the observer to have one left after one was read
and the last one queued behind it. Two runs are what it takes for one to
disturb another; two commands put `TERMINATE` behind another one; two endpoints
are needed for a counter that is neither at zero nor at its bound. In `compat`
every application has enough calls to use each of its methods twice in some
order or a pair of them three times; methods that do not touch common state are
in different applications. Three arriving messages are one emitted, one kept by
`pause()` and one that waits. In `options` a run of two writes reaches every pair
of old and new values; the numbers are those around each power of two where a
conversion changes. In `lifecycle` one other environment is what it takes to
outlive or be outlived; two objects are a socket and its observer or two
sockets with an inproc connection; a message has no effect on another one.

`socket_safety` is the only run that looks for deadlocks. Elsewhere the system
really may stop: an observer or a proxy that is closed and used up, a socket of
which the run uses only some methods, a process that has ended or hangs, an
option that can only be read.

Safety (`socket_safety`):

* `NoAssertFails`: none of the assertions on promise slots and on polling.
* `PollerConsistent`: each pending promise has exactly one party that will
  settle it, timers only run for polled operations, the handle is started
  exactly while something is watched, nothing survives a close.
* `WorkerOwnership`: blocked exactly while a job is under way, the pointer
  valid exactly until closed. `close()` from JavaScript cannot break this.
* `SyncBounded`: the budget counter overshoots by at most one per direction.
* `RaceOnlyIfCareless`: with a well-behaved application the main thread never
  enters libzmq together with the worker.
* `EndpointLaw`: what `endpoints` really counts.
* `ClosedIsFinal`: no step reopens a socket.
* `Rejections`: a polled operation fails with EAGAIN only by its timer or by
  `close()`, and never with ENOTSOCK. A delayed one may fail with either; both are
  disagreements with the documentation, listed below.

Observer (`observer`): `ObserverConsistent` (slot, poller and closed state
agree, a waiting loop either is in the slot or has a result to notice),
`OpsImplemented`, `EmitterExclusive` (no other consumer begins to read once the
emitter runs), `FailsOnlyIfClosed` (neither a spurious edge nor an event ends a
loop with an error) and `LoopsEnd` (closing the observed socket ends them).

Proxy (`proxy`): `Owned` (a blocked socket has exactly one owner, and no
completion brings back a closed one), `AssertOnlyIfCareless`,
`RaceOnlyIfCareless`, `ControlSockets` (they exist exactly during a run, so
commands are accepted exactly then), `ClosesBoth` and `TerminateEnds`.

Compatibility layer (`compat`):

* `Delivery`: what was received and not emitted yet is in the queue of `nextTick`,
  kept by `pause()`, or just received, in this order; nothing is lost, repeated or
  overtaken.
* `SendLaw`: messages reach libzmq whole and in order; a callback is called once,
  twice only if it throws, and never while its message waits.
* `LoopTurns`: the event loop always gets its turn again, unless one of the three
  loops named by `Spinning` takes it.
* `BindsCalledBack`, `Flushed`: callbacks of `bind()` and queued messages are not
  left behind by a `close()`, a `pause()` or a handler that is just ending.

Options (`options`): `TablesAgree` (declared, defined and translated options are
the same, for every class and build), `RoundTrip` (what any interface writes is
what any interface reads, and what `send` and `receive` use as their timeout: of a
string the text before its first zero, of a time to live the whole deciseconds),
`RoutingIdLaw` (a connection gets the id asked for, or an id that a `connect()`
that threw has left behind).

Lifecycle (`lifecycle`): besides its types, `TypeOK` says that a reaper holds
exactly what is open in its environment. `Dangling`: the last module of a
generation outlives every message in libzmq's queues, and `close()` never takes a
socket from a job. `ContextLaw`: environments share one default context, an open
socket's context has not been shut down, and no context outlives its generation.
`TeardownEnds`: the end of an environment comes to its end, unless the last one
waits for messages nobody takes.

**Disagreements with the documentation.** `socket_wakeup` shows that a pending
`receive()` can miss a message: the message raises the edge, and before the poll
callback runs a `send()` that cannot complete reads `ZMQ_EVENTS` (`socket.cc:545`)
and goes to `PollWritable` without looking at the reading side. Nothing wakes the
receive until the peer causes another edge. The fast path takes care of exactly
this (`socket.cc:559-561`). `socket_access` shows that `Blocked` does not keep the
main thread out of the libzmq socket (`socket.h:27`): a receive that was pending
when `bind()` was called leaves the poll callback active.

`observer_iterator` shows that an iterator which waits when `close()` is called
throws ENOTSOCK: the comment in `observer.cc:224` expects the pending promise to
be resolved, and `index.ts:293` forgives only EAGAIN. `proxy_twice` shows that
`run()` checks endpoint counters only: while a proxy runs, a second call is
accepted, takes over the control pair and closes everything under the first.

Some properties hold only because they name what the code gets wrong, each with
a finding in `PROJECT.json`:

* `Rejections`, twice, both for an operation that the budget has delayed. Its
  callback does not validate, so that it fails with EAGAIN if the message or the room
  has gone meanwhile, even with a timeout of -1 (`socket.cc:568`, `612`), with which
  `index.ts:96-97` and `207-208` say that it waits. And `close()` does not settle it:
  its callback finds the socket closed and rejects with ENOTSOCK, so that an iterator
  throws (`index.ts:293` forgives only EAGAIN) where `index.ts:252-253` says that it
  returns.
* `LoopTurns`: `_recv()` swallows EBUSY and is called again in a microtask
  (`compat.ts:328`), so a receive loop that is not waiting when a `bind()` or
  `unbind()` starts hangs the process. A zero timeout does the same, and so do two
  calls of `monitor()` (`compat.ts:552-557`) if there is an error listener, or, also
  without one, if the socket is closed and its observer is not yet: the catch
  clause then emits nothing, and nothing ends the loop.
* `SendLaw`, `Flushed`: a callback that throws is called again by the catch clause
  meant for the send (`compat.ts:350`); the second exception ends the send loop for
  good.
* `TablesAgree`: eight options declared as readable have no getter
  (`index.ts:1790-1839`), and `allowMethods()` (`util.ts:10`) leaves `send` and
  `receive` on every class (`MethodsListed`: the methods a class lists, its interfaces
  and the accessors of its buffers agree, and none of the native methods is
  taken away).
* `RoutingIdLaw`: the id of a `connect()` that throws goes to the next connection
  (`index.ts:1370`).
* `Dangling`: a worker that exits while others run takes its trash with it, and
  its zero-copy messages still in flight are recycled into freed memory; the
  order of members that `module.h:84` explains protects the last module only.
* `ContextLaw`: an observer keeps no reference to its context (`observer.cc:148`);
  closing the socket and collecting the context shuts it down under the observer.

`Dangling` also records (`dangling`) that the collector and the reaper take
sockets from jobs and callbacks that hold their address. Both happen in the
model, as in the code; the property only excludes `close()`.

**Fairness.** libuv visits timers, poll, check and completion callbacks in each
iteration of the loop: what stays ready is called (weak fairness). Timer, check
and completion callbacks stay ready, but the model disables them while another
callback is interrupted, so they get strong fairness. The poll callback only
gets weak fairness: its edge can be consumed before each poll phase. Worker and
interrupted callbacks progress. Nothing is assumed of the application or the
peers. JavaScript that never returns to the loop is outside these assumptions.
For the observer: microtasks run, so do the emitter's rounds (its listeners
return), the poll callback, and libzmq's reaper, which sends the last event. The
body of a `for await` owes nothing. For the proxy: the thread pool starts the
job, the loop reads its commands, the completion is delivered. For the
compatibility layer: ticks and microtasks run while there are any, application
code returns, and libuv gets round to a completed job whenever it keeps getting
its turn (strong fairness, since the turns are what the property is about);
neither peers nor the application owe anything. For `Lifecycle`: a cleanup hook
runs to its end, and libzmq's threads send or drop what is not stuck.

Every property is also run against a mutated definition (the operators marked
*Mutant of ...*), which it must reject.

## 4. What is proved

Eight modules hold theorems (`NumberProofs` only lemmas). Each theorem is about
its module's `Spec` for every value of its constants that satisfies the named
assumptions: no bound of the `.cfg` files enters.

| module | theorems |
|---|---|
| `SocketProofs` | `TypeCorrect`, `AssertsHold`, `OneSource`, `WorkerOwns`, `BudgetBounded`, `CarefulIsExclusive`, `EndpointsCounted`, `StaysClosed`, `RejectedForAReason`, `BudgetPerTick`, `Refinement`; `WakeupOwed`, `CloseIsKept` |
| `ObserverProofs` | `ObserverTypeCorrect`, `ObserverSafety`, `ObserverRefinement`, `EmitterExcludes`, `FailsWhenClosed`; `LoopsAreCalled` |
| `ProxyProofs` | `ProxyTypeCorrect`, `OneOwner`, `AssertsNeedCare`, `RacesNeedCare`, `ControlMatchesRun`, `RunClosesBoth`; `TerminateIsKept` |
| `CompatProofs` | `CompatTypeCorrect`, `DeliveredInOrder`, `SentInOrder`; `FlushIsOwed`, `CallbacksCounted` |
| `LifecycleProofs` | `LifecycleTypeCorrect`, `NothingDangles`, `ContextsOutlive`; `NoSocketBlocksTerm` |
| `OptionsProofs` | `OptionsTypeCorrect`, `WrittenValuesKept`, `RoutingIdsKept`; `TimeoutMirrored` and `VerbosityAsSet`, two parts of the second |
| `TableProofs` | `ListsAgree` |

Together they state every invariant of the passing runs and every step property
except `PendingOps`' fairness. Those after a semicolon in the first five rows
are the *safety halves* of liveness properties:

| liveness property (TLC, under fairness) | safety half (proved, without) |
|---|---|
| `NoLostWakeup` | `WakeupOwed`: what is polled and ready has an edge that calls it |
| `CloseHonoured` | `CloseIsKept`: nothing takes a delayed `close()` back or gets ahead of it |
| `LoopsEnd` | `LoopsAreCalled`: a waiting loop has its edge, and the last event is not lost |
| `TerminateEnds` | `TerminateIsKept`: a run told to end stays on its way to closing both sockets |
| `Flushed` | `FlushIsOwed`: a queue that is not empty has its loop under way |
| `BindsCalledBack` | `CallbacksCounted`: started = called + job under way + tick scheduled |
| `TeardownEnds` | `NoSocketBlocksTerm`: `zmq_ctx_term` only ever waits for messages |

Each says that what the pending thing waits for is always scheduled, and kept by
every step; what TLC adds is that a fair scheduler gets round to it. `LoopTurns`
has no safety half: it says how often the event loop is reached, which is about
the length of runs.

**Socket.** The properties are not inductive one by one. That an assertion cannot
fail needs `PollerConsistent` (a promise is in its slot exactly if something
watches for it); that nothing races needs `WorkerOwnership` (blocked while the
worker runs) and `Undisturbed` (a blocked socket of a careful application has no
pending operation, so no callback has anything to do). `IInv` is their
conjunction. The proof goes action by action; three lemmas
(`TriggerConsistent`, `AccessAllowed`, `CallbackAllowed`) say once what all
callbacks have in common. `StaysClosed`, `RejectedForAReason` and `Refinement`
are step by step consequences of `IInv`.

`EndpointLaw` says nothing of the counter while a job runs, so it is not
inductive: `EndpointInv` adds that meanwhile the counter is still the old one,
and that after the job what the completion is about to write is right. The
counter wraps (`ModAdd`: adding modulo a width, for every width).

`BudgetPerTick` has two hypotheses: one direction is not used, and no timeout is
0. Both are needed. Completing the other direction resets the budget
(`socket.cc:897`), and a timeout of 0 is exempt from it (`socket.cc:546`). They
are what the run `socket_oneway` has as well.

`WakeupOwed` has hypotheses too: one direction, and none of the methods in
`TakeEdge`, which read `ZMQ_EVENTS` and forget what they saw. `Owed` is inductive
under them, since the remaining ways to read it (the method itself and
`PollCallback`) hand on what they find. `CloseIsKept` rests on `CloseOwed`
(a requested close never sees an open socket), for which `IInv` gives that a
socket is blocked exactly while its job is under way.

**Observer.** `NoStrayPromise` strengthens `ObserverConsistent`: a loop that is not
waiting has neither a promise in the slot nor one settled behind its back, and a
promise is rejected only once the socket is gone. Without it the loop's next
round could find a promise of its previous one. `ObserverRefinement` maps the
slot to `PendingOps`' single one. `LoopsAreCalled` adds `LastEventKept`: events
that wait for a pending receive have an edge nobody has consumed, and the last
event of an ended monitor is in the queue until the observer reads it and closes.

**Proxy.** The completion of `bind()` adds to a counter without a guard;
`JobsCounted` (a job under way leaves room, because a blocked socket refuses
`connect`) makes `TypeOK` inductive. `Owned`, `AssertOnlyIfCareless` and
`RaceOnlyIfCareless` hold together or not at all: that the assertion holds needs
that a run owns the control pair it created, which needs that there is one run
at a time, which follows from `Owned` and from careful calls. `AtRest` adds that
pending operations are on open sockets and that the run in flight created the
control pair. `Sound` is all of this for a careful application; `SoundNext`
shows it preserved, one step per action. `ControlSockets` follows from `Sound` and
itself. `ClosesBoth` needs that a closed socket counts no endpoints
(`ClosedCountsNone`): it is what makes `run()` refuse it. `TerminateIsKept` needs of
the command queue only that taking its first command leaves a TERMINATE in it or
was the TERMINATE (`SteerKeeps`), and of `Sound` that only one run takes commands
and that both sockets are still there when it ends.

**CompatSocket.** The invariant has one part per chain of awaits.

* `RecvInv`: `pause()` keeps at most one message, and none while the receive loop
  waits for the next. This is what makes the order of `Delivery` inductive: a
  message in `_recvQueue` is always older than whatever the loop takes next.
* `SendInv` says of the wire, the message in the hands of the send loop, the queue
  and the message under construction, read in this line, that the numbers
  increase and that each message is whole (`Line`). Which callbacks have been called
  is a function of the position in this line (`CurrentCalls`, `Called`).
* `close()` and operations in one direction settle what is polled in the other.
  `CloseNow`, `AfterReceive` and `AfterSend` do so with the steps of the event loop,
  `NativeReceive` and `NativeSend`, so the parts above are preserved for one reason.
* `StackInv`: at most one callback of `send()` is on the stack, and then the send
  loop is waiting for it. Without it a callback could be called for a message
  that has been replaced.
* `PhaseInv`: the phase of ticks has a tick to run or code on the stack.

`Delivery` and `SendLaw` are stated over positions in sequences
(`InOrder`, `Before`, `Batches`), and not with recursion over them, so that they
can be reasoned about. The lemmas on `Line` say what moving a message one place
along it preserves.

`FlushIsOwed` says that no queue is left to a listener that has gone to sleep:
`SendListens` and `RecvListens` list the reasons each loop may have to wait for
its event (nothing to send, paused, closed), and every step that removes the
reason also emits the event. `CallbacksCounted` follows a callback from the job to
the tick that calls it; `BindLaw` adds that the tick is scheduled once at most and
that the event loop, which is the only one to settle a job, is reached with no
ticks left.

**Lifecycle.** `GenInv` says that the environments that are alive share one
generation, whose context is open, and that the last to leave is the only one
that has ended it; `CtxInv` whom a context belongs to and which list holds it;
`ObjInv` that an open object's environment is alive and its context one of that
environment's; `MsgInv` that a queued message's context has not been terminated;
`EndInv` that nothing of an ended generation is left. `Dangling` and `ContextLaw`
are consequences, mostly of `CtxInv` and `MsgInv`: a message can only be in the
queues of a context that somebody still has to terminate. Besides the
assumptions on the constants, the proof needs that the application's contexts,
generations and objects are different things (`OwnAssumption`); they are names
of different things in the model only. `NoSocketBlocksTerm` is a consequence of
`GenInv` and `ObjInv`: an open object belongs to an environment that is alive, and
none of those shares the generation that is being terminated.

**Options.** `RoutingIdsKept` needs what is in the cell between connections:
nothing, or an id of a call that threw. `VerbosityAsSet` goes through the tables: no
`defineOpt()` makes an accessor for option 40 (`NoAccessorOf40`), `setsockopt`
reaches it through one target, and no short name does (`VerboseWays`); so only
`SetVerbosity` writes its two bits.

`WrittenValuesKept` is `RoundTrip`. Its invariant `Kept` says, for each accessor of
the option, that the cell means what was written last, except where the
conversion legally changes it (a number outside the option's type, a string
written to a boolean through a short name). What it means for a write is `Intent`:
the text before the first zero, whole deciseconds. It holds through every write because
all accessors of a cell agree on its type, its sense and its values
(`SameCell`, `Twins`), and because a number that the type holds comes back
from the conversions (`ReadBack` in `NumberProofs`, with the value `NumberCast` gives,
and with doubles beyond `2^SafeBits`, of which only some exist). It is read by
the property, by `getsockopt()` and by the socket through the same rows
(`Sources`, `KeptIsRead`). `OptionsTypeCorrect` needs the range of each
conversion (`Int32Range`, `Uint32Range`, `Int64Range`, `CastRange`).

That `2^n` grows, which these rest on, is not an induction here: `2^n` is the
number of subsets of `1..n` (`PowerIsCard`), so sums of exponents come from pairs of
subsets (`PowerAdd`), and least elements (`Least`) from the well-foundedness of
the natural numbers. The assumptions are those of the module: the values are
some that JavaScript has (`ValuesAssumption`), and the widths are ordered as those
of `int32_t`, double and `int64_t` are, with a bit to spare between the last two
(`BitsAssumption`: `SafeBits + 1 < WordBits`; 53 and 64 in the code). Of `AsText` they
say only that the empty string and the single zero have no text (`TextAssumption`),
and the decisecond is any positive number (`DecisecondAssumption`).

`ListsAgree` is `TablesAgree` for every build, also those with only one of CURVE and
GSSAPI, which no run has. The proof names, for
each property, the option, type, access and owners that its name stands for,
and checks every table against these names once (`SocketNamed`, `SocketPresent`,
`BaseSaid`, `ClassFits`); comparing tables row by row with each other would be
quadratic.

**Only model-checked:** liveness, that is `NoLostWakeup`, `CloseHonoured`, fair
`PendingOps`, `LoopsEnd`, `TerminateEnds`, `LoopTurns`, `BindsCalledBack`, `Flushed` and
`TeardownEnds` as they stand, under the fairness of section 3. The prover has no
rule for fairness or ENABLED.

## 5. Plan

1. `Socket`, `PendingOps`, first proofs: done.
2. `Observer` with the iterator and the emitter: done.
3. `Proxy` over two reduced sockets, and its proofs: done.
4. `CompatSocket`: done.
5. `Lifecycle`: done.
6. `SocketTypes` and `Options`: done.
7. Proofs of the invariants and step properties of all six: done.
8. The conversions of numbers, the tables, and the safety halves of the liveness
   properties: done, but for `LoopTurns`, which has none.

## 6. Not modelled

* `compat.ts`: `bindSync`, `unbindSync` (an optional package turns the event loop
  inside a call), `proxy()` (no state of its own), `curveKeypair`, constants.
* `errors.ts`, `util/error.h`, `util/arguments.h`: error names and texts.
* JavaScript that runs while an argument is converted inside `send()`; draft
  sockets (`join`, `leave`, groups, routing ids of messages, thread-safe polling).
* Two different proxies sharing a socket, a proxy collected while it runs.
* The generated files `index.js`, `compat.js`, `*.d.ts`; examples, benchmarks,
  tests and build scripts.
