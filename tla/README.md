# A TLA+ verification of tunnel

`tunnel` runs pipelines: directed acyclic graphs of *processors*, C++20
coroutines (of `async_simple`) that pass values through bounded queues. This
directory models in TLA+ the library's concurrent core (queue, processors,
builder, executor) and what connects pipelines of different processes (the
socket processors, the switcher, the serialization), checks it with TLC on small
instances, and proves with TLAPS, for every instance, the safety properties of
the queue, of the builder, of running pipelines, of the executor, of the switcher,
of the pipelines that are connected by sockets, and of the serialization.

## 1. Inventory

| Part (under `src/`) | State it keeps | Operations | Module |
|---|---|---|---|
| `include/queue/boundedqueue.h`, the queue between two processors | `queue_`, `capacity_`, `mut_`, `empty_cv_`, `filled_cv_` | `Pop`, `Push` (suspend), `TryPop`, `TryPush` (do not) | `BoundedQueue` |
| `include/tunnel/channel.h` | a shared pointer to a queue | `GetQueue`, `reset` | in `PipelineRun`, `PipelineGraph` |
| `include/tunnel/processor.h` | `abort_port`, per-port `input_count_` | `Pop`, `Push`, `work_with_exception`, `close_input`, `close_output` | `PipelineRun` |
| the node classes of `include/tunnel` (source, sink, transform, filter, accumulate, concat, dispatch, fork, channel source and sink, empty source, dump sink) | ports, locals of `work()` | `work`, `hosted_mode`, `after_work` | `PipelineRun` |
| `Pipeline::Run` in `include/tunnel/pipeline.h` | the abort channel, which pipelines may share | runs all nodes, waits for all; called by a program or by a processor | `PipelineRun` |
| the builder in `include/tunnel/pipeline.h` | `nodes_`, `leaves_`, `dags_`, `sources_`, `sinks_`, the option | `AddSource`, `AddTransform` (two forms), `SetSink`, `Merge`, `DispatchFrom`, `ForkFrom`, `ConcatFrom`, `MergePipeline` | `PipelineGraph` |
| `include/executor/tunnel_executor.h`, `timer.h` | one task queue, mutex and condition variable per worker, `stop_`, the timers | constructor, `schedule` (two forms), `WorkerMain`, `Stop` | `TunnelExecutor`, `ExecutorStart` |
| `include/tunnel/event_collector.h` | time stamps | - | not modelled |
| `include/tunnel/event_count.h` | two counters, a mutex, a condition variable | `Succ`, `Fail`, `Wait` | `EventCount`, `SocketPipelines` |
| `include/tunnel/socket_source.h`, `socket_sink.h`, `include/awaiter/asio/socket.h` | a socket, opened at the first item | connect with retries, accept, write and read of packages, the hosted mode | `SocketStream`, `SocketPipelines` |
| `include/switcher/switcher.h` | connections, `datas_`: the requests that wait in each topic | `start_accept`, `handle`, `transfer_data`, `Stop` | `Switcher`, `Rendezvous` |
| `include/switcher/switcher_client.h` | one connection | `Push`, `Pop`, `CheckTopicExist`, `CloseTopic`, destructor | `Switcher`, `Rendezvous` |
| `include/tunnel/sedeserialize.h`, `package.h`, `util.h`, the packages of `include/switcher` | - | byte order, the serialized form of each type, frames | `PackageStream` |

How the parts interact. The builder creates the processors and the queues and
decides how many EOFs each reader expects. `Run` starts one coroutine per
processor; the coroutines meet only in the queues and in the abort channel,
itself a `BoundedQueue` of capacity 10. A coroutine that throws puts a value
into the abort channel; every other one looks there after each queue operation
and, when it finds the value, throws in its turn. A processor that has thrown
enters the *hosted mode*: it reads its inputs to EOF, writes EOF to its outputs
and only then ends. The executor resumes the coroutines. Pipelines may be
connected by a channel (`ChannelSink`, `ChannelSource`), by an abort channel
they share, by a processor that runs one in its `work()`, or, in different
processes, by a TCP connection (`SocketSink`, `SocketSource`); a program that
runs several waits for them with an `EventCount`. Clients of a switcher exchange
values without knowing each other's address: the server pairs a push request
with a pop request of the same topic and copies the value. Everything that goes
through a connection is a frame: a length and a serialized package.

What is hard, and what makes each part correct:

- **Queue.** Coroutines sleep on two condition variables, `notifyOne` wakes
  one, and a `Try` operation or a newcomer may be faster than the one woken. The
  queue is correct when it is FIFO and atomic and no wake-up is lost.
- **Run.** An exception can happen at any point of any processor, also between
  the outputs of a fork or after its EOF, and several can happen at once. Every
  reader must get exactly the EOFs it counts; no port may be used after it was
  reset; the exit information must neither be lost (a processor takes it and
  puts it back in two steps) nor multiplied; items arrive once and in order;
  `Run` must return.
- **Builder.** Long sequences of calls, and `MergePipeline`, which rewrites ids
  and moves ports, must keep leaves, ports, counts and `dags_` in step.
- **Executor.** `schedule` notifies after its unlock while a worker goes to
  sleep; tasks schedule tasks while `Stop` is under way; workers steal. No task
  may be lost or run twice, and `Stop` must run what it finds and return.
- **Start of the executor.** The threads use variables of the constructor.
- **Switcher.** One thread runs a coroutine per connection. A socket is moved from
  the coroutine that handles it to a list, from there to a transfer, and back,
  while clients go away at any point and topics are closed. No socket may be
  forgotten or used by two, nobody may go on in the middle of an exchange that
  has failed, a value must go to one `Pop`, and no call may hang unless it waits
  for a partner.
- **Sockets.** The connection may be refused, be accepted by nobody, break
  inside a package, or end because the other pipeline was aborted. None of this
  may look like EOF, and the processors must come to an end.
- **EventCount.** A thread sleeps on counters that callbacks change.
- **Serialization.** Machines of different byte order, reads that get a part of
  a frame, connections that end inside one.

`PROJECT.json` lists the hazards at the lines where they bite.

## 2. Plan

Done: `BoundedFifo`, `BoundedQueue`, `BoundedQueueProofs`; `PipelineRun`,
`PipelineRunProofs`, `PipelineEofProofs`; `PipelineGraph`, `PipelineGraphProofs`;
`TunnelExecutor`, `TunnelExecutorProofs`; `ExecutorStart`; `Rendezvous`, `Switcher`,
`SwitcherProofs`; `SocketStream`, `EventCount`, `SocketPipelines`,
`SocketProofs`; `PackageStream`, `PackageStreamProofs`; `PipelineNet`, which joins
`PipelineGraph` to `PipelineRun`.

How the modules are composed: `SocketPipelines` extends `SocketStream` and
instantiates `EventCount`; `BoundedQueue` and `Switcher` instantiate the
abstract specifications that they implement.
`PipelineRun` relies on two other modules: a queue operation is one step
because `BoundedQueue` implements `BoundedFifo`, and its `NetAssumption` asks for
nets that are connected as `IsWired` of `PipelineNet` says (every processor has
its ports; a queue that is read has one reader and a writer, one writer where the
reader counts one EOF), which `PipelineGraphProofs` proves of every completed
pipeline except those that two calls spoil (`CompletedCanRun`), and for queues with room (`QueuesHoldSomething`).
`Switcher` and `SocketStream` pass whole packages or buffers because
`PackageStreamProofs` proves that a frame is read as it was written, in whatever
portions it arrives, or not at all.

## 3. The modules and the code

**BoundedFifo** is the promise: each operation takes effect in one step between
call and return. **BoundedQueue** is the code: `Call`, `AcquireLock`
(`coScopedLock`, and the lock inside `wait`), then `Pop`, `TryPop`, `Push`,
`TryPush`, each the critical section from the lock to the next suspension or the
return. `async_simple`'s mutex and condition variable are external: the mutex
has one owner, `wait` unlocks and enqueues in one step, `notifyOne` wakes *any*
one waiter (more than the code needs), and whoever is woken evaluates the
predicate again. `sent` and `taken` are history variables. The refinement
mapping is `called <- {c : pc[c] # "idle"}`.

**PipelineRun**: the variable `net` holds what is fixed before `Run` (classes,
ports, capacities, which user code may throw). `at[n]` is the next operation on
a queue of coroutine `n`. `Pop`, `PopAbort`, `Apply`, `Push`, `PushAbort` are
`Processor::Pop` and `Push` split where the coroutine can be suspended; `Apply`
is the body of `work()` of each class (`Pushes` gives what it pushes).
`UserThrow` is an exception of user code, `NotifyAbort` the `TryPush` of
`work_with_exception`, `CloseInput`, `InputsClosed`, `CloseOutput` and `Rethrow`
the hosted mode, `Return` the end of `Run`. Values are abstract: `<<s, k>>` is
the k-th item of source `s`. Without an abort channel an exception is
`std::abort()` (`crashed`). `AbortOf(n)` is the abort channel of the pipeline of
`n`, which may be another pipeline's too. A processor of the kind `"embed"` is
the one of `example/embed_pipeline.cc`: `RunEmbedded` gives copies of its ports
to an inner pipeline and waits until that has ended.

**PipelineNet** has no state: `Arity` is what the `before_work()` of the classes
check, and `IsWired` how the processors of a pipeline that runs are connected.

**PipelineGraph**: `node[id]` is a processor with the queues of its ports and
`input_count_`; `pl[p]` are the members of a `Pipeline`. One action per
operation. Calls that throw before they change anything are no steps.
`Unusual` selects uses that the examples do not show. Two calls that
`pipeline.h` accepts make a pipeline that `Run` accepts and that cannot run, and
they are ordinary steps of the model: `SetSink` or `Merge` with an empty set of
leaves, which makes a processor without input (`GotNoLeaves`), and `ConcatFrom`
with a leaf twice, where the second `connect` replaces the leaf's output port
(`LastPlace`) and a queue of the Concat is left without a writer
(`GotLeafTwice`: it has fewer predecessors than inputs). `CompletedCanRun` and
`InputCountIsWriters` say that these two are the only ones, and what is still
true of them.

**TunnelExecutor**: one thread per worker, the threads that call `schedule`, and
the timers' thread. `Push`/`Notify` are `schedule`, `TryPop` ... `Awake` the loop
of `WorkerMain`, `StopTimer` ... the steps of `Stop`. A step is at most one access
to a task queue, a mutex or a condition variable. `rigtorp::MPMCQueue`, the
standard mutex and condition variable and `asio` are external. Timers fire in
any order.

**ExecutorStart**: the constructor, which waits on its own `init_cv` until all
threads have counted themselves.

**Rendezvous** is what the switcher promises: a value goes from one `Push` to at
most one `Pop` of its topic while the `Pop` is under way; a `Push` returns when its
value was passed on; whoever leaves may take a value with it. **Switcher** is the
code of server and clients. `pc[c]` is where client `c` is in a call, `up[c]` and
`down[c]` are the packages in its connection, `srv[c]` says which coroutine of the
server has the socket (`handle`, a list of `datas_`, a transfer, or none). A step
of the server is what a coroutine does between two suspensions: `Accept` of
`start_accept`, `Handle` (a request is read and answered, paired or put into a
list), `Reply`, the five steps of `transfer_data` and its exception. `Leave` is a
client that goes away, in the middle of a call too; `Stop` closes every socket. The
refinement mapping `Meeting` takes a value to be handed over when the server has
written it to the connection of the `Pop`; the history variable `offered[c]` is
the `Push` of client `c` whose value has not been handed over yet, also when `c`
itself is gone and its packages are still in the connection. `Rendezvous` lets a
value be lost only when some other client is through with its calls, as one that
has left is.

**SocketStream**: `at[s]` is where `SocketSink` `s` is (`Pop`, `Connect`, the four
writes, `SinkAfterWork`, `SinkHostedMode`), `src` where the `SocketSource` is
(`Listen`, `Accept`, `Read`, `Push`, `SourceEnd`). A `link` is `none`, `up`, `ended`
(closed by the sink: what was written can still be read) or `reset` (nothing more
gets through); connections that are not accepted wait in the backlog, as TCP has it.
The faults are an abort of either pipeline at any `Pop` or `Push`, a `listen` that
fails, and a connection that breaks. **EventCount** is `event_count.h`.
**SocketPipelines** is the program of `test/socketProcessorTest.cc`: the
pipelines, the callbacks of `start`, and the thread in `Wait`.

**PackageStream**: an integer is its four bytes, `Memory(m, x)` how machine `m`
stores it; serialization, the frames and their inverse are functions on
sequences of bytes, one `Serialize...` and one `Deserialize...` per type, and the
latter return the offset after what they have read. `Package` are the packages whose
strings and whole form have lengths that fit into 32 bits: the code asserts it,
except in `SocketSink`, whose items are taken to fit. A writer puts the frames of a sequence of packages into the
connection, the reader gets bytes in portions, and the connection may be cut
after any byte.

## 4. The runs

Passing runs:

| Run | What it shows | States |
|---|---|---|
| `queue` | the queue implements the atomic one, `MutualExclusion`, `FifoOrder`, no lost wake-up for either condition variable; whoever sleeps for good waits for what is not there (`EventuallySettles`), and when pushes and pops match, everybody is served (`AllServed`) | 579 000 |
| `pipeline` | on nine nets with exceptions anywhere: EOF accounting, no use of reset ports, the exit information persists and is not multiplied, delivery once and, where branches do not meet again, in order and without gaps (`DeliveredOnce`, `DeliveredInOrder`), `Run` returns | 407 000 |
| `graph` | all sequences of builder calls within the bounds keep leaves, queues and `dags_` in agreement, and counts too except those of a Concat that got a leaf twice; a completed pipeline can run if and only if no `SetSink` or `Merge` without leaves and no `ConcatFrom` with a leaf twice made a part of it | 187 000 |
| `executor` | no task lost or repeated, no lost notification, `Stop` runs everything and returns, every accepted task runs | 1 140 000 |
| `executor_start` | the constructor returns (`ConstructorReturns`): no notification is lost | 683 |
| `switcher` | the switcher implements `Rendezvous`; every socket has one owner, streams stay aligned after failures, requests that could be paired never both wait, and no call hangs unless it waits for a partner (`CallsSettle`) | 249 000 |
| `sockets` | `EofMeansComplete`: the source ends normally only when the stream of its sink is complete; sinks end always and the source once somebody has connected (`StreamsEnd`); `Wait` returns when all pipelines have ended and not before (`WaitReturns`) | 255 000 |
| `codec` | `RoundTrip`: what is read is a prefix of what was written, and all of it if the writer closes the connection, for both byte orders on either side | 388 000 |

Bounds. `queue`: three coroutines with up to two operations each and capacity
2, so that two coroutines sleep on one condition variable while a third, with a
`Try` operation, overtakes one that was notified. `pipeline`: queues of one
element, so that every push can block; up to two items per source (three where
fork meets concat, the most that fits); up to two exceptions, and an abort channel of
capacity 1, so that it is full when the second one is reported. The nets cover
every class, a queue with two writers, two branches, two pipelines joined by
a channel of which one has thrown, two that share an abort channel, and one
that runs inside a processor of another. `graph`: nine processors, and
it starts from a finished pipeline with two sources and two sinks, so that
`MergePipeline` of two sinks with two sources happens, or from a merged pipeline,
so that one is extended and merged again; branching up to two, which is enough
for a repeated leaf. `executor`: two
workers with queues of one task, so that queues fill up, tasks that schedule
tasks and set timers, a second thread that calls `schedule` before, during and
after `Stop`. `switcher`: up to four clients and two topics, with three plans: one
producer for two consumers, so that a value may go to either; two producers and
one consumer while a third client closes the topic; clients that push to one
topic and pop from another. Two of the clients may leave at any point and the
server may stop. `sockets`: two sinks for one source, so that one of them stays in the backlog;
up to two items, two retries, two buffers on their way, so that a write
blocks; any of the pipelines may be incomplete. `codec`: packages of
all four types, with a length of two bytes, empty strings and integers of which
the bytes differ; portions of one or three bytes, and portions that are larger than a
frame, so that a read gets what `read` asks for and no more. Deadlock is not checked where the modelled system comes to its
end; that it does not stop earlier is what the liveness properties say.

Fairness. `queue` and `pipeline`: weak fairness per coroutine. The executor
resumes every coroutine that can run, and `async_simple`'s mutex hands itself on
to the coroutines that wait for it. User code is assumed to return. `executor`:
as long as some thread can take a step, some thread does (timers included), and
spurious wake-ups do not go on for ever; that is less than the operating
system's fairness to each thread. Nobody has to call `Stop`.
`executor_start`: weak fairness per thread. `switcher`: clients go on with their
calls and the server's thread gets round to every coroutine that can run; nobody
has to leave or to stop. `sockets`: weak fairness for each sink, the source, each
callback and the main thread; nothing has to break, and nobody wakes up without a
notification. No strong fairness is assumed.

Runs that show a disagreement between the code and what is said of it:

| Run | What TLC finds |
|---|---|
| `hosted_stuck` | a fork whose branches are concatenated can fill its queues and stop; a sink that has thrown then waits in hosted mode for ever (`doc/pipeline.md:73`) |
| `creater_throws` | a creater that throws in `AddTransform` leaves connected processors in `leaves_` (`doc/pipeline.md:8`) |
| `grow_merged` | a merged pipeline that is extended gets queues of capacity 0 (`pipeline.h:60`) |
| `executor_init` | a worker may notify `init_cv` after the constructor that owns it has returned (`tunnel_executor.h:44`) |

Met while modelling, without a run of its own:

- `Run` builds a result for each node and adds none to the vector it returns
  (`doc/pipeline.md:53` says it returns them), so the exceptions of processors
  are swallowed, and the `Succ` of a callback says only that `Run` did not throw.
- A processor that reads its last EOF after another one has thrown ends normally
  (`doc/pipeline.md:72`).
- `SetSink` with an empty set makes a processor without ports, against
  `README.md:35` ("it will not hold 0 `input_port` and 0 `output_port` at the same
  time"), and a complete pipeline that cannot be executed (`README.md:139`);
  `ConcatFrom` accepts a leaf twice, and the Concat then waits for ever on the queue
  that nobody writes. `CompletedCanRun` is an equivalence, so the run `graph` shows
  both: a pipeline with such a processor is never `IsWired`.
- `schedule` returns false when all queues are full, and
  `test/executorTest.cc:29-33` does not look at the result; a function scheduled
  from outside after the workers have exited is accepted and never run (the
  history variable `late` keeps these apart in `StopRunsEverything`).
- Switcher: a value is lost, though its `Push` has returned, when the client of
  the paired `Pop` is gone before it reads; requests are paired last in, first
  out, so an old request may wait for ever while new ones are served;
  `start_accept` ends if `get_remote_ipport` throws for a client that is gone, and
  nobody is accepted any more; `timeout_ms` of a request is never set.
- Sockets: a `SocketSink` without items never connects, so that its `SocketSource`
  waits for ever; a second `SocketSink` in the backlog may write everything, end
  normally and lose it all.
- A connection that ends inside a length ends the stream for the `read_package`
  with a parameter `eof` like one that ends between packages.

Every property of a passing run has a mutant in `PROJECT.json`, a plausible
slip in the code that makes TLC report that property.

## 5. The proofs

`BoundedQueueProofs` proves about `BoundedQueue`, for any finite set of clients,
any capacity (0 included) and any workloads:

- `TypeCorrect`: `TypeOK`, which holds that the deque never exceeds its
  capacity. It is not inductive: `Tail(todo[c])` has its type only if a
  coroutine that is inside an operation has one. `TypeInv` is `TypeOK` together
  with `OperationOK`, which says this, and that a coroutine asleep on
  `filled_cv_` (`empty_cv_`) is in a `Push` (`Pop`).
- `Exclusion`: `MutualExclusion`, inductive with `TypeInv`.
- `Order`: `FifoOrder`, by lemmas on moving the head of one sequence to the end
  of another and on appending to the second of two.
- `NoLostFilledWakeups`, `NoLostEmptyWakeups`: the wake-up invariants. While somebody sleeps, the free
  slots (elements) are at most as many as the coroutines on their way to them.
  An operation that makes a slot wakes a sleeper, so both sides grow by one; one
  that takes a slot lowers the left side and removes at most itself from the
  right; one that goes to sleep saw no slot. The cardinality steps cite
  `FiniteSetTheorems`; `MutualExclusion` and `TypeInv` are needed because the
  argument is about the one coroutine in the critical section.
- `Refinement`: `Spec => Fifo!Spec`, each step a step of `BoundedFifo` or a
  stutter.

The only assumptions are the named ones of the module: the clients are finitely
many, `Nil` is none of them, the capacity is a natural number, the workloads are
sequences of operations.

`PipelineRunProofs` proves about `PipelineRun`, for all nets, with pipelines that
share abort channels (`AbortOf`) or run inside a processor, any number of
exceptions and any capacity of the abort channels that is not 0:

- `ExitInformationPersists`: `AbortPersists`. A processor takes the value with
  `TryPop` and puts it back with `TryPush`, in two steps; meanwhile it is in the
  hosted mode with the value in its hands, and a `TryPush` that finds the
  channel full loses nothing, since the channel is not empty then.
- `ExitInformationIsCaused`: `AbortTokensFromThrows`. The values in the channel
  and in the hands of processors (`Balanced`) are at most as many as the
  processors that have thrown: receiving moves one, an exception adds one to
  both sides, and notifying moves one back or drops it.

Both rest on `AbortInv`: the types of the five variables concerned, and
`ThrownAreStopped`, that a processor whose user code has thrown never works
again. Without the latter the second theorem is not inductive: a processor that
could throw twice would add two values and be counted once. The many actions of
a processor are first reduced to five kinds of step (`StepKinds`): it goes on,
takes the exit information, throws, puts the exit information back, or changes
nothing of this; each invariant is then proved for the kinds. The
assumptions used are `NodeAssumption` (finitely many processors),
`NetAssumption` (the nets have their types) and `AbortAssumption` (the capacity
is positive; the code's is 10).

`PipelineEofProofs` proves the rest of the safety of `PipelineRun`, for all nets
as `NetAssumption` describes them (several writers per queue, embedded
pipelines and channels between pipelines included), any capacities, any items,
and exceptions at any point of any processor:

- `TypeCorrect`: `TypeOK`, with the bound on every queue.
- `PortsSafe`: `PortsInUseAreOpen`. The invariant `PortInv` says for each place a
  coroutine can be at what it has still to do with its ports: which classes can
  be there (`KindInv`); that `pending` holds items only, or ends with exactly one
  EOF for every output that is open and nothing for an output after its EOF
  (`PendingInv`); that an input is open as long as an EOF is expected from it,
  and that the port a processor reads is open, except between the last EOF and
  the reaction to it (`InputInv`).
- `EofsAccounted`: `EofAccounting`. A push moves an EOF from the writers that
  owe one to the queue, a pop from the queue to nowhere while `input_count` goes
  down by one; the hosted mode does the same port by port, and an exception
  changes who owes the EOF, not that it is owed. `EofInv` is this equation
  together with `EndsWithEof`: when no writer of a queue owes an EOF, the queue is
  empty or ends with one.
- `NothingLeft`: `NothingAfterLastEof`, from both parts of `EofInv`: a count of 0
  leaves no writer that owes and no EOF in the queue, so nothing at all.

The second half of `PipelineRunProofs` proves `ItemsInOrder`: `DeliveredInOrder`, for
the same nets, on top of `PortInv`. The property says three things of what a
sink has consumed: the items of a source come in the order of their numbers;
none is missing before another one, unless it was filtered; and behind a Concat
no item of an earlier input follows one of a later input. Each holds only where
the wiring makes it true, and the property says where (all of it a function of
the net): the branches of the source do not meet again (`Ways`, `Simple`); for the
second, there is no Dispatch on the way either (`Whole`); for the third, the two
sources meet in that Concat and share their way behind it (`MeetIn`, `Joined`).

- A step is first reduced to what it does to the items (`StepView`): a processor
  takes the head of a queue, drops it in the hosted mode, generates, applies,
  sends, or does nothing to items.
- `d[n]` is the number of the last item of the source that processor `n` has
  popped. It is no variable of the model: the invariant says that there is such
  a function, and each step names the next one (`Moved`). `OrderInv` places the
  items relative to it: what `n` holds or has still to push is item `d[n]`; what
  waits in its queue has greater numbers, in order, and not beyond what the
  processor before it has pushed; what it has consumed has smaller ones. Every
  processor has one lane to it (`Lanes`), which is why its queue is in order.
- Without a Dispatch, `NoGap` adds that an item between `d[n]` and the `d` of the
  processor before `n` is in the queue, or filtered, or is the last one, which
  that processor has still to push or has lost with its exception. So an
  exception loses a suffix of the stream, never something in the middle.
- `Turns` is about two sources `s` and `t` that meet in Concat `c`: `c` has popped no
  item of `t` before it has left the port of `s` (`PortReached`), and a processor
  behind `c` that has popped an item of `t` will see none of `s`, neither in its
  hands nor in its queue behind an item of `t`.

`SocketProofs` proves about `SocketPipelines`, for any number of sinks, items and
retries, any `WireCapacity`, and every fault:

- `TypeCorrect`: `PipelinesOK`; `Complete`: `EofMeansComplete`; `WaitIsRight`:
  `Wait` returns only when all pipelines have ended.
- The buffers of a connection are numbered. `StreamInv` says that what is in
  the connection continues what has been read, without a gap (`WireInv`), as long
  as the source may still read it (`Live`), and how many buffers a sink has written
  at each place of its loop (`SentAt`); a connection that was reset may have lost
  its buffers, and then nobody reads on. So the EOF package is number
  `Items[s] + 1`, and who reads it has read the others.
- `EventInv`: the counters of the `EventCount` are the number of callbacks that
  have run.

`SwitcherProofs` proves about `Switcher`, for any clients, topics, values and
plans, whoever may leave and whether or not the server may be stopped:

- `TypeCorrect`, `OneOwner` (`SocketsHaveOneOwner`), `NeverBoth`
  (`NeverBothWaiting`), `Aligned` (`StreamsAligned`).
- `Refinement`: `Spec => ImplementsRendezvous`, step by step: the write of the data
  to the `Pop` is the meeting, the reads of responses are the returns, leaving and
  failed transfers lose what they lose in `Rendezvous`, and the rest is a stutter.
- None of `Aligned`, `NeverBoth` and the refinement is inductive alone. `Inv`
  gives the server's socket of each client a mode (asks, pushes, given, taken,
  pops, popped, replies) from who has the socket (`InMode`), and says for each mode
  which packages are on their way in both directions, where the client is in its
  call and what it has offered (`Talk`); a client that is gone is bound only by what
  it left in the connection. `TopicInv` relates the two clients of a transfer.

`PipelineGraphProofs` proves about `PipelineGraph`, for any pipelines and any
sequence of builder calls and merges, extensions of merged pipelines, merges
without leaves and repeated leaves included, without a bound on processors,
branches or the length of the sequence:

- `TypeCorrect`; `LooseEnds` (`LeavesAreUnconnected`); `EofCounts`
  (`InputCountIsWriters`); `OneReader` (`OneReaderPerQueue`); `Dags`
  (`EdgesAreQueues`); `QueuesHold` (`QueuesHoldSomething`); `CanRun`
  (`CompletedCanRun`).
- `CanRun` is where the two models of a pipeline meet: a completed pipeline is
  `IsWired`, the assumption of all theorems about `PipelineRun`, if and only if it has
  no Concat that got a leaf twice and no processor that got no leaves.
- `EofCounts` excepts the Concat that got a leaf twice, and no other processor. The
  invariant leaves it open whether an input of a Concat has one writer or none
  (`Expected`). `LeafTwice` decides it: the predecessors of a Concat have one output
  each (`SinglesOK`), no input has two writers and no two inputs are the same queue,
  so there are as many predecessors as inputs exactly if every input has a writer
  (`OneEach`, with the theorem on injections of finite sets).
- `QueuesHold` also assumes `"grow_merged" \notin Unusual`, and the run
  `grow_merged` shows what happens otherwise: `channel_size` is 0 in what
  `MergePipeline` returns.
- Each theorem assumes `"creater_throws" \notin Unusual`. The run `creater_throws`
  shows that `LeavesAreUnconnected` is false otherwise.
- `Inv` says of every pipeline by itself that it is well made (`Good`): its members
  agree with the processors, without repetition in `sources_` and `sinks_`
  (`MembersOK`), each processor has the ports of its class, connected or not
  (`Shape`), `leaves_`, readers, counts and `dags_` are right, and the processors
  can be ranked so that every edge leads upwards (`Ranked`). `Apart` says that two
  pipelines share no processor and no queue; without it `MergePipeline` could
  give a queue a second reader.
- The builder's operations are reduced to one kind of step (`Grows`): some leaves
  get a new queue as output, new processors with new queues are added. What
  `Grows` does to each conjunct is proved once. `MergePipeline` is the other kind
  (`Glues`): two injections, of the left and of the right processors into those of
  the result, meet in the new `NoOpTransform`s, and every port, edge and
  count is carried along them.
- That there is no cycle follows from `Ranked`: `Acyclic` says that among any
  processors there is one that none of them feeds, and one of the least rank is
  such. The ranks of the right pipeline are raised above those of the left when
  the two are glued.

`TunnelExecutorProofs` proves about `TunnelExecutor`, for any number of workers and
callers, any size of the queues, and whatever the tasks schedule:

- `TypeCorrect`; `NoSleeper` (`NoLostNotify`); `EveryTaskOnce`
  (`NoTaskLostOrRepeated`); `StopDrains` (`StopRunsEverything`).
- `Inv` has five parts besides `TypeOK` and `NoLostNotify`: where each thread is and
  what it has at hand (`PlaceInv`); who has the mutexes (`LockInv`): a worker
  between its predicate and its second look at `stop_` has its own mutex, and
  `Stop` sets `stop_` when it has all, so no task that the predicate has popped is
  dropped; a task is scheduled at one place only (`OnceInv`); an accepted task is
  at one place (`PlacedInv`); and as long as a queue holds a task that is not
  `late`, some worker has still to look into it before it exits (`StopInv`).
  `NoLostNotify` needs `LockInv`: the push under the mutex cannot fall between a
  worker's look into its own queue and its wait.
- `OnceAssumption` says that a task, an identity given to a call of `schedule`, is
  scheduled at one place; a function scheduled twice is two tasks.

`PackageStreamProofs` proves about `PackageStream`, for every sequence of packages,
any two byte orders, any portions and a connection that breaks after any byte:

- `Back`: `Deserialize` of what `Serialize` gives is the package and uses all of
  the bytes, so that the assertion after it never fails. The argument follows an
  offset through the buffer: `Holds(view, offset, piece)` says that what the
  serialization of one member appended lies where its deserialization looks.
- `ReadAsWritten`: `RoundTrip`. The frames that were written lie one after the
  other (`Laid`), the position of each given as a function of its number, so that
  no sum over a sequence is needed and no induction over it. `Inv` says that the
  reader's buffer and the bytes in the connection are the next bytes of this
  (`Unread`), and that the reader waits for as many bytes as the next part of a
  frame has.

All assumptions are the named ones of the modules, and TLC evaluates them on
the instances of the runs.

Only model-checked: `DeliveredOnce`, which counts the copies of an item along the
paths of the particular nets of `MCPipelineRun`; `ExecutorStart`, whose property is
liveness; and all liveness properties, which need fairness and `ENABLED` and are
out of the prover's reach.

## 6. What is not modelled

- `EventCollector` and `Pipeline::Dump`: statistics and text that nothing reads
  back; `dags_`, which `Dump` prints, is checked.
- Which executor a node runs on (`work_with_exception` moves the coroutine):
  every coroutine is a process of its own already.
- The option `bind_abort_channel` in `MergePipeline`, the conjunction of the two
  pipelines' options: the graph does not depend on it, and `PipelineRun` takes
  nets with and without an abort channel.
- A peer that dies without notice: TCP does not report it, no code has a
  timeout for it, and the other side waits. Connections end with a close or an
  error here.
- The contents of responses of the switcher (codes, addresses): they are returned
  to the callers of `CheckTopicExist` and `CloseTopic` and nobody else looks.
- The compile-time traits, and the examples other than `embed_pipeline.cc`: they
  add no state of their own.
- Memory orders inside the external queues and mutexes.
