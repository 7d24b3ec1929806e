# A TLA+ model of xtd

xtd is a header-only C++23 library of concurrency components: channels, byte
pipelines, a cache, and a logger built on the channel. This directory models
its components in TLA+, model-checks them with TLC on small instances, and
proves the safety properties of the channel, the pipeline and its storage, the
cache, the logger and its transports with TLAPS for every instance. Source paths below are relative to
`src/src/`; `PROJECT.json` maps each definition to the lines that it models.

## The parts of the system

| part | source | state | concurrency | here |
|---|---|---|---|---|
| channel | `channel/` | queue, completed flag, two waiter counters | any number of readers and writers; one mutex, two condition variables, stop tokens | `FifoChannel`, `Channel`; proofs |
| pipeline | `pipeline/pipeline_impl.h`, `data_segment.h`, `read_result.h`, `pipe_reader.h`, `pipe_writer.h` | segments, size counters, pause, pending-read and completion flags | one writer, one reader, completion from any thread | `Pipeline`; proofs |
| allocators | `pipeline/custom_allocators/` | free buffers; an arena with head and tail | under the pipeline's mutex | `SegmentPools`, `PipelineStorage`; proofs |
| views and positions | `pipeline/segmented_byte_view.h`, `position.h` | none (pure) | none | `ByteView` |
| copy threads | `pipeline/pipe_utils.h` | position in the source | a thread that writes to a pipeline | `PipeCopy` |
| chat connection handler | `../samples/chat/connection_handler.h`, `commands_parser.h` | closed flag, the view being cut into lines | its thread, the server's thread, anyone who closes it | `ConnectionHandler` |
| cache | `cache/concurrent_cache.h` | per shard: values with expiry, factories in flight | any number of threads, a shared mutex per shard, promises | `ConcurrentCache`; proofs |
| logger, sinks | `logging/logging.h`, `log_message.h`, `sinks/log_sink.h`, `file_sink.h` | sink lists, a channel, lazily formatted messages | any number of logging threads, a worker | `Logger`; proofs |
| OpenTelemetry sink | `logging/sinks/otel_sink.h` | a channel, a batch | a worker thread of its own | `Logger`; proofs |
| transports | `logging/sinks/otel_transports/` | sockets and address list, or curl's handle and headers | inside the sink's thread | `OtelTransport`; proofs |

The logger and the OpenTelemetry sink use the channel. The copy threads and the
connection handler use the pipeline, the handler also its views, and the
pipeline an allocator. The cache stands alone.

## Modelling conventions

* A critical section of a mutex is one atomic step. What the code does after
  it has released the mutex (`notify_one`, `notify_all`, `promise.set_value`)
  is a step of its own, with everybody else's steps possible in between.
* `condition_variable_any::wait(lock, token, predicate)` is: fall asleep; be
  taken off the condition variable by a notification, by the stop callback, or
  spuriously; compete for the mutex; look at predicate and token; return or
  sleep again. Stop tokens are not guarded by the mutex, so from the return of
  a wait the thread keeps the mutex for a second step (`m_mutex = {t}`), and a
  stop request may come in between.
* `RequestStop`, `SpuriousWakeup`, `NotifyOne`, the clock, `operator new` and the
  search of a byte sequence belong to the standard library, and file descriptors
  to the operating system; they are marked external.
* A system call is a step with every outcome that the code tells apart. A call
  interrupted by a signal is made again and changes nothing, so it is no step.
* Data is abstract: items are members of a small set, the bytes of a pipeline
  are their positions in the stream, a cached value is the factory call or the
  insertion it comes from, a log record is who logged it and when, and a line or a
  request is a few units of data.
* A definition named `X_Something` that stands before `X` is a faulty variant of
  `X`. Nothing uses it; substituted for `X`, it shows that a property can fail.

## The modules

**`FifoChannel`** is what a channel promises: the items accepted, the prefix of
them handed out, whether it is closed, and for each returned value what must be
true when it is returned. It has no mutex, no waiting and no notification.

**`Channel`** is `channel_impl.h`. `emplace`, `internal_wait_to_read`,
`try_emplace`, `try_read` and `complete_writer` are the calls;
`WriteWaitReturns`/`FinishEmplace` and `ReadWaitReturns`/`FinishRead` are the
rest of a call that had to wait; `Notify` is what follows the release of the
mutex. `Throwing` threads may see a constructor of `T` throw. `ret` (the last
result) and `delivered` (what was taken out) are history. `KeepsPromise`
instantiates `FifoChannel` with `sent <- delivered \o m_queue`,
`received <- delivered`, `closed <- m_writer_completed`.

**`Pipeline`** is `pipeline_impl.h`: `write` with its outer loop (`WriteLock`,
`WriteWaitReturns`), its inner loop (`WriteLoop`, `CopyToTail`) and its
notification; `read_at_least` and its wait; `advance`; the two completions. An
iteration of the inner loop is a step because it looks at the token. Calls that
throw without a change of state are left out.

**`PipeCopy`** composes `Pipeline` with the loop that the two functions of
`pipe_utils.h` share and with a consumer that parses messages of `MessageSize`
bytes as `pipeline.md` shows, and that may give up.

**`ConcurrentCache`** is `concurrent_cache.h`, one step per critical section:
`get`/`GetExpired`, `insert_or_assign`/`Assign`, `erase`,
`get_or_create`/`Register`/`Factory`/`Publish`/`SetValue` or
`SetException`/`remove_in_flight`, `Wait` for the future, and
`purge_expired`/`PurgeShard`. Adding a key to a map may throw.

**`SegmentPools`** is the two memory resources as operators on a pool value:
`arena_allocate`, `arena_deallocate`, `fixed_allocate`, `fixed_deallocate`,
`destroy`. `InStep` and `NotShared` are what a pool promises a user that returns
its oldest buffer first; the assertions in the code follow from `InStep`.

**`PipelineStorage`** composes `Pipeline` with a pool of either kind: a segment
takes its buffer when the pipeline appends it and gives it back when the pipeline
drops it (`StorageFollows`, in the same step, because both happen under the
pipeline's mutex), and `Destroy` is `~pipeline`.

**`ByteView`** is `segmented_byte_view` and `position` as operators, one per
member function, with `std::size_t` counting modulo `Modulus`. What may throw
returns a set, empty if it throws.

**`ConnectionHandler`** is the thread of the chat sample that cuts a pipeline's
bytes into lines (`Read`, `ProcessLine`, `Advance`) and parses them, the server's
thread that tests `m_closed` (`receive_data`) and then writes (`Write`,
`WriteThrows`), and whoever closes it (`close`, `CloseCompletes`). It gives
`ByteView` the views that occur: bytes cut into segments anywhere, sliced in
place, while more are appended. The pipeline is its contract here.

**`OtelTransport`** is the native transport, system call by system call
(`Resolve`, `Socket`, `ConnectStep`, `send_all`, `discard_response`), and the curl
transport's acquisitions and releases (`ConstructCurl`, `AppendHeader`,
`SetOptions`, `Catch`, `Perform`, `DestroyTransport`).

**`Logger`** composes the transport with the OpenTelemetry sink's thread
(`ReadFirst`, `serialize_record`, `Collect`, `Sent`), the logger's worker
(`ProcessLog`, `WriteToSink`, `write_message_log`, `write_to_output`), the callers
(`log`, `LogToShared`), the once-only formatting of a message that both threads use, and
the set-up and destruction by `main`. The two channels do what `FifoChannel`
promises, which `Channel` is shown to implement.

**`Flattening`** has the one helper that `Pipeline`, `OtelTransport` and `Logger`
share: a sequence of sequences in one piece.

`MCChannel`, `MCConcurrentCache`, `MCConnectionHandler` and `MCLogger` give the
constants of the runs: threads and keys as model values, texts, levels. Threads
are interchangeable in `cache_get`, which uses that symmetry.

## The runs

| run | instance | shows |
|---|---|---|
| `channel_promise` | 2 readers, 2 writers, capacity 1, 2 items, 3 sends; one of each side cancellable and throwing; all operations | the channel implements `FifoChannel` (`KeepsPromise`); `WaiterCounts`, `WaitHonoured`, `CompletionReachesAll`, `StoppedStaysAwake` |
| `channel_progress` | 2 readers, 2 writers, capacity 2, 4 sends, fair; nothing cancelled or thrown, no `wait_to_read` | `NoLostWakeup`; nobody sleeps on next to what it waits for (`SleepersServed`); completion releases everybody for good |
| `channel_lost_wakeup` | 2 readers, one of them cancellable | **violated**: see finding 1 |
| `pipeline_storage` | buffers of 2, pause 4, resume 2, writes of 1 and 3, `read` and `read_at_least(3)`, 6 bytes; either pool; everything cancellable; a third thread completes either end, the reader its own (a writer that completes itself is in `pipe_copy`) | bytes and counters (`Accounting`, `StreamIntact`, `SnapshotStable`), notifications (`WriterNotForgotten`, `ReaderNotForgotten`), storage (`StorageBounded`, `BuffersNotShared`), and how much a sleeping writer leaves the reader (`PausedWriterLeavesEnough`) |
| `pipeline_never_resumes` | resume threshold below the buffer size | **violated**: finding 2 |
| `pipeline_cancel_spins` | a cancellable writer, fair | **violated**: finding 3 |
| `pipeline_reader_asleep` | completion of the reader by a third thread | **violated**: finding 4 |
| `pipe_copy` | 9 bytes in chunks of up to 5, messages of 3, fair | `CopyDelivers`, `BlockedCallsReturn` |
| `byte_view` | all texts of 3 bytes and four of 6, over 5 bytes, cut in every way; 6 patterns; arithmetic modulo 16; fair | slices, searches, element access and copies agree with the bytes in one piece (`SlicesExact`, `SearchesExact`, `ReadsExact`); each line is processed once, in order (`LinesExact`), none is left behind (`NoLineForgotten`), and a closed handler ends (`HandlerEnds`) |
| `cache` | 3 threads, 1 key, 2 shards, 2 factories, all operations, entries with and without expiry, fair | `OneFactoryPerKey`, `WaitersServed`, `PromisesKept`, `LiveEntryKept`; every call returns |
| `cache_get` | 2 threads | **violated**: finding 5 |
| `logging` | 2 callers, 3 messages, 3 sinks that admit one, two and all of them, batches of 2, 2 addresses, lines of 2 units, one failed `::write`, both transports, fair | `EachOnceInOrder`, `DrainedAtExit`, `LinesWhole`, `TextWhole`, `RequestExact`, `ResourcesBalanced`; destruction ends unless a peer or an output stalls (`ShutdownEnds`) |

**Bounds.** `MaxSent`, `MaxBytes`, `MaxTime`, `MaxFactories`, `Texts` and
`MaxErrors` bound otherwise unbounded behaviours by guards on new calls; they
never cut a call short. They are enough for the cases that matter: three sends at
capacity one fill the channel, block a writer and refill the freed slot; four at
capacity two have two items and two sleepers at once; six bytes in buffers of two,
with writes of three, cross segments, reach the pause threshold, resume and pause
again, and take the arena around its ring of two; three threads and two factories
allow one owner, one waiter and a second owner of the same key before the first
promise is set. The texts have lines that span several segments and several reads,
lines that are empty, end in CR, follow each other or are never ended, and
patterns of up to four bytes span up to four segments. Three messages make a full
batch of two and one more, and with two addresses a failure of the first is
followed by a try of the second.

**Deadlock** is checked in every run except those in which the system ends:
`pipeline_storage` (`~pipeline`), `byte_view` (the handler's thread returns) and
`logging` (the logger is destroyed). In the others a state in which nobody can
move would be reported; in those three the invariants and `HandlerEnds` and
`ShutdownEnds` say how it ends. (Threads may always make another call within the
bounds, tokens may be stopped and sleepers may wake up spuriously, so the
questions about calls that sleep forever are asked by properties, not by the
deadlock check.)

**Fairness.** A thread inside a call keeps running (weak fairness), and a
thread that competes for a mutex that is released again and again gets it at
some time (strong fairness). The second is an assumption on the platform's
mutex; `channel.md` promises no fairness beyond it, and neither do we. Nobody is
obliged to make a call, to complete anything, to stop a token, or to wake up
spuriously: no liveness property relies on a spurious wakeup. In `PipeCopy` the
copier and the consumer also make their next call at some time (strong fairness,
since each call begins by taking the pipeline's mutex), and in `cache` factories
end. In `ConnectionHandler` the handler's thread runs and a `close` that has begun
goes on; nobody has to send anything or to close. In `Logger` the two workers and
the destructor go on, and so do the transport's system calls, since each of those
has a timeout. Two things are not obliged to end, and `ShutdownEnds` excepts
exactly them: the response of a peer, because `recv`'s timeout starts again with
every byte, and the worker's `::write` (`log_sink.h:107`), which has no timeout: on
a pipe that nobody reads it blocks, and `~logger` with it.

## What disagrees with the documentation

1. *Channel, lost wakeup* (`channel_impl.h:144`). A read is taken off
   `m_not_empty` by `notify_one`, and its wait returns with the mutex (`:140`). If
   its token is stopped then, before it looks at it at `:144`, it leaves without
   passing the notification on, and another read sleeps on with an item in the
   queue. (A stop that comes before the wait has returned loses nothing: the stop
   callback is still registered, and its `notify_all` wakes the other read too.)
   The same property fails with `Cancellable = {}` and either
   `ReadOps = {"read", "wait_to_read"}` or `Throwing = {r1, r2, w1}`, and holds
   on this instance with none of the three.
2. *Pipeline, never resumes* (`pipeline_impl.h:116`). The test compares
   `m_buffer_size`, a constant, with the resume threshold. With a threshold below
   the buffer size a paused writer never resumes; with any other it resumes as
   soon as a segment is free, whatever the threshold.
3. *Pipeline, cancelled write spins* (`:275`). The token is looked at only
   inside the inner loop, which a paused writer does not enter.
4. *Pipeline, reader completion* (`:61`). The reader's predicate does not look at
   `m_reader_completed`. With `Cancellable = {"writer"}` and no completion the
   same property also fails, because of `:281`: a write cancelled between two
   copies returns without its notification. With neither it holds on this
   instance. `ReaderNotForgotten` states what is left when the last write was not
   cancelled, and holds on the instance of `pipeline_storage`.
5. *Cache, get* (`concurrent_cache.h:192`). The test of the second look is
   inverted: expired entries stay, renewed ones are removed.

Smaller ones, with no run of their own: the writer pauses by the storage it
holds and not by `buffered_size >= pause_writer_threshold` (`pipeline.md:912`);
`write` throws `std::logic_error` where `pipeline.md:236` says
`std::runtime_error`; and an exception of `write` leaves the copy thread of
`pipe_utils.h` before it has completed the writer and ends the process, where
`pipeline.md:869` says that the loop "completes the writer before thread exit". In
`PipeCopy` this is `CopyTerminates`; `CopyDelivers` does not speak against it, it
only says that it takes a consumer that has given up.

## What is proved

**The channel**, for any finite sets of readers and writers, any items, any
capacity (0 included), any choice of operations, cancellable and throwing threads
(`ChannelAssumption`), and any bound on what is sent.

* `ChannelProofs` proves that
  `Inductive == TypeOK /\ WaiterCounts /\ WaitHonoured` is an inductive
  invariant. The counters cannot be proved alone: that they are exact depends on
  who may be inside a wait and who holds the mutex (`TypeOK`). `ChannelInvariant`
  gives `TypeCorrect`, `WaitersCounted`, `WaitsHonoured`. One lemma per kind of
  step: a call that returns at once, one that returns from its wait, one that
  falls asleep, one that looks again, and the steps that block nobody.
  `CompletionReaches` proves `CompletionReachesAll`: a call sleeps only after it
  has found the channel not completed. `StopsHonoured` proves `StoppedStaysAwake`
  in the same way for the token.
* `Refinement` proves `Spec => KeepsPromise`, step by step; `WaitHonoured` is what
  makes a blocking call's "empty" or "false" a promised one.
* `NoWakeupLost` proves `NoLostWakeup` under `TakersOnly` (nothing cancelled,
  nothing thrown, no `wait_to_read`). Finding 1 shows that each of the three is
  needed; only cancellation has a run of its own. The argument counts: an enqueued
  item makes its notifier one of the readers' wakeups, `notify_one` replaces the
  notifier by the thread it wakes, and a woken read leaves with an item. It needs
  the counters to be exact, so that somebody asleep is always somebody notified.
  On a completed channel it holds for readers only.

**The pipeline**, for every buffer size and all thresholds, any sizes of writes
and reads, any cancellation and completion (`PipelineAssumption`), in
`PipelineProofs`.

* `WritersWoken` and `ReadersWoken` prove `WriterNotForgotten` and
  `ReaderNotForgotten`. The inductive invariant
  `Wakeups == Control /\ WriterNotForgotten /\ ReaderTold` adds where the threads
  are and who may sleep, that the flag by which a write decides to notify is up
  while a reader waits, and that a write with nothing left to copy has seen it.
* `StorageFits` proves `StorageBounded`. What is inductive is `Storage`: the
  storage counter is `BufferSize` times the number of segments as long as the
  reader is not completed.
* `NoByteLost` and `CountersAgree` prove `StreamIntact` and `Accounting` from the
  inductive invariant `Stream`. The stream cannot be proved alone: which bytes a
  write appends depends on the counters, and what `advance` pops on the shape of
  the segments. `Filled` says that shape: no segment is empty, only the last has
  room, and only the first may have lost bytes to the reader. `SnapshotKept` proves
  `SnapshotStable`: a write only appends behind the bytes of a view.

**The pools**, for every size and every history of a user that returns its oldest
buffer first, also in `PipelineProofs`: `ArenaAllocates`, `ArenaDeallocates`,
`FixedAllocates` and `FixedDeallocates` say that each operation keeps a pool in
step with what its user holds, and `ArenaNotShared` that an arena in step has
handed out no buffer twice (for the fixed pool this is part of `FixedInStep`).

**The pipeline on its pool**, under the same assumptions and for either pool
(`StorageAssumption`), in `StorageProofs`. The inductive invariant is
`StorageInvariant`: those of the pipeline, its types (`PipelineTypes`), and

* `PoolFollows`, that the pool is in step with the segments' buffers, from which
  `SegmentsNotShared` proves `BuffersNotShared`. That a buffer is left when a
  segment is appended is `StorageFits`; that the oldest is returned first is the
  order in which `advance` pops;
* `PausedFull`, that a paused writer has no room in the last segment and none for
  another, from which `PausedWriterFull` proves `PausedWriterLeavesEnough`. With
  `Filled` it gives the number of bytes that are left, which is exact: all the
  segments the threshold admits, and of the first one at least a byte.

`StorageKeepsPipeline` carries what is proved of the pipeline alone over to the
composition, `~pipeline` included.

**The cache**, for any threads, lifetimes and operations, any shards and at least
one key (`CacheAssumption`), in `CacheProofs`.

* `StampedeProtected`, `NoWaiterAbandoned` and `PromisesKeptOnce` rest on the
  inductive invariant `SingleFlight == Shapes /\ Registered /\ Promises`: the
  registered state of a key is that of its one owner; an owner that still owes a
  result has a pending promise, and no two owe the same one. `WaitersServed` alone
  is not inductive, because a new factory of the key may start while waiters of
  the previous one still wait: it needs that promises, not keys, tell them apart.
* `LiveEntriesKept` proves `LiveEntryKept` from `Timed`: the time `purge_expired`
  has read is never later than the clock. `CacheTypes` proves `TypeOK`.

**The logger, its sinks and the transports**, for any threads that log, any
messages and levels, any batch size, line length and number of addresses, either
transport and any failures (`LoggerAssumption`, `TransportAssumption`).

* `LoggerProofs` proves `LoggerInvariant`: where `main`, the two workers, the
  callers and the transport may be at the same time (`Lifecycle`), who completes
  the channels and that a worker that has ended left them empty (`Queues`), what
  the transport holds at each of its steps (`Transport`), which sinks are there
  (`SinksAdded`), what each worker has in hand (`AtWork`, `Batches`), and who is
  formatting a message (`Texts`). From it follow `LoggerTypes`, `DestructorDrains`
  (`DrainedAtExit`), `TextFormedOnce` (`TextWhole`) and `NothingLeaks`
  (`ResourcesBalanced`). `LinesAreWhole` proves `LinesWhole` with one more
  invariant, which counts short lines and failed writes per sink.
* `LoggerDelivery` proves `RequestExact` (`RequestsExact`) and `EachOnceInOrder`
  (`DeliveredOnceInOrder`). For the first, what the peer has and what `send_all`
  has still to send make the request (`Wire`). For the second, what a sink got,
  what its worker has in hand and what is queued for it form one sequence in which
  each thread's messages are in order and complete (`Order`): a message that is
  logged is appended to it, one that moves from the queue to the worker and from
  there to the output leaves it as it is, and one that the sink does not admit
  drops out.

**Sequences.** `SequenceInduction` holds the facts about `FlattenSeq`,
concatenation and prefixes that the proofs above share. The library's induction
theorems take an operator as a parameter, which the provers do not instantiate;
here induction over the naturals is stated with a set in its place
(`SetInduction`, from the well-foundedness of `<`), and `FlattenSeq` is written as a
recursive function, which the provers unfold.

**Only model-checked:** all liveness, which is out of the prover's reach
(`CompletionReleases`, `SleepersServed`, `CopyDelivers`, `BlockedCallsReturn`,
`HandlerEnds`, `CallsReturn`, `ShutdownEnds`); and the views and the connection
handler (`SlicesExact`, `SearchesExact`, `ReadsExact`, `LinesExact`,
`NoLineForgotten`), whose operations are searches and folds over cut sequences:
each would need an induction of its own, with a reference definition in a form the
provers can unfold.

## What is not modelled, and why

* The chat server (`samples/chat/server.h`): an epoll loop over sockets, whose
  state is nearly all the kernel's. It is the environment of `ConnectionHandler`.
  What a parsed chat command does is left out with it.
* Wording: the text of a log line, JSON and its escaping, timestamps, colours, the
  parsing of an endpoint (it throws or not), the options' `validate` functions, and
  the branches that only print in a debug build. libcurl's inside.
* `std::pmr::unsynchronized_pool_resource`, the pipeline's third allocator, is the
  standard library's.
* `add_sink` while others log, and logging while the logger is destroyed: both are
  data races that the interface leaves to its user. The model adds all sinks
  first, as `samples/chat.cpp` does.
* A formatter that throws: `get_formatted_message` catches it, but
  `get_formatted_args` (`log_message.h:153`) does not, and the OpenTelemetry thread
  would end the program.
* The number of times a `::write` that returns 0 for a non-empty line is made again:
  it is no step, like an interrupted call, and may go on for ever, like one that
  does not return.
* Factories that call back into the cache. `now + ttl` is taken not to overflow.
* `size`, `empty`, `contains` and `read_all` change no state of their own. The
  other samples and the benchmarks only call the library.
