# A TLA+ verification of log_system

log_system is a C++11 logging library: synchronous and asynchronous loggers,
file sinks, and a remote backup of ERROR and FATAL records. This directory
holds TLA+ models of it, the TLC configurations that check them on small
instances, and TLAPS proofs of the properties that matter most. Line numbers
refer to files under `src/`; `PROJECT.json` maps every definition to its lines.

The repository has no README or design document. Its comments, most of them
in Chinese, are the only statement of what the code is meant to do.

## 1. The system

```
 user threads ──Logger::Error/...──► serialize ──enqueue+get──► ThreadPool ──► start_backup ──TCP──► backup server
                                        │                       (thread_poll.hpp)  (cli_backlog.hpp)   (server.hpp)
                          SyncLogger    │   AsyncLogger
                    ┌───────────────────┴────────────────┐
                    ▼                                    ▼
              sinks, in the                     AsyncLooper::Push ──► worker thread ──callback──► sinks
              caller's thread                   (looper.hpp, buffer.hpp)                        (sink.hpp)
```

| component | state | operations | what makes it hard | what makes it correct |
|---|---|---|---|---|
| `Buffer` (buffer.hpp) | vector, `write_pos_`, `read_pos_` | Push, Swap, Reset | starts empty, grows once per Push, an `int` in a `size_t` sum | no write past the end; what is read is what was written |
| `AsyncLooper` (looper.hpp), owned by `AsyncLogger` | two buffers, `mtx_`, two condition variables, atomic `stop_`, a thread | constructor, Push, ThreadEntry, Stop | producers against one worker; an exit test outside the lock; member order | every accepted record delivered once, in order, also across shutdown; Push and the destructor return; idle means blocked |
| `ThreadPool` (thread_poll.hpp) | `tasks`, `stop`, workers | constructor, enqueue, worker loop, destructor | notify outside the lock, many workers, destruction under load, no worker at all | each task once, in order; no lost wakeup; futures ready; the destructor returns |
| `Logger`, `SyncLogger` (logger.hpp) | `mtx_` (never locked), sinks | level methods, serialize, Sink | ERROR and FATAL block on the pool before they sink; sinks shared without a lock | a record reaches every sink exactly once, in the caller's order, after its backup |
| `LoggerManager`, builders | the map of loggers and its mutex, members of a builder | AddLogger, GetLogger, Build | a lazy singleton; check and insert under two locks; a builder used twice | one logger per name for ever; what was built is found and complete |
| `RollFileSink`, `FileSink`, `StdoutSink` (sink.hpp) | `FILE*`, `cur_size_`, `cnt_` | Sink, InitLogFile | shared without a lock; stdio, kernel and disk; restart | files no larger than promised, none reused, flushed data on disk |
| backup client and server (backlog/) | sockets, one log file | start_backup, service | retries, partial reads, one thread per connection, descriptors that are never closed | each record at most once in the server's file; a loss has a cause |
| `Formatter` (formatter.hpp) | list of items | ParsePattern, format | escapes, braces, the end of the pattern | the text the pattern describes |
| `Util::File` (util.hpp) | the file system | Path, CreateDirectory | separators, existing prefixes, two threads at once | all directories of the path exist |
| `RollByTimeSink` (extention/test.cc), an example of a user's sink | `ofs_`, `file_open_time_` | Sink, CreateNewFile | three readings of the clock, unsigned differences, a clock set back | a file takes records of its own time only, and loses none |
| `JsonData`, config.conf | seven settings | constructor | missing file gives zeros | |

The programs in examples/ and bench/ are drivers. tech_learning_code/ is unrelated
to the library.

The hazards section of `PROJECT.json` lists, line by line, what is hard to test
in these parts. Where the code does not do what a comment says, a run shows it
(section 4).

## 2. Modules

| module | what it is |
|---|---|
| `Buffer` | operators for buffer.hpp on a record `[size, w, r, data]` |
| `AsyncLooper` | looper.hpp with the life cycle logger.hpp gives it; extends `Buffer` |
| `LogChannel` | abstract specification: what an asynchronous logger promises |
| `ThreadPool` | thread_poll.hpp and its blocking clients |
| `Executor` | abstract specification: what a pool promises |
| `Stdio` | what sink.hpp relies on of the C library (external) |
| `FileSink` | FileSink of sink.hpp, with exits, kills and power failures |
| `RollFileSink` | RollFileSink of sink.hpp, with one or several unlocked callers |
| `Formatter` | ParsePattern and the items, as functions of the pattern |
| `PatternGrammar` | reference: what a pattern means, by its grammar |
| `Registry` | LoggerManager, both builders and the threads that use them; extends `Formatter` and `PatternGrammar` |
| `NameDirectory` | abstract specification: what a registry of names promises |
| `Backup` | start_backup, its connections and the server that keeps what they send |
| `SyncLogger` | level methods, serialize and the fan-out to the sinks; extends (composes with) `Backup` |
| `Directories` | Exists, Path and CreateDirectory of util.hpp over a directory tree (a component other modules build on; no run of its own) |
| `RollByTimeSink` | the sink of extention/test.cc; extends (composes with) `Directories` |
| `MCAsyncLooper`, `MCThreadPool`, `MCRollFileSink`, `MCRegistry`, `MCSyncLogger`, `MCRollByTime` | instances for TLC |
| `Recursion` | induction over numbers and over sets whose members have a rank; when a function defined by recursion exists; sequences joined from pieces |
| `AsyncLooperProofs` (with the lemmas of `Buffer`), `ThreadPoolProofs`, `FileSinkProofs`, `RollFileSinkProofs`, `RegistryProofs`, `SyncLoggerProofs`, `RollByTimeProofs` | theorems |

Two conventions hold throughout. *A step is what one thread does between two
points where another can act*: a critical section whose data is only touched
under its mutex is one action, an access outside the lock is an action of its
own. *Undefined behaviour stops the model*: the variable `fault` names it, and
no action but stuttering is enabled from there on, since nothing can be said
about what the process does next.

A few definitions carry a comment that calls them slips. They are altered
copies of the definition below them, as a programming error would alter it;
`PROJECT.json` pairs each property with the slip that makes TLC find it
violated. No specification uses them.

### Buffer

`data` is the sequence of records whose bytes lie between `read_pos_` and
`write_pos_`. A record without bytes leaves no trace in it. Integer widths
matter in `ToBeEnough`, where `int buffersize` holds `buffer_.size()`: `AsInt`
and `AsSize` are the conversions, over the constants `IntMod` (2^32) and
`SizeMod` (2^64). `MaxVec` is the largest size `resize()` delivers; past it
the call throws and changes nothing.

### AsyncLooper

| in the model | in the code |
|---|---|
| `Construct` | `callback_(cb)` runs and the constructor returns (looper.hpp:18-22). `thread_` is declared before `callback_` (69, 71), so the thread may be anywhere in its loop by then |
| `Acquire`, `Release`, `refs` | `GetLogger` copies a `Logger::ptr` (logger.hpp:286-293); a pointer is dropped when its holder is done with it, never in the middle of its own call |
| `Call`, `Lock`, `Wait`, `SpuriousWake`, `PushWrites`, `PushThrows`, `PushOverruns` | `AsyncLogger::Sink` and `Push` (looper.hpp:24-33); the three last are the outcomes of `Buffer::Push` |
| `WorkerLock`, `SwapBuffers` | the block under the lock (looper.hpp:43-54), with `notify_one` |
| `RunCallback`, `CallbackMissing` | `callback_(buffer_consumer_)` (55), which is `RealSink` (logger.hpp:201-206) |
| `ResetAndTest`, `Peek` | `Reset()` and the two reads of the exit test (56-57): atomic `stop_`, then `IsEmpty()` without the lock |
| `BeginStop`, `Join` | `Stop` (34-38), from the destructor of the last owner |

`mtx_` is not a variable: `Unlocked` says that no thread is between taking and
leaving it. `cond_consumer_` needs no queue of waiters: the worker reaches its
wait only with `stop_` set, and the predicate then holds (`WaitReturns`).
The history variables `accepted` and `delivered` record what Push took and what
the callback got.

### ThreadPool

| in the model | in the code |
|---|---|
| `Init` | the constructor with `thread_count` threads (thread_poll.hpp:38-63) |
| `Enqueue`, `EnqueueThrows`, `NotifyOne` | `enqueue`: the critical section (76-85), its exception (79-81), the notification after it (86) |
| `Get` | `ret.get()` in `serialize` (logger.hpp:148-152) |
| `Take`, `Sleep`, `SpuriousWake`, `Return`, `RunTask` | the worker's loop (45-61) |
| `SetStop`, `NotifyAll`, `JoinAll` | the destructor (91-100) |

No program of the repository deletes its pool; the destructor is modelled as
the class defines it. `JoinAll` assumes the one rule every owner must keep: the
pool is not freed under a call of `enqueue`. `Get` may also return because the
queue was destroyed with the task still in it (a pool without threads): the
promise is then broken and `get()` throws.

### FileSink

The bytes of a file pass through the buffer of the `FILE` (`buf`), the page
cache (`text`) and the disk (the first `disk` bytes of `text`). A byte is
modelled as the record it belongs to. `Open` is the constructor (sink.hpp:38-48),
`Write` the `fwrite`, `Flush` the rest of `Sink` (49-63). Between the two another
thread's `fwrite` or `fflush` may come: nothing but the lock inside the `FILE`
is shared. `Exit` writes the buffer out, which the C library does for every
open `FILE`; `Killed` and `PowerFails` lose what has not gone further. A `FILE`
that could not be opened ends the process at its first use (`WriteNull`), so no caller
gets past `fwrite` then, which is part of `TypeOK`.
Failing writes are left out: the code only prints a message.

### RollFileSink

| in the model | in the code |
|---|---|
| `Enter`, `TestFull` | the call of `Sink` and the two halves of the test in `InitLogFile`: `fs_==NULL`, `cur_size_ >= max_size_` (sink.hpp:80-83, 104) |
| `TestOpen`, `Close`, `SetNull` | `fs_!=NULL`, `fclose(fs_)`, `fs_=NULL` (106-109) |
| `CreateFilename`, `Spelled`, `Digits`, `IncrementCnt` | the time, printed field by field without padding, and `cnt_++`, which reads `cnt_` and then writes it (121-135) |
| `Fopen`, `FopenFails`, `Assign`, `ResetSize` | `fopen`, the assignment of what it returned to `fs_`, `cur_size_ = 0` (111-116) |
| `Fwrite`, `Ferror`, `UseDead` | `fwrite(..., fs_)` and `ferror(fs_)`, which read `fs_` one after the other (85-86); either, or `fclose`, with a `FILE` that is not open |
| `ReadSize`, `AddSize`, `Flush` | `cur_size_ += len` reads and writes (90); `fflush` or `fsync` (91-98) |

Every access of one member is a step of its own, because nothing stops another
thread in between. What an access has read and the code still needs is in the
caller's locals: `name`, `file` and `size` of `me`. `this` holds the members,
`streams` every `FILE` the process opened, `files` the directory. `Exit` and
`Killed` start a new process in the same directory, with `cnt_` at 1 again. Using
a `FILE` that is `NULL` or closed sets `fault` and stops the model.

### Formatter and PatternGrammar

`item_` is written once, by the constructor, and depends on the pattern alone;
so it is a function, `Items(p)`. `LiteralFrom`, `BracedFrom` and `ParseFrom`
follow the three loops of `ParsePattern` (formatter.hpp:129-176) position by
position, reading a NUL one past the end as `std::string` does; each is a recursive
function of the position. `Accepted` is the
assertion around it (114) together with the one in `CreateItem`.
`PatternGrammar` says what a pattern is without reading one. It is a sequence of
segments: a literal character, a bare directive, or a directive with an argument
in braces, which may be empty. `Spell` writes the segments down (a literal `%` is
written twice), and `Meaning` is what a formatter for them should write.
`WellFormed` excludes what no text can say: an argument that contains a closing
brace, and a literal `{` behind a bare directive. `Broken` describes texts with
which no segment begins: a `%` at the end, a letter without a meaning, braces
that are not closed. These two leave nothing out (section 5, `EveryText`). Texts
are over any set of `Characters` that contains those the code names.

### Registry

| in the model | in the code |
|---|---|
| `CreateBuilder`, `BuildLoggerName`, `BuildLoggerFormatter`, `BuildLoggerSink` | the builder's setters; a formatter that rejects its pattern ends the program |
| `LocalBuild`, `GlobalBuild`, `GlobalBuildNameless`, `WithFormatter`, `WithSink` | the two `Build`s with what they fill in; the assertion on the name |
| `FirstUse`, `LoggerManager`, `GetInstance` | the function-local static: one thread constructs, the others wait |
| `LoggerExist`, `Insert` | the two critical sections of `AddLogger` |
| `Find`, `FindNothing`, `ReadRoot` | `GetLogger` and `RootLogger` of the manager |

A logger is known by its maker, the number of the `Build` and its name. `parts`
holds what it is made of. Sinks are numbers: those a builder was given, in that
order, from 1, and `Stdout`, which is 0, for the one `Build` adds; `given` counts
the first kind. `loggers_` is the set of its values, since each value
carries its key. `seen` and `known` are histories for the properties.

### Backup and SyncLogger

| in the model | in the code |
|---|---|
| `LogBelow`, `Log`, `Enqueue`, `VasprintfFails` | the level methods up to the point where `serialize` sinks or waits |
| `TakeTask`, `Get` | the pool, reduced to the order of its queue and the number of its workers, and `ret.get()` |
| `StartBackup`, `sock` | `start_backup` up to its stream socket, which the kernel may refuse (cli_backlog.hpp:14-46) |
| `Connect`, `ConnectFails` | the retry loop (48-57); without a socket it runs out, however well the server can be reached |
| `Write`, `WriteUnconnected`, `WriteNowhere` | the one `write` (61): on a connection; on a socket that never was connected, which raises SIGPIPE; on -1, which is an error only |
| `Arrive` | TCP: in order, in pieces of any size (external) |
| `Accept`, `ThreadFails` | the accept loop (server.hpp), with its descriptors |
| `Read`, `ReadOverruns`, `ReadNothing`, `ReadFails`, `BackupLog`, `BackupLogFails` | `service` with its single `read` and its four outcomes, and the append |
| `Sink` | the loop over the sinks, one step per sink |
| `ServerStarts`, `ServerStops`, `Down` | the server process; what the kernel does to its connections |

A job is a call of `start_backup`: its caller and the number of the call. Each
has a socket of its own, so connections are indexed by jobs. `client` becomes
`killed` by SIGPIPE. The server never closes a connection, so `fds` only grows
while it runs. `write` never blocks in the model: a record is taken to fit the
buffer of its socket, which is empty before. A record with a zero byte in it,
behind which `service` would keep nothing, is not told from others.

### Directories and RollByTimeSink

A path is a sequence of tokens: the two separators and what stands between them.
`Walk` is the kernel's reading of it, token by token, in which only `/` separates:
the directory it stands in and the name it has read since the last `/`. `Reached`
is where a part of the path leads, and `Passable` says that everything on the way
is there. `Cuts` are the places where the loop of `CreateDirectory` stops, which
takes `\` for a separator too. `Exists` and `mkdir` are separate steps, so that
another thread may come between. `mkdir` may fail although it need not
(`MkdirFails`, for want of permission or space); the loop goes on all the same, and
`refused` remembers whose call it was. Where a `\` stands directly before a `/`,
`CreateDirectory` passes over the `/` and does not make the directory in front of
it (util.hpp:60-64). Such paths are in the model and in the run; the property that
directories are there excepts them (`Unhindered`, with `Plain`).

`Construct`, `NameFile`, `OpenFirst` are the constructor; `Call`, `WriteOn`,
`MustSwitch`, `Close`, `Reopen` are `Sink`, cut where it reads the clock: for
the test, for the name, and for `file_open_time_`. `Elapsed` is the unsigned
difference. `Spill` is the buffer of the `ofstream`. `Tick` sets the clock to any
other time, earlier ones included.

## 3. Properties and runs

| run | instance | checks |
|---|---|---|
| `looper` (`Looper.cfg`) | 2 producers, 2 records each, of 0 or 2 bytes, four configurations, both `AsyncType`s, `FairSpec`; `int` of 8 values, `size_t` of 64, `MaxVec` 31. 179 thousand states | `TypeOK`, `Conservation`, `PeekUnraced`, `NoOverrun`, `StarvedByThreshold`, `ChannelSpec`, `Drains`, `StopReturns` |
| `pool` (`Pool.cfg`) | 2 clients, 2 tasks each, a pool of 0 to 2 threads, `FairSpec`. 35 thousand states | `TypeOK`, `NoLostWakeup`, `StopReachesAll`, `RunsOnce`, `QueueBounded`, `ExecutorSpec`, `FutureReturns`, `DestructorReturns` |
| `file_sink` (`FileSink.cfg`) | 2 callers, 2 records each of 1 or 2 bytes, a buffer of 3 bytes, `flush_log` 0 to 2, two processes. 480 thousand states | `TypeOK`, `CleanRunKeepsAll`, `FlushedSurvives` |
| `roll` (`Roll.cfg`) | 1 caller with 4 records or 2 callers with 1 each, of 0 to 2 bytes, `max_size` 0 to 3, `flush_log` 0 to 2, a clock of 3 times, two processes. 3.3 million states | `TypeOK`, `FilesAlive`, `SizeBounded`, `RollsInOrder`, `NamesFresh` |
| `registry` (`Registry.cfg`) | 2 threads; programs of one thread with one build and the default pattern, every pattern of up to three segments (from 8: `m`, `%`, `{` and `}` as characters, `%d` bare, with an argument and with an empty one, `%m` with one) or a broken tail behind up to one, of two threads with the names "default" and "sync_logger" and one build each, of one thread with two builds, a sink given before either or between the two, and the empty name. 468 thousand states | `TypeOK`, `LookupsAgree`, `BuiltIsFound`, `LoggersComplete`, `FormatsAsMeant`, `DirectorySpec` |
| `sync_logger` (`SyncLogger.cfg`) | 2 callers with 2 calls between them, levels DEBUG, INFO and ERROR with the limit INFO, records of 1 or 2 units where 2 fill the server's buffer, 2 retries, a backlog of 1, 2 descriptors, one stop of the server, 2 sinks, 2 workers, a socket that may be refused, a `read` that may fail, `FairSpec`. 134 thousand states | `TypeOK`, `SavedOnce`, `SinksAgree`, `BackedUpFirst`, `WrittenIsSaved`, `CallReturns` |
| `time_roll` (`RollByTime.cfg`) | 2 sinks constructed at once under any two of 7 base paths, with each `mkdir` refused or not; one sink with 3 records and 3 changes of the clock for each gap; two sinks in one file with 2 records each and 2 changes. 120 thousand states | `TypeOK`, `ConstructorsSucceed`, `WindowKept`, `RecordsKept` |

The properties:

- `Conservation`: `accepted` is `delivered`, then what the worker holds, then
  what waits in `buffer_productor_`. It fails if Swap, Reset or the shutdown
  drop, repeat or reorder anything.
- `PeekUnraced`: the unlocked `IsEmpty()` (looper.hpp:57) never runs while a
  thread is in Push. Nothing in looper.hpp guarantees it; it holds because
  `stop_` is set by the destructor of the last owner.
- `NoOverrun`: `write_pos_` stays within the vector *provided* one growth makes
  room for one record (`OneGrowthSuffices`) and `linear_growth` is far from the
  range of `int` (`GrowthIsNarrow`). Both conditions are met by states of the
  run; without either TLC finds an overrun.
- `StarvedByThreshold`: any positive `threshold`, the shipped one included,
  keeps both vectors empty for ever.
- `ChannelSpec`: `AsyncLooper` implements `LogChannel`, with `delivered` for
  `written` and the end of the worker for `closed`.
- `Drains`, `StopReturns`: every accepted record reaches the callback, unless
  a later Push overruns the vector first, and the destructor returns.
- `NoLostWakeup`, `StopReachesAll`: the two notifications outside the lock
  (thread_poll.hpp:86, 97) leave nobody asleep who has something to do.
- `RunsOnce`, `ExecutorSpec`: each task once, in queue order, and nothing left
  behind when the destructor has joined the threads.
- `QueueBounded`: at most one queued task per logging thread, because
  `serialize` blocks.
- `FutureReturns`, `DestructorReturns`: `get()` returns if the pool has a
  thread; the destructor returns.
- `CleanRunKeepsAll`, `FlushedSurvives`: a record whose `Sink` has returned is
  whole in the file after an exit, and with `flush_log` 1 after a kill,
  whatever the other threads were doing.
- `FilesAlive`, `SizeBounded`, `RollsInOrder`, `NamesFresh`: what rolling
  promises, for a single caller (`Alone`), which is what an AsyncLogger's worker
  is. `SizeBounded` is about the last record of each file: what stood there before
  it was nothing, or less than `max_size_`. Each names the accident that voids it:
  a failed `fopen`, or a name an earlier process has used. With two callers none
  of them holds.
- `LookupsAgree`: one name leads to one logger, for all threads and for ever,
  although several builders of a name may be between the two critical sections
  of `AddLogger`. `BuiltIsFound`: a name can be looked up once its `Build` has
  returned. `DirectorySpec`: together with the lazy construction of the manager
  they make it a `NameDirectory`.
- `LoggersComplete`: a logger anyone can reach has a formatter whose pattern was
  accepted, and every sink its builder was given before, be it for this logger or
  for an earlier one; it has no sink only if a `GlobalLoggerBuilder` was given none.
- `FormatsAsMeant`: a formatter that exists was made from a pattern of the
  grammar and writes what the grammar says, up to the last directive.
- `SavedOnce`: retries, restarts and several connections put no record twice
  into the server's file, nor more of it than was sent.
- `WrittenIsSaved`: a record the client could write is saved whole, or its loss
  has one of the named causes: the server went down, had no thread or descriptor
  for it, failed to read it, read a part of it, or overran its buffer.
- `SinksAgree`: each sink has the records of a thread, those at the limit or
  above, in the order of its calls, each once; the sinks differ by at most the
  record that is on its way.
- `BackedUpFirst`, `CallReturns`: no ERROR or FATAL record is in a sink before
  its backup has been tried to the end; every call returns if there is a worker,
  unless SIGPIPE kills the process or undefined behaviour comes in between.
- `ConstructorsSucceed`: whoever comes back from `CreateDirectory` finds its
  directory, so the assertion on the `ofstream` holds, whatever others construct or
  are refused meanwhile. Excepted is who was refused a directory itself, and a
  path with a `\` directly before a `/`; without either TLC finds a failure.
- `WindowKept`: a record written to a file that is open is less than the gap
  younger than it, and never older, also when the clock has been set back.
- `RecordsKept`: what `Sink` has returned from is in the files and streams once,
  in the order of the calls, even if two names are spelled alike, the clock leads
  back to an old file, or another sink has the file open.

Bounds. Two producers and two records each are enough for every way two
threads can meet in Push, for a record that waits behind another, for a second
swap while the first batch is with the callback, and for a Push between the
last callback and the exit test. Lengths 0 and 2 give records without bytes
and records that exactly fill one growth step of 2.
`IntMod = 8` lets the narrowing in `ToBeEnough` produce negative numbers and
exceptions after a few growths. In the pool, two clients and two workers with
two tasks each give a notification overtaken by another worker, two queued
tasks, and the destructor in every phase of both. In `FileSink` a buffer of 3
bytes holds one record but not two of the longer ones, so a spill splits
records; two processes give a restart behind every kind of end. In
`RollFileSink` four records fill two files and begin a third at each
`max_size`, an empty batch included. Of the three times two are spelled alike
although they differ.

In `Registry` two threads meet at every pair of steps of construction, `AddLogger`
and lookup; the names are the ones the code knows itself ("default" for the
manager's logger, "sync_logger" for a builder nobody has named) and the empty one
its assertion is about. The patterns are the default one, all of up to three
segments over the characters and directives that can be mistaken for each other
(`%`, braces, arguments with a directive inside), and malformed ones: cut off
after `%`, unclosed, or with an unknown directive. In `SyncLogger` two calls
fall to one thread or to two, so that two records are on their way at once and
their connections meet in the backlog, at `accept` and in `service`; two
connections use up the 2 descriptors and leave none for the file. Records of 1
unit fit the buffer of the server, those of 2 fill it or come in two pieces. In
`RollByTimeSink` the times 0:01:10, 0:01:11 and 0:11:01 lie in one or different
windows depending on the gap, and the last two are spelled alike; 3 changes of the
clock lead forth, back and forth again. The seven paths have directories in
common and contain `..`, `//`, an absolute path, a backslash, and a backslash before
a slash.

Fairness. Threads that can run do run (weak fairness on their steps). In
`AsyncLooper`, `Lock` and `WorkerLock` are strongly fair: a thread that asks for
`mtx_` gets it if it is free again and again. Weak fairness would let the
worker, which takes the mutex in a busy loop, starve a producer for ever; the
mutex of the C++ library promises neither, the scheduler below it does in
practice. In `ThreadPool` a critical section is one step, so weak fairness
suffices. Nothing is assumed about calls: no thread has to log, to obtain or to
drop a logger, to destroy the pool, or to be woken spuriously. In `SyncLogger`
some caller that can go on does, some worker does, and so do the server's
threads with the bytes that arrive for them; each of these makes finitely many
steps, so that nobody starves. Nobody has to log, and nobody has to start the
server: `CallReturns` holds because the retries run out.

## 4. Where code and comments differ

| run | property | what TLC finds |
|---|---|---|
| `push_starves` | `PushReturns` | logger.hpp:196 has the record in the buffer when `Sink` returns. With a positive `threshold`, an `ASYNC_SAFE` Push waits for room in a vector that stays at size 0 |
| `idle_spins` | `IdleWorkerBlocks` | looper.hpp:46 has the worker block without data. The test in line 45 is inverted, and it spins |
| `no_room` | `EnoughRoom` | buffer.hpp:17 says that `ToBeEnough` ensures the capacity. It grows once, by nothing if the vector is empty, and `std::copy` overruns it |
| `sync_without_flush` | `SyncedSurvives` | util.hpp:182 has `flush_log` 2 sync the log to the disk. `fsync` without `fflush` leaves the record in the buffer of the `FILE` |
| `roll_race` | `RoomWhenWritten` | sink.hpp:82 has `InitLogFile` make sure that the file need not roll. Another thread may fill it before the `fwrite` |

Two more comments do not agree with the code. No run is spent on them, since each
can be seen in a line or two:

- logger.hpp:320 has a `GlobalLoggerBuilder` that was given no sink use the
  standard output ("如果落地方式没有指定，那么采用默认的标准输出"). Line 321 creates the
  `StdoutSink` and drops it, and the logger writes nowhere. `GlobalBuild` is modelled
  so, and it is the exception `LoggersComplete` makes (`MayBeMute`).
- cli_backlog.hpp:1 speaks of the backup of records of the level DEBUG and above
  ("远程备份debug等级以上的日志信息"), as server.cpp does. `serialize` backs up ERROR and
  FATAL only (logger.hpp:148; `NeedsBackup`).

The models contain further behaviour that surprises, without a comment that
promises the opposite:

- When the last retry fails, `write` is called on a socket that never was
  connected, and SIGPIPE ends the logging process (cli_backlog.hpp:54-61;
  `WriteUnconnected`).
- A read of 1024 bytes puts the terminating NUL behind the buffer
  (server.hpp:109; `ReadOverruns`), and a record that arrives in two pieces is
  kept up to the first read (server.hpp:104).
- Connections are never closed at the server; when they have used up its
  descriptors, `fopen` fails and the assertion behind it ends the server
  (`BackupLogFails`).
- The server handles each connection in a thread of its own, so its file may
  have two records of one caller in either order.
- Literal text behind the last directive of a pattern is lost
  (formatter.hpp:148).
- `GAP_HOUR` is 360 seconds (test.cc:20), and `RollByTimeSink` never flushes: a
  record may be in its stream until the file changes.
- `UnSerialize` returns false whatever happens (util.hpp:152); nobody looks at it.

## 5. Proofs

`tlapm` checks every proof to the last leaf. The theorems hold for all values of
the constants that meet the assumptions named in the modules (`BufferAssumption`,
`LooperAssumption`, `PoolAssumption`, `StdioAssumption`, `FileSinkAssumption`,
`RollAssumption`, `RegistryAssumption`, `CharactersAssumption`,
`GrammarAssumption`, `BackupAssumption`, `SyncLoggerAssumption`,
`DirectoriesAssumption`, `RollByTimeAssumption`). They say that bounds are natural
numbers, that special values differ from ordinary ones, that a time of day and a
gap do not exceed a `size_t`, that the fields of a time have at most two digits,
and that the working directory exists and every directory that exists has its
parent. `CharactersAssumption` says that the characters the parser knows are among
`Characters`; `GrammarAssumption`, that whatever is passed as a pattern is spelled
by an element of `Grammar`, as a whole or up to a broken tail. The lemma
`EveryText` shows that every text is of this form, so `Grammar` can be chosen for
any patterns: the assumption is about the choice of a constant and no restriction
of the callers.

**Recursion** makes induction over data available to the other modules. The
theorems of the library take an operator as a parameter, which the provers cannot
instantiate; here a statement about all numbers is the *set* of numbers it holds
for. `LeastNumber` follows from the well-foundedness of `<`, `RankInduction` from
it, for any set whose members have a bounded rank, and `RecursiveFunction` says
that a function defined by recursion exists if each step uses arguments of a lower
rank only. With it the recursive functions of the models (`Walk`, `LiteralFrom`,
`BracedFrom`, `ParseFrom`, `AllWritten`, `FlattenSeq` of the community modules)
are unfolded once, in a lemma that gives their equation and their range, and
used through that lemma. For `FlattenSeq` the module goes on to what the other
proofs need of joined sequences: appending to the last one (`FlattenExtend`),
joining two lists (`FlattenConcat`) and where each piece stands (`Pieces`).
`Backwards` is induction from the last position of a sequence to the first.

**AsyncLooperProofs** begins with the facts about the operators of `Buffer`: the
range of the conversions, that a growth which does not throw yields at most
`MaxVec` bytes, that a push that fits keeps `w <= size`. `TypeCorrect` is
inductive as it stands and everything below uses it. The invariants build on each other:

1. `OwnersCorrect`: a thread inside Push holds a `Logger::ptr`, and once
   `stop_` is set nobody holds one. `PeekIsUnraced` follows, since the worker
   peeks only after it has seen `stop_`.
2. `BuffersCorrect`: `r = 0`, a buffer is empty exactly if its `data` is, and
   `buffer_consumer_` is empty except between swap and Reset. With it
   `RecordsConserved` is inductive, and `ImplementsChannel` follows step by
   step: Push maps to Accept, the callback to WriteBatch, the exit to Close
   (which needs the producer buffer empty and nobody left to fill it).
3. `ThresholdStarves` and `SizesAreNarrow` bound the vectors; `NeverOverruns`
   combines them with the wait of `ASYNC_SAFE`.

**ThreadPoolProofs.** `TypeCorrect` and `StopCorrect` come first;
`NoWakeupIsLost` and `StopWakesEveryone` follow. `HistoryCorrect` says that the
queue is the tail of `accepted`, and `ServiceCorrect` that a started task is
being run by exactly one worker or ready. From these come `TasksRunOnce`,
`QueueIsBounded` and `ImplementsExecutor`.

**FileSinkProofs.** The invariant adds `WrittenStands` to the properties: between
`fwrite` and the end of its `Sink` a record stands whole in what file and buffer
hold together. It is kept because a buffer is only ever cut, never reordered,
and because appending to a text leaves whole what stands in it (`WholeAppend`,
`WholeAtEnd`, `Cut`). `TypeCorrect`, `CleanRunLosesNothing` and
`FlushedAlwaysSurvives` follow, for any number of threads, bytes and processes.

**RollFileSinkProofs.** For a process whose only caller is `c`, the invariant has
four parts, each with a line for the places in the code where it says something
else. `Types`. `Pointed`: where `fs_` is NULL, and where it, or what `fopen` has
returned and `Assign` will store, is a `FILE` that is open. `Numbered`: in the first
process all names carry numbers below `cnt_`, and below the one `fopen` is about to
be given. `Sized`: `cur_size_` is the length of the open file wherever the code
relies on it, or will be once `AddSize` has added what `fwrite` has written; `fwrite`
is only reached with an empty file or room in it, so every file is `InBound`, that
is, was empty or below `max_size_` before its last record; and streams and files
belong together one to one until a name is reused (`Distinct`). Which record is the
last is kept through every cut of the buffer (`CutIsWhole`, `LastOfGrown`).
`FilesStayAlive`, `FirstNamesAreFresh` and `FilesAreBounded` follow. How a time is
spelled is not looked into, so these results hold for every spelling.

`RollsAlwaysInOrder` adds `Ordered`: as long as there is no mishap, the contents of
the streams, joined, are what was sunk; `fs_` is the last stream, if any; and every
stream before it, and that one too once `fs_` is NULL or about to be, has been
retired, that is closed, emptied and full. `Fopen` appends an empty content to
those joined (`FlattenAppend`), `Fwrite` extends the last one wherever the buffer is
cut (`FlattenExtend`, `Grown`), `Close` and `Flush` leave all of them (`WriteOut`).
`TypeCorrect` holds for any number of callers. It needs what `fflush(NULL)` and
`exit()` write out of all streams (`AllWrittenType`) and that a time is spelled
from digits (`SpelledType`).

**RegistryProofs.** The invariant is `Types`, `Managed` (who is past `GetInstance`
finds the manager ready and its logger registered; one thread at most
constructs) and `Registered` (what was seen or inserted stays in `loggers`, and
no two loggers there share a name). From it come `ManagerIsComplete`,
`LookupsAlwaysAgree`, `BuiltIsAlwaysFound` and, step by step,
`ImplementsDirectory`: `Insert` and `LoggerManager` map to `Register` or a
stutter, `Find` and `FindNothing` to `Answer`.

`LoggersAlwaysComplete` has an invariant of its own, `PartsInv`: a builder is
`Sound`, that is, it has every sink it was given, and no formatter yet or one
whose pattern was accepted; and every logger that a thread holds or `loggers_`
contains is `Complete`. What `Build` fills in leaves the given sinks alone
(`DefaultsReady`, `GivenAreThere`), and another sink takes the next number
(`AppendGiven`). It rests on the parser. The default pattern is accepted
(`DefaultIsAccepted`, read directive by directive), or the loggers that fall back
on it would not exist; and the equation of `ParseFrom` holds for every pattern
because the two inner loops never go back (`LiteralForward`, `BracedForward`,
`ParseAdvances`), so that every pattern is parsed to its end.

`SpelledIsMeant` and `AcceptedIsSpelled` are about `Formatter` alone, and say of
every pattern of any length what it is parsed to. The parser skips text and
gives up where no directive follows; the grammar knows nothing of positions. The
proof ties them together in two directions.

1. *What is spelled is read.* `Places` finds every segment at its place in the
   spelled text. `SegmentRead` reads one segment there: what is written from that
   place on is its meaning, ahead of what is written from the next place on
   (`LiteralRead`, `BareRead`, `BracedRead`), and a place from which nothing is
   read any more is one behind which no directive stands. `NoBraceBehind` is
   where `WellFormed` is needed. Going `Backwards` from the last segment,
   `SpelledIsRead` arrives at the whole pattern: it is accepted and written as
   its segments mean up to the last directive.
2. *What is not spelled is refused.* `FirstSegment`: a text that is not `Broken`
   begins with a segment. Taking segments off as long as there are any, each
   text is spelled by segments and a tail that is empty or `Broken` (`EveryText`;
   the shortest tail is the one to look at). `BrokenIsRefused`: with a broken
   tail the parser reads up to it (`KnownByTail`) and fails an assertion there.

So `Accepted` and the grammar agree on every text. `FormatsAlwaysAsMeant` states
`FormatsAsMeant` for every run of `Registry`: by `PartsInv` the formatter of a
builder was accepted, by `GrammarAssumption` and `BrokenIsRefused` its pattern is
then spelled by an element of `Grammar`, and by `SpelledIsRead` it writes what
that element means. An attempt at this proof showed that the
grammar had no directive with an empty argument, which the parser accepts;
`%d{}` is in the grammar and in the run since.

**SyncLoggerProofs.** `BackupInv` ties a job to its connection (`JobInv`: before
its one write it has sent nothing), a connection to one place in the backlog
(`QueueInv`), and an entry of the file to a connection that is served for good
(`FileInv`); that is why no record is saved twice. `CallerInv` says that a caller
inside `Sink` has its backup behind it and that records not made yet are nowhere.
`TypeCorrect`, `NothingSavedTwice` and `AlwaysBackedUpFirst` follow, for any
number of callers, workers, retries, descriptors and sinks. `SinksAlwaysAgree`
adds `DeliveryInv`, which says of each caller and each sink which of the caller's
records the sink has: those its calls have passed, and the one on its way if the
loop over the sinks has come past it (`SunkInv`, `InCallInv`). Records of other
threads may stand between them.

**RollByTimeProofs.** `WindowIsKept` rests on `Wrapped`: the unsigned difference
divided by the gap is 0 only for times from `file_open_time_` to the end of its
gap; an earlier time wraps to a difference that exceeds every gap.

`RecordsAreKept` is proved from `RecordInv`: of each sink, the numbers of its records
rise along every file (`InOrder`), no number is in two files, and all up to the
last one written are somewhere; a file holds records of others in between
(`ConcatAliens`). A change of the file, a spill or another sink's append keeps it,
because each only joins a stream's rest to the end of its own file.

`ConstructorsAlwaysSucceed` is proved from `MakersInv`. `Closed`: every directory has
its parent, which `mkdir` keeps because it fails without it. `Through(p, n, D)`:
all directories on the way to token `n` of the path `p` exist. `OnItsWay`: a maker at
a cut has come `Through` its path up to there, unless the kernel has refused it a
directory or its path is not `Plain` (`Making`), and no step of another maker takes
a directory away. `NothingBetween` is the heart of it: from one cut to the next one
the kernel passes through no directory that the loop has not made or found, whatever
`.`, `..` and repeated separators stand in between. At the end of the loop the
whole path is `Passable`, and that is what opening the file needs (`PathPassable`).
The appended file name contains no `/`, since the fields of a time are spelled from
digits (`DigitsAre`).

Only model-checked:

- liveness (`Drains`, `StopReturns`, `FutureReturns`, `DestructorReturns`,
  `WrittenIsSaved`, `CallReturns`), which is out of the prover's reach;
- the disagreements of section 4, which are counterexamples.

## 6. Not modelled, and the plan

Not modelled, and why:

- JSON parsing and `GetContent` (util.hpp): reading one file at the start, in the
  hands of jsoncpp. What they may yield are constants of the models.
- the text of a time, a level or a thread id (formatter.hpp, level.hpp): the
  format functions of C and C++; `Format` says which of them are called.
- `StdoutSink` and `LogSinkFactory` (sink.hpp): one call of `cout.write`, and one
  of `make_shared`.
- the datagram of `start_backup`: nobody reads it.
- a `bind` or `listen` that fails, a disk that is full: the code ends or prints a
  message.
- `bench`, `examples`: drivers; tech_learning_code: exercises nothing uses.

What could come next: `LogSystem`, an asynchronous logger with its looper, its
pool and a rolling sink in one specification, for the fate of a record whose
backup throws while the logger is being destroyed.
