# DataSeries: models, model checking and proofs

DataSeries stores typed records in files made of *extents*: blocks of rows of one
type that are packed and compressed one by one. Programs write extents through a
sink, read them through modules, and compose modules into pipelines. This directory
has TLA+ models of the parts where the order of events decides what happens: the
threads that write and read files, files whose writer stopped, the server that runs
queries over tables of extents, the joins of the NFS analyses, and the packet capture that
feeds the converters; and of the packing of an extent, where the order of its passes does. TLC
checks them on small instances, TLAPS checks proofs for instances of every size.

Paths below are relative to the repository; `src/src` of the tree is written `src`.

## Inventory

| Component | State | Operations | Talks to |
|---|---|---|---|
| `DataSeriesSink` (`src/base/DataSeriesSink.cpp`) | one mutex, three condition variables, queue of extents, byte count, thread pool, file offset, index, `Stats` | open, writeExtentLibrary, writeExtent, flushPending, setMaxBytesInProgress, setExtentWriteCallback, removeStatsUpdate, close | client threads, callbacks, the file |
| `RotatingFileSink` (`src/base/RotatingFileSink.cpp`) | two mutexes, one condition variable, current sink, pending extents, new file name, callback | writeExtent, changeFile, waitForCanChange, flush, close, destructor, worker | one `DataSeriesSink` after another, whose callbacks call back into it |
| `IndexSourceModule` (`src/module/IndexSourceModule.cpp`) | one mutex, three condition variables, two byte-bounded queues, done flag, abort count | startPrefetching, getSharedExtent, close, resetPos | a subclass that finds extents, `DataSeriesSource` |
| `PrefetchBufferModule` | mutex, one condition variable, buffer, byte count, three flags | getSharedExtent, startPrefetching, destructor, prefetch thread | any source module |
| `DataSeriesSource`, the file format, `dsrecover` | file, offset, tail and index, count of failures | open, read the next extent, read by the index, recover | what `DataSeriesSink` wrote |
| `data-series-server` (`src/server`) | `table_info`, the files, the chain of modules of a request | sixteen requests, the exceptions they end with | clients; modules; the file system |
| query modules of the server | series, hash tables, merge queues, the output extent | getSharedExtent | one another |
| `TypeIndexModule`, `OutputModule`, `TeeModule` | cursor in index and file list; current extent and series | next extent; newRecord, flushExtent, close | sources; a sink |
| `driverdump` (`src/raw-collection/network-driverdump`) | three slots of buffers, semaphore, wait queues; files, threads, signals | setup, file, finish and abort ioctls, the receive interrupt, `main` | the kernel, the files |
| `MinMaxIndexModule`, `SortedIndexModule` | as `TypeIndexModule`, and values of the index | next extent that can match | `TypeIndexModule` |
| `Extent` (`src/base/Extent.cpp`), `Variable32Field` | fixed and variable data, null bits; while packing the values of the record before and a table of unique strings | packData, compactNulls, uncompactNulls, unpackData | compressors; `ExtentType` |
| `ExtentType` | fields with packing options, layout of the record | parse | |
| `ExtentSeries`, other fields, `GeneralField`, `DSExpr` | position in an extent, values, expressions | iterate, set, get, convert, evaluate | `Extent` |
| NFS merge joins (`src/analysis/nfs/MergeJoins.cpp`) | three series, two rotating tables of requests, two halves of side data, the output extent | getSharedExtent of each join, finishCheck, finalCommonSideData | three tables of a trace, cut by `TimeBoundPrune` or `nfssubset`; each other |
| programs (`src/process`), other analyses, converters | options, files, tables of requests | dsrepack, dsanalysis, nettrace2ds, ... | everything above |

What is hard, and what correctness means:

* **DataSeriesSink.** Client threads, a pool of compressors and one writer share a
  queue; two of the three kinds of work are done without the mutex through pointers
  into the queue. Extents must reach the file in the order in which they were
  queued, each once; the byte count must be exactly what is held; nobody may stay
  asleep; close() must leave a file whose index and tail match its contents; the
  `Stats` of a caller may be deleted after removeStatsUpdate.
* **RotatingFileSink.** The file changes while extents are written. Order and
  completeness must hold across files; a change may be asked for from a thread, from
  a callback running inside the sink being replaced, and by close(); mutex is held
  across calls that block.
* **IndexSourceModule.** Extents are unpacked in parallel but returned in file order,
  within two memory limits; several threads may close at once; the end of the source
  may be found while the reader is asleep.
* **PrefetchBufferModule.** One condition variable, only ever signalled, serves the
  thread, the reader and the destructor.
* **A damaged file.** A writer that stops leaves no tail. What an error leaves behind in
  the offset decides what the next read finds; nothing may be taken for an extent that
  is none, and recovery must neither loop nor give up too early.
* **The server.** Each module is called once for each extent of output and keeps what
  is left of its input, so every result depends on where extents end, in the inputs and
  the output. An exception, an assertion or a kill leaves files behind.
* **Packing.** A record is packed in five passes, each of which changes what the next one
  reads, then compacted; unpacking must undo them in the other order, and agree on which
  fields a null leaves out, on alignment, and on what the record before was.
* **NFS merge joins.** Three tables in the order of their ids are merged, each in extents
  that end anywhere, and requests are forgotten as time passes. Nothing may be lost, doubled
  or paired wrongly; and the second join looks up what the first, which is ahead of it, has
  seen.
* **driverdump.** An interrupt handler, three threads in ioctls, signals and the next
  run of the program share three buffers that are mapped user memory.

`PROJECT.json` lists every component with its status, and every hazard with the
properties that cover it, or why none does.

## Modules

| Module | What it is |
|---|---|
| `ExtentLog` | abstract: what a sink promises (an ordered log, sealed when complete) |
| `DataSeriesSink` | the write pipeline; implements `ExtentLog` |
| `RotatingFileSink` | changing files; its `DataSeriesSink`s are reduced to what the runs of `DataSeriesSink` establish |
| `ExtentStream` | abstract: what a source promises its reader (in order, none lost, then the end) |
| `IndexSourceModule`, `PrefetchBuffer` | the two prefetching sources; both implement `ExtentStream` |
| `FileRecovery` | a file that broke off or was damaged, and its readers |
| `TableOperators` | what each query is defined to compute, on whole tables |
| `ServerModules`, `SortedModules` | the query modules, one step for each turn of their loops |
| `DataSeriesServer` | the requests, files and `table_info` around the modules |
| `ExtentLayout` | the layout of the records of a type, and which types there are |
| `ExtentPacking` | an extent from the rows put in to its packed form and back |
| `NFSTrace` | the tables of an NFS trace, and what cuts them |
| `NFSMergeJoins` | the two joins, one step for each turn of their loops |
| `DriverDump` | kernel side and program side of the capture, with signals, kills and runs after it |
| `SequenceSums` | the sum of a sequence of numbers, in which bytes are counted |
| `OperatorTheorems` | induction, sums, concatenations, and what the operators on tables compute of a table in parts |
| `*Proofs` | theorems about the module of that name |
| `MC*` | constants, symmetry and inputs for TLC |

Conventions of the modules about threads:

* **One action per critical section.** An action is what a thread does from taking
  the mutex to releasing it, by an unlock, a scoped unlock or a wait. Work without the
  mutex (packing, writing, unpacking, reading) is a step of its own, so that every
  interleaving with it is explored. Where the mutex is released several times in one
  function, the function has several actions, and `pc`, `compressor`, `writer`,
  `prefetcher`, `unpacker`, `worker` say where each thread is.
* **Condition variables.** A thread that waits is at a place of its own and only a
  signal or a broadcast moves it to where it tests its condition again; a signal wakes
  one of the waiting threads, any one. There are no spurious wake-ups: all waits are
  in loops, so these could only hide a lost wake-up.
* **Assertions.** `INVARIANT`, `SINVARIANT`, `FATAL_ERROR` and `BUG()` stop everything. A
  failed one sets `aborted`, `failed`, `bug` or `"dead"`, after which nothing happens; that
  this never comes, or only as documented, is part of a property.
* **Extents are names.** `<<writer, number>>`, or a number; sizes are constants.
* **Callbacks are numbered** in the order in which they were set; 0 is none.
* **History variables** (`fence`, `accepted`, `delivered`, `ended`, `closed_early`,
  `version`, `resets`, `calls`, `written`, `before`, `copied`, `joined`, `merged`) are written, and read only by
  properties and bounds.

### DataSeriesSink

| Code | Actions |
|---|---|
| open, startThreads | `Open` |
| writeExtentLibrary | `QueueLibrary`, `MarkWroteLibrary` |
| writeExtent, queueWriteExtent | `WriteExtent`, `QueueWakeup` |
| flushPending | `FlushPending`, `FlushWakeup` |
| setMaxBytesInProgress, setExtentWriteCallback, removeStatsUpdate | actions of the same names |
| compressorThread, lockedProcessToCompress | `CompressorRun` (claim), `Pack`, `CompressorDone` |
| writerThread, writeOutPending | `WriterRun`, `WriteOut("writer")`, `WriterDone` |
| close, stopThreads | `CloseBegin`, `JoinCompressors`, `JoinWriter`, `WriteOut("closer")`, `CloseIndex`, `PackIndex`, `Seal` |

`WriteOut` is one extent of a batch: callback, wipe, index entry, write. The
documented preconditions are guards: extents are written between writeExtentLibrary
and close(), and no writeExtent is in progress when close() is called. flushPending,
setExtentWriteCallback, setMaxBytesInProgress and removeStatsUpdate may come at any
time. stopThreads clears `compressors` outside the mutex, after the joins; as
`JoinCompressors` is a step of its own that any other step can precede or follow,
both outcomes of a concurrent canQueueWork are explored.

Left out: the bytes of header, tail and extents; a failed `write` (it asserts);
rotate() (not implemented in the code); getStats (a pure read).

### IndexSourceModule

| Code | Actions |
|---|---|
| startPrefetching | `startPrefetching` |
| getSharedExtent | `getSharedExtent`, `ReadyWakeup` (each `WaitForExtent`, `FindEnd` or `TakeExtent`), `CloseAtEnd` |
| compressedPrefetchThread | `PrefetchRun`, `PrefetchRead` |
| unpackThread | `UnpackRun`, `UnpackDone` |
| close | `Close`, `CloseAtEnd`, `WaitForThreads`, `JoinThreads`, `CloseWakeup` |
| resetPos | `Close` then `resetPos` |

The subclass is a cursor over `1..NExtents`: lockedGetCompressedExtent returns the next
extent through readCompressed, which releases the mutex while it reads, or NULL.
`JoinThreads` joins with the mutex held, as the code does; `AbortCounts` is why that
does not deadlock (all threads have given up the mutex for good when the count is 1).
resetPos() returns with the mutex locked. From then on nothing can take it, which the
model says with `mutex_kept` (see What was observed).

Left out: wait statistics, isClosed, waitFraction, errors of reads (they assert).

### RotatingFileSink

| Code | Actions |
|---|---|
| writeExtent | `WriteExtent`, `WriteReturn` |
| setExtentWriteCallback | `setExtentWriteCallback` |
| flush, waitForCanChange | `Flush`, `FlushWait`, `FlushLock`, `FlushReturn` |
| close | `Close`, `CloseCallback`, `CloseChange`, `CloseRetry`, `CloseEnd`, `AfterClose` |
| destructor | `Delete`, the actions of close, `StopWorker`, `JoinWorker` |
| changeFile, canChangeFile | `RotaterChanges`; in callbacks `CallbackChecks`, `CallbackChanges` |
| worker, workerNullifyCurrent | `WorkerRun`, `Nullify`, `CreateSink`, `SwapSinks`, `HandOver`, `HandOverEnd`, `FinishChange` |
| a `DataSeriesSink` | `TakeBatch`, `CallCallback`, `WriteOne` |

worker_mutex is only ever held within an action. mutex is held while writeExtent and
flush block on the current sink and while the worker hands over pending extents, so it
is a variable. A `DataSeriesSink` is a queue, a batch with its copy of the callback and
the file; the runs `sink` and `sink_live` show that the real one behaves like that
(in order, callback copied per batch, flush waits for queue and batch, room is
announced). Its type library extent is left out.

Preconditions of the destructor, which the code documents in its assertions: no other
thread uses the object, and no extents are pending. Callbacks may still run.

Left out: registerType (only valid before the first file), getNewFilename, getStats and
removeStatsUpdate (FATAL_ERROR in the code).

### PrefetchBuffer

| Code | Actions |
|---|---|
| prefetcherThread | `PrefetchRun`, `PrefetchGot`, `PrefetchEnd`, each up to the next unlock or wait (`Loop`) |
| getSharedExtent | `Get`, `GetWakeup` (each `Take`, `ReturnNull` or `Wait`) |
| startPrefetching, destructor | `startPrefetching`, `Destroy`, `Join` |

The source is a cursor over `1..NExtents`, read without the mutex. Sizes are given by
`EndOffset`, the bytes up to and with each extent, so that the size of any run of
consecutive extents is a difference and no property needs a sum. Left out: the build with
`COMPILE_PROFILE`, which has no thread.

### FileRecovery

A file is a row of pieces: the header with the extent of the types, extents, the index,
the tail. It is measured in words; the first word of an extent stands for the fields of
its prefix that give its length. A writer stops anywhere (`Crash`), also with the end of
what it wrote lost, since nothing is synced before the tail; then up to `MaxDamaged`
words become something else.

| Code | Actions |
|---|---|
| checkHeader, readTypeExtent, readTailIndex | `Recover`, `Read`, `Refused` |
| dsrecover's loop over readExtent and preadExtent | `readExtent`: `ReadEof`, `ReadShort`, `ReadKnown`, `ReadTail`, `ReadJunk` |
| lockedGetCompressedExtent, what unpacks | `ReadIndex` |

`ReadJunk` is a read at a damaged length or in the middle of an extent: the length found
there is any number, so the offset moves by at least the prefix, to anywhere in the file.
The checksums are taken to tell every damaged word; a program that does not ask for them
(see What was observed) has none of the guarantees. Left out: the swap of byte order, the
XML of the types, closing and reopening by modification time.

### The server

`status` says who has the turn: a module (`"run"`), the TeeModule (`"returned"`), the server
again (`"rename"`, `"error"`), what writes a file without modules (`"write"`: createTable,
importData, a child process), the clients (`"idle"`), or nobody (`"dead"`, `"killed"`).

| Code | Actions |
|---|---|
| requests, their checks in their order | `InvalidRequest`, `NullTypeUsed`, `StartRequest`, `StartUpdate`, `StartImport`, `StartWrite` |
| createTable, importData, csv2ds and sql2ds | `StartWrite` truncates the file, `CreateTable`, `ImportRows`, `ImportChild` finish it |
| TypeIndexModule | `CopyExtent` (merge, import, get), and what every `*Pull`, `*Load` and `Fetch` reads |
| SelectModule, ProjectModule | `SelectExtent`, `ProjectExtent` |
| ExprTransformModule | `TransformStart`, `TransformPull`, `TransformRow`, `TransformNextExtent` |
| HashJoinModule, StarJoinModule | `HashBuild`, `HashPull`, `HashExtent`; `StarBuild`, `StarPull`, `StarExtent` |
| SortModule | `SortLoad`, `SortMerge` |
| UnionModule | `UnionFirst`, `UnionRow`, `UnionDone` |
| SortedUpdateModule | `MergeRow`, `BaseOnly`, `UpdateOnly`, `MergeEnds` |
| TeeModule, OutputModule, TableDataModule | `TeeExtent`, `TableDataExtent` |
| the end of a request | `DataComplete`, `Complete`, `CompleteUpdate`, `Rename`, `Unwind` |
| shutdown, a signal, the next start | `Kill`, `Restart` |

A row has a key, a value and an update column, each a number or null (0). Expressions,
the columns that a join extracts and the output types are fixed; an extent holds `Limit`
rows instead of bytes. TSimpleServer serves one request at a time, so nothing else runs
while one does. A type has a name and fields (`RowTypes` are those of imported tables); the
server looks a type up in a file, and compares the tables of a merge, by the name alone (`Has`,
`SameName`), and TypeIndexModule compares whole types when it opens the next file (`SameType`).
A table with `NullType` is one whose extents gave the server no type: the next request
dereferences it. mergeTables and unionTables do so for each table before they look at the
next one, the others after all their tables were found (`InTurn`).

Left out: ping, the where clause of getTableData, table names, the text of errors, what
csv2ds and sql2ds do in the child process, and a child that outlives a server that was
killed; more than one dimension or sort column; names of types that are found as a
prefix or part of another name; files to import that differ in type; columns that a request names
and that have different types in its tables.

### DriverDump

| Code | Actions |
|---|---|
| do_driver_packet_dump_rx_skb (interrupt) | `Receive`, `Promote`, `WakeFilled`, `TakeEmpty`, `WakeWaiters`, `Copy` |
| do_driver_packet_dump_file | `Enter`, `EnterAgain`, `CheckEmpty`, `MapPages`, `CheckFill`, `TakeFilled`, `CleanUp`, `DownInterrupted`, `Failed` |
| setup, finish, abort | `Setup`, `StartFinish` and `EndFinish` for each caller, `Abort` (their wake-ups: `ScanFails`) |
| BUG(), NULL or freed memory | `Crash` |
| dpd_dofile, dofile_pthread_start | `Prepare`, `Returned`, `Leave` |
| main, signals, SIGKILL | `FirstFinish`, `RunAgain`, `MainGoesOn`, `AllGone`, `LastFinish`; `Signal`, `Kill`, `Die`, `Dead` |

The semaphore is held across actions by finish, which sleeps for two seconds with it, and
by a thread that maps the pages of a new buffer (`MapPages`) or releases those of a full one
(`CleanUp`): other threads can be interrupted while they wait for it.
A packet is its number; sizes alternate so that buffers end with room left and without.
The interrupt handler runs beside the ioctls: `handler` says which of its steps is next, and
everything else may happen between two of them. `filled = filling; filling = NULL` is one
step: a thread that takes the buffer between the two stores does so before the wake-up,
which is what `Promote` then `TakeFilled` does too. `BusyFinish` lets others than driverdump call finish while a file ioctl
runs; it is `FALSE` in the runs (see What was observed). Left out: mapping and copying of
pages, the test and getstats ioctls, the statistics thread, promiscuous mode.

### ExtentPacking

| Code | Actions |
|---|---|
| set of the fields of a new record | `AddRecord` |
| packData | `PackStart`, `PackRecord` (`ZeroNulls`, `PackString`, `PackOther`, `PackSelf`, `PackScaled`), `PackEnd` |
| compactNulls | `CompactRecord`, `CompactEnd` |
| uncompactNulls | `UncompactRecord`, `UncompactEnd` |
| unpackData | `CheckHash`, `UnpackRecord` (`UnpackScaled`, `UnpackSelf`, `UnpackOther`), `UnpackEnd` |

A step is one turn of the loop over the records. Integers are modulo 2^`IntBits`, so that
differences wrap as they do in C; doubles are whole numbers with a scale above one, which is
where rounding loses something. A compacted extent says what is at which byte: alignment is
by address, and reading where nothing starts gives `Garbage`. A hash is what it was taken of.
What `unpackData` checks only when told to (the hash, the offsets of strings) is checked.
Left out: the compressors (they return what they were given), sizes and checksums of the
header, the swap of bytes, the warning of a bad scale.

### NFSMergeJoins

| Code | Actions |
|---|---|
| the converter; nfssubset, TimeBoundPrune | `Capture`; `Open` |
| AttrOpsCommonJoin::getSharedExtent | `CallJoin`, `NextCommon`, `EndOfAttrOps`, and of a record and a row `EarlyRecord`, `SkipRow`, `MissingRequest`, `JoinRow`, `JoinAborts` |
| finalCommonSideData | `FinalSideData` |
| CommonAttrRWJoin::getSharedExtent | `BeginExtent`, `FirstExtents`, `LoopRW`, `LoopCommonAttr`, `StartFinish`, `SkipCommonAttr`, `MatchRow`, `UnmatchedInLoop`, `MergeAborts` |
| finishCheck | `FinishRW`, `UnmatchedInFinish`, `FinishCommonAttr`, `FinishAgain`, `FinishExtent` |
| an analysis of the first join alone | `PullJoined` |

One thread runs both. `at` is where the second join is; while it waits for an extent of the
first, `join` says where that one is. A row is the record id of its packet: the columns that
are copied (addresses, file handles, sizes) are functions of it, and are left out with the
comparisons of addresses between request and reply, which hold in a trace. A trace is any
sequence of requests and replies that `nettrace2ds` could have written: replies after their
requests, a readdirplus answered twice, reads with and without attributes. Where the code
reads a field of an extent without rows, what it finds is not defined, and the model stops.
Left out: the exceptions that the code makes for record ids by number, statistics.

## Runs

Each run is `tlc -config <name>.cfg MC<module>.tla`. The states are distinct ones.

| Run | Instance | States | Shows |
|---|---|---|---|
| `sink` | 2 writers, 3 calls of any kind in all, 2 compressors, 2 files | 362 000 | safety of the pipeline, and that it implements `ExtentLog` |
| `sink_live` | 2 writers competing for 1 compressor | 110 000 | what is queued is written, calls return, close() ends |
| `index_source` | reader, 1 other closer, 3 unpackers, 5 extents, 1 reset | 23 000 | implements `ExtentStream`; memory, wake-ups, closing; calls return |
| `rotating` | 2 writers, rotater, owner with 2 calls, 3 files | 206 000 | order across files, close, delete; calls return |
| `prefetch` | 12 extents of 1, 3 and 5 bytes, limit 3 | 209 | implements `ExtentStream`; the limit; the shared condition variable |
| `recovery` | 5 extents, 3 damaged words, fail_limit 1 | 245 000 | what readers make of every such file |
| `server` | 3 tables of at most 4 rows in at most 2 extents, 2 types, 2 requests of 13 kinds, kills | 303 000 | results, atomic updates, files and `table_info`, the only ways to die |
| `server_update` | the same | | violation, see What was observed |
| `driverdump` | 3 file threads, buffers of 3 bytes, 5 packets of 1 or 2, 4 buffers, 1 signal, 2 runs | 1 200 000 | packets, buffers, wake-ups |
| `driverdump_live` | 2 file threads, otherwise the same | 320 000 | capture ends, full buffers are taken |
| `nfs_joins` | every trace of at most 6 packets, in 5 combinations of cut, extent sizes, pruning and join pulled | 362 000 | which rows both joins make, when they stop; the tables of requests stay bounded; the loops end |
| `packing` | 21 types, 2 or 3 rows each, integers of 2 bits | 143 000 | what unpacks is what was packed; which types cannot be read back; strings stored once |

Why these bounds are enough to be interesting:

* `sink`: two compressors are the least that can finish in the wrong order; with
  them the queue limit is four extents, so the byte limit (9, with extents of 4) is
  what blocks, and one choice of setMaxBytesInProgress lowers it and one raises it. In
  `sink_live` one compressor makes the limit on the number of extents block. Packed
  extents are smaller or larger than raw ones, as in the code. A second file starts
  from whatever the first one left behind. Writers are interchangeable and so are
  compressors (symmetry is used only in the run without liveness).
* `index_source`: extents of two packed sizes fill the compressed queue (limit 3)
  after two; unpacked sizes fill the other (limit 6) after two or three, and one
  extent (9) is larger than the limit and gets through only alone. Three unpack
  threads can finish in any order. A second closer is enough for both roles in
  close().
* `rotating`: `QueueLimit` 1 makes every write and each handed-over extent wait for
  room with the mutex held, the case that could deadlock. Three changes allow one that
  is asked for while another is in progress and one after close().
* `prefetch`: with sizes below, at and above the limit the buffer is full with one extent
  and with several, and the pattern repeats three times.
* `recovery`: with fail_limit 1 three damaged words end recovery, or bring it to the
  middle of an extent and out again, or leave a success between two failures; extents are
  longer than their prefix and of different sizes.
* `server`: two rows to an extent make outputs that end before, at and after the end of an
  input; two requests let the second find what the first left, kills at any step
  included; after a restart an import and an update reach createTable on a file that is
  there. Two of the tables are
  imported with every combination of five contents, rows with nulls, keys out of order and
  every code of the update column among them; the second may instead be missing, or have
  another type of the same name, and the requests for imports bring both types.
* `nfs_joins`: with extents of one row every table ends at every turn of a loop, with those of
  two and three some do not end; with the interval of 2 the times (1, 4, 5, 6, 7, 7) have two
  rotations, replies within the interval, after it and across a rotation, and a reply at the
  time of its request. The operations are reads, with attributes or without, and
  readdirplus with two rows; a lookup differs from the latter only in having one row and one
  reply. Both sizes of extents come with and
  without pruning and with and without a bound of time; the first join alone and what
  nfssubset copied come once, the latter with a range that leaves reads out of read-write
  before and after those it keeps.
* `driverdump`: three threads fill the three slots with a fourth buffer allocated while one
  is written; five packets cross buffer ends twice. File threads are interchangeable
  (symmetry only in the run without liveness).

* `packing`: three rows put a null between two values of a field relative to the record
  before; a chain of three relative fields is the least in which the order of packing tells;
  fields of every width, null or not, in both orders and paddings meet every alignment;
  two bits make most sums and differences wrap.

Deadlock is checked in `sink`, `sink_live`, `rotating` and `packing`, where `Finished` is the only way
to stop. `index_source` does not check it: a reader that waits while another thread closes
is left waiting, and resetPos() stops everything; `CallsReturn` says what must still
happen. The others stop where nobody has to make a call, or at a bound.

### Fairness

Weak fairness of every thread of the code and of every call that has begun: a thread
that can run eventually does. No caller is assumed to make a call, no packet to come, and
no thread is preferred. Weak fairness is enough for the mutexes because calls are bounded
and every holder releases them. Nothing is assumed about which waiting thread a signal
wakes. In `PrefetchBuffer` the source answers, which is what `CallsReturn` of
`IndexSourceModule` says of the usual one. In `FileRecovery` the program goes on reading, in the
server the request that is served goes on, a child process included. In `DriverDump` the
interrupt handler ends, and so does finish of another program. In `NFSMergeJoins` the program
that was started runs on; nobody has to start it.

### Properties

Each is stated and commented in its module. The ones that say most:

* `ImplementsLog` and `ImplementsStream` (twice): refinement of the abstract modules. In the
  former the accepted extents are the disk, the batches being written and the queue,
  one after another; so an extent that is lost, doubled or overtaken anywhere breaks it.
* `BytesAccounting`: `bytes_in_progress` equals the memory held, summed over the queue
  and the batches that are off it. `BufferBounded`, `MemoryBounded`: the limits of the
  readers hold, with the overrun that the code allows.
* `WorkStaysQueued`: what is worked on without the mutex stays on the queue and belongs
  to one thread (both components).
* `NoLostWakeup` (five components) and `CallsReturn` and `AbortEnds`, the liveness that
  would fail with it.
* `IndexMatchesFile`: at every moment the index has the position of every extent, and
  the tail leads to the packed index.
* `StatsExact`: counting of `Stats` across removal and close.
* `FlushMeansWritten`: what flushPending guarantees, the callback included.
* `ExtentsInOrder`, `CallbacksStop`: across files. The latter says what is left of two
  promises of `RotatingFileSink.hpp`, see What was observed.
* `NothingInvented`, `NothingLost`, `ReadingEnds`: what is read of a broken file.
* `ResultIsCorrect`: each module, called extent by extent, computes the operator of
  `TableOperators`. `TablesStayWhole`, `DiesOnlyAsKnown`, `RequestsEnd`: around it.
* `JoinedRows`, `MergedRows`: the joins make one row for each reply they ought to, in order,
  with the times of its own request, wherever extents end. `KeptForTheInterval`: on the
  tables of one trace they stop only for what is missing in them, or too late, and the
  tables of requests do not grow with the trace.
* `PacketsInOrder`, `ThreeBuffers`: packets in the buffers and files; buffers in the slots.
* `RoundTrip`, `AssertionsHold`, `StringsShared`: packing and its reverse; a scaled double may
  come back different by `Slack`, which says how rounding errors add up.

Where a module's `TypeOK` would be a property of its own it is a conjunct of another one
(`BytesAccounting`, `MemoryBounded`, `ExtentsInOrder`, `NothingLost`, `TablesStayWhole`,
`ThreeBuffers`).

## Mutants

For each property of a passing run there is a definition that changes one definition of
the model as a plausible bug would; its name is that of the definition with a suffix,
such as `readyToWrite_without_in_progress`, and it stands before it. Nothing uses them.
`PROJECT.json` says which property each one breaks: with the definition replaced by
its mutant TLC finds the property violated in the same run. A model that could not
be broken would say nothing about the code.

## What was observed

One disagreement between the code and what its documentation says is kept as a run that
TLC ends with a counterexample (`findings` in `PROJECT.json`): in `server_update`,
sortedUpdateTable loses rows when one input has ended and what is left of the other does
not fit in one output extent.

Others were met while modelling; the models have the behaviour, or leave it out where it
is said so, and no run is spent on them:

* `src/base/DataSeriesSink.cpp:413`: flushPending sleeps on a condition that is broadcast
  only if canQueueWork(), which never holds again once close() has cleared `compressors`
  (line 81). A flush that waits then never returns although everything gets written;
  `DataSeriesSink.hpp:99` promises "Block until all Extents in the queue have been written".
  `NoLostWakeup` and `CallsReturn` leave it out.
* `IndexSourceModule.hpp:77` says of resetPos "call this to start the index source module over
  again from the beginning". It locks the mutex (`IndexSourceModule.cpp:165`) and returns
  without unlocking it: the threads it has just started, and the next getSharedExtent, wait
  for ever. nfsdsanalysis calls it when it needs file names. A reader that waits while
  another thread closes is left waiting, too (line 187).
* `DataSeriesSink`: `setCompressorCount(0)` ("no threading") fails an assertion with the first
  extent; getStats() is documented to be complete after close(), which resets the
  statistics.
* `RotatingFileSink.hpp:52` promises that after setExtentWriteCallback() and a flush the old
  callback is not called. flush() waits for a change in progress (`RotatingFileSink.cpp:66`)
  and only then locks mutex (line 68): a change that begins in between replaces the sink,
  flush() flushes the new one, and the old one, which is still being written out, calls the
  callback it had copied. `CallbacksStop` says that no other sink does.
* `RotatingFileSink`: a callback that calls changeFile because canChangeFile() said yes is
  refused fatally when close() changed the file in between.
* `kernel-driver-add.c:34` says that finish may be called from the close function of the
  driver "inside or outside of any locking". A file ioctl that has seen its buffer full
  (line 732) and waits for the semaphore while finish frees it then compares freed memory
  (line 743) and reaches BUG(). So does one when a second driverdump begins with its
  finish. `DriverDump` shows it with `BusyFinish = TRUE` (`ThreeBuffers` fails).
* The interrupt handler of `kernel-driver-add.c` takes no lock, and three of its windows end in
  BUG() or a pointer to nothing; the comment at line 299 knows the second. It sets done_fill
  (line 295) before it stores the buffer in filled: a thread that evaluates its wait in
  between, because of a signal say, finds another buffer or none in filled, BUG() at line 746. It wakes
  the thread through filled (line 304), which the thread may have emptied by then: NULL, or
  freed memory. And abort and finish test each slot and read it again for the wake-up
  (lines 571-584), while the handler empties it. `RacedOnly` names the three, and
  `ThreeBuffers` and `BuffersSafe` say that there is no other.
* `PrefetchBufferModule.hpp` lets one expect that prefetching goes on as soon as the buffer
  is small enough. Taking an extent does not signal the thread: it goes on when the
  buffer is empty and the reader waits.
* `dsrecover.cpp:23` says that a corrupt extent is skipped. One with a damaged length is
  not: only its prefix is, reads go on in its middle, and after more than fail_limit
  failures recovery ends. `NothingLost` says exactly what may be lost.
* `ExtentType.cpp:464` requires a scale of a double that is relative to the record before,
  "otherwise errors in unpacking accumulate". They accumulate with it: packData rounds the
  difference of two values that are not rounded, so record n may be off by n halves of the
  scale (values 0, 1, 2 in units of 3 come back as 0, 0, 0). `RoundTrip` allows exactly
  that.
* pack_null_compact "may not be safe for use" (`ExtentType.cpp:253`) in two cases that
  `AssertionsHold` names. With the order big_to_small_sep_var32 everything before the last
  bool counts as the bools (line 551): nearly the whole record is stored twice, and the
  assertions on the size in compactNulls fail unless many fields are null. Of a fixedwidth
  field it keeps the first byte, and the hash fails when the extent is read.
* partialSet on a pack_unique field of an extent that was read changes every other field
  that shares the string (`ExtentField.cpp:174`); `StringsShared` says which do.
* `Extent::setReadChecksFromEnv(true)` is what asks for the checksums. Programs that do not
  call it, the server and most analyses among them, read without unless the environment
  says so.
* The NFS joins: a reply at the time of its request is moved by a microsecond by the first join
  (`MergeJoins.cpp:488`), while for a read without attributes the second asserts that it is
  later (line 836). The first join rotates the side data by how far it is itself
  (line 336), which is an extent ahead of the join that reads it: if an extent of attr-ops
  spans more than the interval, a valid trace stops with an error; `AbortsForCause` says so.
  When attr-ops has no row at all, the second join returns NULL at once (line 868) and the
  reads are not analysed. When common and attr-ops have ended before read-write, finishCheck
  advances twice for each read without attributes (lines 855 and 778): every second one is
  lost, and the series may be moved past its end. AttrOpsCommonJoin can return an extent without rows,
  of which the second join reads a field (line 894); TimeBoundPrune takes care not to return
  one, so that code behind it "can now assume extents are non-empty"
  (`nfsdsanalysis.cpp:1328`). And nfssubset, which copies "a consistent subset"
  (`nfssubset.cpp:10`), keeps a read if its request or its reply is in the range, but not the
  packet that is outside: the joins of its output stop with an error.
* The server: a transform of a table with two extents fails an assertion
  (`ExprTransformModule.cpp:89`), a RequestError before the first output extent ends the
  process, an output that is also an input is truncated before it is read, and the type of a table
  whose file gave none is dereferenced. mergeTables compares names of types
  (`data-series-server.cpp:236`), so tables with different types of one name, which imports may
  have, pass, and end the server as the second file is opened (`TypeIndexModule.cpp:67`).
  `DiesOnlyAsKnown` lists them. An update of a
  table that a restarted server does not list truncates its file and makes it anew (line 480):
  what was in it is gone, and when the server is stopped before line 487 the file stays
  unfinished, until the table is made once more.

## Proofs

The theorems hold for any number of threads, calls, files and extents and any sizes.
The only assumptions are those named in the modules (`SinkAssumption`,
`IndexSourceAssumption`, `RotatingAssumption`, `PrefetchBufferAssumption`,
`FileAssumption`, `DriverDumpAssumption`, `ServerAssumption`): names are different, pools of threads are finite
(there is an unpack thread at least), sizes and limits are positive, the pieces of a file
follow one another, requests and the tables imported at the start are well-formed (`Requestable`: a
request names the tables and values that its operation has; a table from outside is finished and has
no extent without rows); and the condition that a theorem states itself (`ASSUME`), each
explained below.

Some properties count: bytes over a queue, extents over several files. The library's
induction theorems take a predicate, which the provers cannot instantiate, so
`OperatorTheorems` derives induction for a *set* of numbers from the fact that < on
the naturals is well founded (a set without 0 or without some successor would have a
smallest missing number), then that a recursively defined function exists and is unique,
and from these what `Total` (`SequenceSums`) and `FlattenSeq` (of the community modules) give for an
appended, removed or changed element, for a split sequence, and for an element of a
sequence of sequences that grows at its end. These lemmas are what the proofs about byte
counts, files and buffers rest on.

Its second half is about `TableOperators`, in which the results of the server's requests are
defined. These operators are recursive functions or folds and not RECURSIVE operators, so
that the same kind of induction reaches them. The lemmas say what each one computes of a table
in two parts, since a module sees its input in parts: the selection, projection, transform and
joins of `s \o t` are those of `s` followed by those of `t` (for the transform, which
uses the row before, with what it kept of `s`). For sorting: `StableSort` gives a sorted table with
the rows of each key in their old order (`StableSortSorts`), and there is only one such table
(`SortUnique`); hence sorting in parts, and merging what is sorted (`MergeStep`: the row that is first among the
heads comes first), give the same. For updates: `SortedUpdate` is the uniquely sorted table of
the rows that are left (`SortedUpdateLeaves`), so taking one row from the base table, from the
updates or from both, as the loops do, leaves the update of the rest (`UpdateReplaces` and others).

`tlapm DataSeriesSinkProofs.tla`, about `DataSeriesSink`. Its second half, from `AccountingIsExact`
on, holds for a sink with a compressor (`Compressors # {}`): with none the code fails an
assertion at the first extent (What was observed).

* `TypeCorrect`: `Spec => []TypeOK`. `TypeOK` says that the unsigned counters do not
  wrap while no assertion has failed, which follows from what the code asserts before
  each subtraction. `TypeOK` is not inductive: that `<<Library, nfiles>>` is one of the
  extents needs `FileNumbered`, that a file has been opened once the owner left
  "closed". `TypeInv` is the conjunction; there is one lemma for each action.
* `WorkIsNeverLost`: `Spec => [](~aborted => WorkStaysQueued)`, also without a compressor.
  The invariant adds what makes it inductive: the extents of the queue are distinct (each call queues a new
  one, which needs the numbers of those queued to be at most the calls made), only
  unclaimed work is claimed, and the writer and close() remove nothing that is in
  progress. The proof goes once more action by action; the actions that leave the
  queue and the claims alone share one lemma.
* `AccountingIsExact`, `WorkIsAlwaysQueued`, `StatsAreExact`: `BytesAccounting`, `WorkStaysQueued` and
  `StatsExact`, now with no assertion taken to hold. That none fails and that the sums are
  exact has to be one invariant (`SafeInv`): a subtraction is safe because what it takes
  is a part of the sum, and the sum is kept because the process did not stop. It has
  the phases of the owner (`PhaseInv`: which threads there are in each step of open() and
  close(), and that the queue is empty once they are joined), the sums (`BytesInv`), and the
  extents counted for each `Stats` and for the sink (`CountInv`). The cardinality in `StatsExact` is
  the weight of the queue when each extent that refers to a `Stats` weighs 1.
* `NoWakeupIsLost`: `NoLostWakeup`. `WakeInv` has one part for each kind of sleeper. That a
  blocked writeExtent is always told needs that room appears only where the code
  announces it: at the end of a batch, of a packing, and in setMaxBytesInProgress.
* `SinkImplementsLog`: `Spec => ImplementsLog`, the refinement of `ExtentLog`, by a step
  simulation: queueing appends to the log, writing one extent moves it to the file, the
  tail seals it, everything else leaves the log alone (packing changes items of the queue,
  not which extents they are). `LogInv` says that at most one of the writer thread and
  close() has a batch, and what has been accepted when the file is sealed.
* `IndexFindsExtents`: `IndexMatchesFile`. `IndexInv` follows the entries through a batch: the entry
  of the extent being written is made before the write, and close() makes that of the index
  before the index is packed.
* `FlushedIsWritten`: `FlushMeansWritten`. An extent in the pipeline weighs something, so a
  flush that finds `bytes_in_progress = 0`, or only its own place in the queue, finds nothing of its own.

`tlapm IndexSourceModuleProofs.tla`, about `IndexSourceModule`. The inductive invariant
is built in layers, each proved with the ones below it; there is one lemma for each
action and layer, and one for what several actions leave alone.

* `TypeCorrect`: `Spec => []TypeOK`. `TypeInv` adds `CursorInv`: a read in progress has
  something to read, and the source is done only when everything has been found. Without
  it the cursor could pass the end.
* `CloseCompletes`: `CloseIsComplete`, from `AbortCounts` and `ClosedIsQuiet`. `AbortInv`
  adds that the threads exist all or not at all, that none exits unless told to, and that
  one client at most joins them; each exit lowers both sides of
  `abort_prefetching = 1 + LiveThreads`. `QuietInv` says what is known of a client that
  has returned from close(), or is about to.
* `StreamImplemented`: `Spec => ImplementsStream`, the refinement of `ExtentStream`, by a
  step simulation: getSharedExtent delivers the next extent or the end, resetPos() starts
  over, every other step leaves the abstract state alone. The invariant is `InOrder`
  (delivered, unpacked and compressed are, one after another, what has been found) and
  `EndInv` (when the end is found nothing is left; NULL before that means that somebody
  closed the module). That the last extent is delivered before the end needs `CursorInv`.
* `OneThreadPerExtent`: `WorkStaysQueued`. `WorkInv` says it with witnesses instead of a
  cardinality; that a thread which takes an extent takes one of its own needs `InOrder`.
* `NobodySleepsOnWork`: `NoLostWakeup`, which is inductive beside `AbortInv` and
  `QuietInv`.
* `MemoryIsBounded`: `MemoryBounded`, and with it that no assertion of the module fails. `MemInv`
  says that each queue counts what it holds while there are threads (close() does not
  subtract), that what is on the unpacked queue with another extent is below its limit, and
  that the compressed queue without its newest extent is; the last needs `ReadInv`: there was
  room when the read in progress began, and only the unpack threads have touched the queue
  since. That the unpack thread finds its extent on the queue is `WorkInv`, that close()
  counts down to exactly one is `AbortInv`.

`tlapm RotatingFileSinkProofs.tla`, about `RotatingFileSink`, again in layers.

* `TypeCorrect`: `TypeInv`, which is `TypeOK` with who holds mutex (`MutexInv`: a thread that
  gets it finds room in the current sink, so no queue passes its limit), what each place of
  the worker says of the change it makes (`ChangeInv`: hence the next sink has been asked
  for) and which sinks may have anything left to write (`SinkInv`).
* `NobodySleeps`: `NoLostWakeup`, inductive beside `TypeInv`.
* `FilesAreInOrder`: `ExtentsInOrder`, from `FilesAreComplete` (its parts that are about single sinks)
  and `OrderInv`. An extent may be added at the end of the files only if every later sink
  is still empty: `CurrentInv` says that the current sink is the last one, or the last but
  the one that is about to replace it. The worker may hand over what is pending because
  whoever else could queue something needs mutex, which it holds (`NothingKeptBack`). That
  the destructor leaves everything on disk is `DestroyInv`: at its end nothing is pending and no
  sink has a queue or batch.
* `CloseIsFinal`: the parts `CloseStopsCallbacks` and `OnlyOldSinksCallBack` of
  `CallbacksStop`. `FenceInv` says which callbacks the batches may have;
  `ClosingInv` that once close() waits for its change of file (`ToBeClosed`) nobody gets in
  between, and that after it only the sink being replaced may have a callback left to call.
* `CallbacksDoStop`: all of `CallbacksStop`, under the assumption that callbacks call
  changeFile with failure_ok (without it a callback can be refused fatally, see What was
  observed). `DeleteInv` says that in the destructor nobody but the callbacks of the last
  sink can change the file, and these only until it is deleted.

Two lemmas say once what all the proofs need of the sinks: a step of a sink changes that sink
only (`SinkStepKeeps`), every other step only the queue and callback of the current one
(`OthersKeep`).

`tlapm PrefetchBufferProofs.tla`, about `PrefetchBuffer`. One invariant serves all of it:
`BufferBounded`, what is known of the thread at each of its places (it reads only while
there is room; it has exited only when told to or at the end), and what the flags say.

* `BufferIsBounded`: `BufferBounded`. What is buffered is a run of consecutive extents, so
  its size is a difference of `EndOffset`, which is monotone; that is what keeps the sum
  out of the proof. Taking an extent leaves at least the newest one counted.
* `NobodySleepsForBoth`: `NoLostWakeup`.
* `StreamImplemented`: `Spec => ImplementsStream`, by a step simulation as above.

`tlapm FileRecoveryProofs.tla`, about `FileRecovery`.

* `TypeCorrect`: `TypeOK`; the offset stays inside the file.
* `NothingIsInvented`: `NothingInvented`. What was recovered lies before the offset, and an
  extent is added only where it starts; so the next one is a later one.
* `NothingIsLost`: `NothingLost`. The invariant is a choice: dsrecover is at the start of a
  piece, has everything whole before it, and the last `fails` pieces were damaged; or
  everything that is whole is already recovered or excused, and it no longer matters what is
  read. A damaged length, an extent cut off and the failure after `fail_limit` others lead
  from the first case to the second. A reader by the index has exactly what lies before the
  offset.

`tlapm DriverDumpProofs.tla`, about `DriverDump` when nobody else calls finish while a file
ioctl runs (`~BusyFinish`; otherwise a BUG() is reached, see What was observed).

* `BuffersSafe`: `ThreeBuffers`, with `RacedOnly`: it does not say that the windows of the handler
  (What was observed) are never hit, but that nothing else makes the kernel fail, and that up to
  that point the buffers are where they belong. `DriverInv` is inductive: a buffer is
  freed exactly when it is in no slot and its pages are not being released, and a buffer in a
  slot is full exactly when it is the filled one or the handler has just marked it (`SlotInv`); a
  thread that waits for its buffer has it in a slot, alone (`OwnerInv`): hence the thread
  that takes the filled buffer takes its own, unless it is marked only, and no other thread
  can free it again; one thread maps or releases pages, and the slot it needs stays free
  (`HoldInv`); all threads are gone when driverdump calls finish, and none waits while finish
  sleeps (`MainInv`). One lemma covers the steps that leave buffers and slots alone, one the steps of a
  single thread, one those of the handler.
* `NoSleeperForgotten`: `NoLostWakeup`, inductive beside `DriverInv`. A thread may sleep for a
  moment before a full buffer, if the handler is about to wake it. That the handler
  wakes one thread when it fills a buffer is enough because only that one has it.
* `PacketsAreKept`: `PacketsInOrder`. `PacketInv` is inductive beside `DriverInv`: the empty buffer is the
  newest and no buffer after the one being filled has packets (`NewestInv`), so a packet
  that is copied comes at the end of all of them (`CopiedInv`); a thread whose ioctl returned
  has a buffer that was full and has been freed (`ReturnedInv`), which is what the files are
  made of (`FilesInv`); and a buffer is freed, while packets are dumped and the program goes
  on, only for a thread that will write it (`FreedInv`).

`tlapm DataSeriesServerProofs.tla`, about `DataSeriesServer` with all its query modules. One
inductive invariant, `Inv`, serves all four theorems; TLC has no error for any part of it on the
instance of `server`. There is one lemma for each action of the server and each turn of each
module's loop (`...Step`), which the three lemmas `ServeStep`, `ArriveStep` and `NextKeeps` put together.

* `TypeInv` is stronger than `TypeOK`: no extent is empty, except the one in a table that
  createTable made. UnionModule and SortedUpdateModule read the first row of each extent.
* `ServingInv`: while a request is served only its output, or the base table it has
  created, differs from `before`; the sources still read what was there when the request came.
  While a file is written without modules only that file differs, and it is unfinished.
  `TablesInv` and `FullInv` say what is known of every other table that is listed.
* `TeeInv`: what the output file has, and that nothing was written while it has no type.
* `OpInv` has one part for each operation, all of the same form: what was sent on and what the module
  holds (`Done`), followed by what the operation gives for the input that is not yet read (`Rest`),
  is what it gives for the whole input. When a module returns NULL nothing is left unread,
  so `Done` is the result. Beside that each part has what keeps the loop going right: for
  the hash and star join that what was read first is the whole table; for the transform that
  the row before is remembered, and that a second extent is only reached with no output
  held; for the sort that the parts are sorted and nothing is unread once there are any; for
  the union that each source up to the one being opened has a row to compare, or has ended.
* `UpdateInv` is the largest part. `UpdateControl` says which of the five loops the module may be in and
  what it then holds of its two sources. `Progress` is the form above for as long as the base
  table is uniquely sorted and the updates are possible (`CanUpdate`); it needs `Passed`: what was used of
  one input comes before all that is left of the other. The module may return NULL with
  one input unread (What was observed); then `Done` has at least `Limit` rows,
  or that input was empty from the start, which is what `UpdateWrote` allows. `UpdateOutput` is the reason: without output at the start of a call,
  nothing was made yet, or an extent was full, or everything was read.
* `ErrorInv`, `RenameInv`, `AtomicInv`: what is known when a RequestError was thrown, when the
  output of an update is finished but not yet renamed, and of the base table's file at any time.

The theorems:

* `ServerTypeCorrect`: `Spec => []TypeOK`.
* `ResultsCorrect`: `ResultIsCorrect`, for the eleven kinds of requests with a result of their own (what
  the other two import comes from outside). That
  WriteAll and AddAll, which pass the rows of an extent on one by one, write all of them is
  `WriteAllWrites` and `AddAllAdds`.
* `TablesWhole`: `TablesStayWhole`. A kill may come at any step, so `AtomicInv` holds in every
  state and not only between requests. The base table's file is unfinished only between
  `StartWrite` and `CreateTable`, and after a kill there; it was not listed then.
* `DeathsKnown`: `DiesOnlyAsKnown`. Each place at which the model can die is reached only with one of
  the disjuncts of `Fatal`; that a source is opened with a type needs `TablesInv`; that the files of a
  merge agree on it unless two listed types differ needs that each file has the type that is
  listed (`SourceListed`); that a row is there to be compared needs `TypeInv`, and that no assertion of SortedUpdateModule fails needs `UpdateControl`.

Only model-checked:

* `ExtentPacking`: `RoundTrip` and `AssertionsHold` compare recursive functions over rows and passes
  for every type, and what they compute of all rows at once would need its own theory;
* the NFS joins (`JoinedRows`, `MergedRows`, `KeptForTheInterval`): what they are compared with is defined
  over whole tables, by folds and choices over sets of rows;
* all liveness (`RequestsEnd` and the like): the prover has no fairness.

## Not modelled

* The compressors, which are libraries, and the precision of doubles: in `ExtentPacking` only
  scaling loses anything.
* `ExtentSeries`, the fields but for the storage of strings, `GeneralField`, the parsing of
  `ExtentType` from XML, `DSExpr`: sequential conversions with no state of their own between
  calls but a position in an extent.
* `MinMaxIndexModule`, `SortedIndexModule`: `TypeIndexModule` with a filter.
* `RowAnalysisModule` and the analyses built on it, the other analyses of NFS, LSF and IP, `DStoTextModule`, `DSStatGroupByModule`.
* The converters (`nettrace2ds`, `bacct2ds` and others): decoding of external formats, one
  record at a time.
* Wrappers of libraries (`cryptutil`, libxml2), generated code, tests, build files.

## Plan

What would come next, in this order:

1. Proofs about `NFSMergeJoins` and `ExtentPacking`: that the joins return the rows of
   `NFSTrace` needs the lemmas of `OperatorTheorems` for sets of rows, the round trip an induction over
   the passes of packing.
2. dsrepack: splitting its output while it counts rows, with the same rows out as in.
3. The analyses that match requests with replies by transaction identifier
   (`ServerLatency`, `MissingOps`), with replies that are missing or come twice.
