# Formal models of GPUViz

GPUViz collects NCCL network telemetry inside the application's process: every
chunk sent or received is counted in histograms, which a reporter thread reads
at intervals, writes to a local file and uploads to a server.  This directory
holds TLA+ models of its concurrent core, the TLC configurations that check
them on small instances, and TLAPS proofs of the most important invariants.
Paths below are relative to the repository's `src/` directory.

## 1. The system

### Components

| Component | Code | State | Operations | Correct when | Modelled by |
|---|---|---|---|---|---|
| Connection statistics | `nccl_stats_aggregator.cc` 872-1585 | two copies of the histograms and of the bandwidth buffers, a generation for each pair, `mtx_` | `notifyOperationMeasurement`, `readStatsFromLastInterval`, the swap and aggregation of a bandwidth window | no unlocked access meets a locked one; every sample is reported once, in its interval; bytes are conserved | `ConnStats`, `BandwidthWindow` (partly) |
| Upload executor | `nccl_stats_uploader_executor.cc` | `q_`, `shutdown_`, `last_upload_success_`, `index_`, its thread | `UpdateQueue`, `UploadFinished`, destructor, the thread's loop, the last upload | chunks delivered in order and once; the null slot never touched; shutdown ends | `UploaderExecutor`, `SplitMessage` |
| Uploader | `nccl_uploader.cc` | client, two attempt counters, `next_execute_time_`, `is_dead_` | `Upload` | gives up exactly at the limit; waits as promised | `NcclUploader` |
| Aggregator | `nccl_stats_aggregator.cc` 165-870 | live and deleted connections, NIC statistics, capped logs and events | `addConnection`, `deleteConnection`, `readTelemetry`, `processHighFrequencyTelemetry`, `addLogMsg`, `addEvent`, `clean` | a deleted connection is reported once more and freed; caps hold; bytes of a NIC are conserved | `Aggregator`, `BandwidthWindow` (partly) |
| Reporter | `nccl_stats_reporter.cc` | report mode, output file, callbacks and their due times, the executor | timer loop, `readAndReportTelemetry`, `flushTelemetry`, `rotateLogs` | nothing read is lost; the executor outlives its users | `ContainerLifecycle`, `ReportMode`, `BandwidthWindow` (partly) |
| Container, singleton | `nccl_stats_container.cc` | instance, reference count, reporter thread | `init`, `destroy`, `addConnection`, `deleteConnection`, `notify*` | the instance exists as long as a holder; the thread stops at the last | `ContainerLifecycle` |
| Millisecond bandwidth output | `millisecond_bandwidth_output.cc` | batches per NIC, current and next batch | register time, copy, save, rotate, close | no sample written outside its batch, none lost or doubled between windows | `MillisecondOutput` (partly) |
| Parameters | `params.cc` | none after start | read a number with range and default; modes | the mode a caller asks for is the mode in force | `ReportMode` (partly) |
| ACS client | `client.cc` | dynamic configuration | send, quota, minimal wait | rate and size limits respected | environment of `NcclUploader` |
| Bucketer, log sink, utilities, plugin tables, message formats, scripts | `distribution_bucketer.cc`, ... | none that is shared | | | no |

### Interactions

The application's threads call the plugin tables, which call the container;
notifications go straight to a connection.  One reporter thread runs three
callbacks on timers: `readAndReportTelemetry`, under the reporter's mutex, reads
every connection (`connections_mtx_` of the aggregator) and hands the message to
the executor; `processHighFrequencyTelemetry` closes a bandwidth window and fills
the file of milliseconds, which a third callback saves.  An application thread
that deletes the last connection, or destroys the container, runs them itself
(`flushTelemetry`), so there can be several reporting threads.  The executor's
own thread uploads, through an uploader, over a client whose callbacks update the
client's configuration.

### What is hard

* The reporting path reads and resets histograms without the lock under which
  they are written; generations and their mirrors keep the two apart, and the
  bandwidth path submits to the write copy without the lock.
* The executor releases its lock during an upload and leaves a null pointer at
  the front of the queue.  Retries, giving up, shutdown and a new batch meet there.
* A message is split by moving elements through a pointer into a sub-message
  that is replaced meanwhile.
* Reference counts, flushes and the destruction of the executor are spread over
  application threads with different locks; a flush drops the executor without
  the mutex its users hold, and skips its final read while an upload runs.
* A report is built in sections, each under another mutex, while connections,
  events and log messages come and go.
* A bandwidth window closes at a time that neither a waiting call nor the buckets
  are aligned with; what it leaves is carried over twice, in time and in bytes.

`PROJECT.json` lists each hazard at its line, with the properties that cover it
or the reason why none does.

## 2. Modules

| Module | What it is |
|---|---|
| `IntervalReports` | abstract: samples are open, then closed, then reported |
| `ConnStats` | one connection with its writers and reporting threads; implements `IntervalReports` |
| `ConnStatsProofs`, `ConnStatsRefinementProofs` | proofs about it |
| `UploadQueue` | abstract: chunks are acknowledged in order, once, and given up only when closing |
| `NcclUploader` | one `Upload` attempt, as operators on the uploader's state |
| `UploaderExecutor` | the executor, its caller and its thread, over `NcclUploader`; implements `UploadQueue` |
| `UploaderExecutorProofs` | proofs about it, the refinement included |
| `SplitMessage` | the splitting of a message into sub-messages |
| `SplitMessageProofs` | proofs about it |
| `ReportMode` | parameters to report mode, as operators |
| `ContainerLifecycle` | container, singleton, reporter thread and the executor's life, over `ReportMode` |
| `ContainerLifecycleProofs` | proofs about it |
| `Aggregator` | connections, NICs, log messages and events while a report is built |
| `AggregatorProofs` | proofs about it |
| `MillisecondOutput` | the batches of millisecond samples, as operators on a record |
| `BandwidthWindow` | bytes from a call to a NIC's histogram and the file, over `MillisecondOutput` |
| `BandwidthWindowProofs` | proofs about both |
| `FoldLemmas` | induction, folds and sums: the lemmas that the proofs about queues, fields and bytes share |
| `MC...` | the instances for TLC |

Definitions named "mutant" in comments are plausible mistakes in the code, kept
beside the definition they would replace; each property is known to fail under
one of them.

How the models meet: `ContainerLifecycle` shows who calls the reporter and when,
and takes the executor as present or not; `UploaderExecutor` is that executor;
`Aggregator` is what one report reads; `ConnStats` is the reading of one connection
in it; `BandwidthWindow` is what the reporter's other callbacks do.  Each takes the
others at the grain that its own properties need.

### ConnStats

One action is one critical section, or one access of an unlocked sequence:

* `NotifyBegin`, `NotifySubmit`, `NotifyReturn`: `notifyOperationMeasurement`,
  which holds `mtx_` throughout.  It takes both slot indices once, submits the
  size and then each latency, and returns early at a bad type, leaving what it
  submitted.  `UpdateBw` is `updateBwAndLatencyStats`, reduced to which calls'
  bytes a buffer holds.
* `ReadTelemetry`, `SwapGeneration`, `CopyHistogram`, `ResetHistogram`:
  `readStatsFromLastInterval` under `connections_mtx_`.  Copying and resetting
  visit one histogram at a time, in any order (the code's order is one of them).
* `ProcessWindow`, `SwapBwGeneration`, `AggregateBw`, `AggregateVariance`: the
  connection's part of `processHighFrequencyTelemetry`.  Whether a window
  contributes a sample is a choice, since it depends on the clock, and on
  whether it is the aggregator's first, in which every bucket counts as unused (for
  a connection added later, the first window is an ordinary one).

A histogram is the set of samples it counted (who submitted it, at which
position, of which type): enough to see loss, duplication and mixing; the
buckets of the histogram are not.  The generations are numbers modulo
`GenModulus`, 2^64 in the code and any even number here.

### NcclUploader and UploaderExecutor

`Upload(u, ignore)` is the set of possible results of one blocking call.  Time is
"past", "future" or "never" relative to `next_execute_time_`; the client is a
process outside, which may refuse to be created, fail a send and die.  The
minimal wait between messages is assumed finite (the configured rate is not
zero, or line 169 of `client.cc` gives an infinite wait and line 180 divides by zero).  Counting towards a limit that cannot be reached (`INT64_MAX`) is left out.

The executor's thread has a step for each place where it acquires or releases
`mtx_` or blocks: `WaitForWorkOrShutdown`, `WaitForTimeoutOrShutdown`, `Take`
(the front becomes null), `UploadFront` (no lock), `Settle` (pop, or put back),
`GiveUp`, and on every way out `WrapUp`, `TakeLast`, `UploadLast`, `CleanUp`.  The
caller's `UpdateQueue` is two steps, `SplitBatch` without the lock, which spends
indices, and `Enqueue` with it.  `Shutdown` and `Join` are the destructor.  There
is one caller at a time, the holder of the reporter's mutex; that `flushTelemetry`
drops the executor without it is in `ContainerLifecycle`.

`Pending`, the refinement mapping to `UploadQueue`, puts the chunk the thread
holds back into its slot, and drops it as soon as its upload has succeeded.

### SplitMessage

`MoveElement` is a turn of `splitField`'s loop and `NextField` its next call.
`destination` is the sub-message that was current when `splitField` was called.
An element is its position; only its size matters.

### ReportMode and ContainerLifecycle

`ReportMode` computes where reports go from the environment and the mode passed to
`init`, with the two codes the code uses: the values of `ncclTelemetryMode`, and the
numbers `mapIntToTelemetryMode` accepts.

`ContainerLifecycle` has application threads, each a holder of the instance or not,
and the reporter thread.  `GetInstance` is `init` under `mx_`: `Create` makes a
new instance, replacing one whose `init` failed, and `Join` shares the present one.
`AddConnection`, `NotifyOperationMeasurement` and `DeleteConnection` with
`CountConnections` are the calls of a holder; the one who finds no connection left
flushes.  `LockMtx`, `ShouldReadTelemetry`, `ReadTelemetry`, `UpdateQueue` are
`readAndReportTelemetry` under the reporter's `mtx_`; `TestExecutor` and
`ResetExecutor` are the end of `flushTelemetry`, outside it.  `saw` is what a thread
last read of `upload_executor_`: if another thread has dropped the executor since,
the next use is `UseAfterFree`, after which the process takes no step.  A report
given to `UpdateQueue` counts as handed over also when the executor, its uploader dead
or closing, refuses it (`nccl_stats_reporter.cc` 215-220 only logs that); when it may
refuse is `RefusedOnlyWhenClosing` of `UploaderExecutor`.  `Destroy`,
`DropInstance` and `FreeInstance` are `destroy`: the flush, the decrement under
`mx_`, and, holding `mx_`, the join of the thread and the end of the instance.
`WaitsFor` says who waits for whom; a thread whose call has not begun, as it could
not get `mx_` even for its first step, counts as outside.
`ReportStatsDistribution` is a turn of the thread's loop, the last of which flushes.

Callers destroy what they initialised, once, and their connections exist while they
use them; connections still there at the end go with the instance.

### Aggregator

Callers add, measure and delete connections and send events; log messages come
from anywhere.  A report is built in sections, each under the mutex of what it
reads: `ReadNicStats`, `ReadConnection` for each live connection under
`connections_mtx_`, `ReadZombie` for those deleted, `ReadLogMessages`, `SwapEvents`,
`ParseEvent` for each event, without a mutex, and `ReturnReport`.  A queue is a
sequence and the size counted for it, which the cap is compared with; the
code keeps and resets the two apart, and so does the model, so that they could
disagree.
`InitConstants` logs for each connection until a plugin's speed is known, and a NIC
keeps the speed its histograms were allocated with.  `Clean` is the destruction.
A connection's histograms are the set of measurements in them.  Bandwidth collection
is on; of what `AllocateBWStats` allocates the model keeps the NIC's speed, and of what
`ReadNicStats` copies that the NIC is reported.

### MillisecondOutput and BandwidthWindow

`MillisecondOutput` is a record and the operators of the class: `MillisecondInit`,
`RegisterCurrentTime`, `CopyOverBandwidthStats`, `SaveBandwidthStats` and
`CloseOutBandwidthStats`.  `BandwidthWindow` calls them where the code does.

A call reads the clock (`NotifyBegin`) before it has the connection's mutex
(`NotifyBook`), so that windows may come in between.  `ProcessHighFrequencyTelemetry`
is a window: `Swapped` exchanges the buffers of each connection and copies the last
buckets into the new one, `Aggregated` zeroes what was added up, `Capped` limits
what a bucket of a NIC can hold and carries the rest on, through all buckets,
directions and NICs (`NicBw` is what the connections of a NIC have added up,
`CalculateAndUpdateHistogram` and `AggregateNicStats` spread and submit it).  It is one step: `ConnStats` shows that the steps of a window do
not meet a call's.  `ProcessWindow`, `SaveWindow` and `Tick` are the reporter
thread and its clock, `AddConnection`, `DeleteConnection`, `FlushTelemetry` and
`CloseOut` the first and last connection.  Where the code would write beyond its
buffer (`Overrun`) time stops, as nothing can be said of what follows.

The integer arithmetic is the code's: signed division truncates towards zero, and
a negative bucket number is a huge unsigned one (`StartIdx`, `EndIdx`).

## 3. Runs

| Run | Shows | Instance |
|---|---|---|
| `conn_stats` | `TypeOK`, `RaceFree`, `CallsWhole`, and that `ConnStats` implements `IntervalReports` | 2 writers, 2 readers, 2 calls (a Send; a Recv with a bad second latency), 2 windows, generations modulo 4; 2.7 million states, about two minutes |
| `conn_stats_live` | `EveryCallReported` | 2 writers, 1 reader, 2 Send calls, 1 window |
| `executor` | `TypeOK`, `FrontHole`, `UploaderExclusive`, `IndexIdentifiesContent`, `AckedInOrder`, `RefusedOnlyWhenClosing`, `ShutdownHastens`, `ShutdownCompletes`, `UploadsFinish`, and that the executor implements `UploadQueue` | 3 batches of up to 2 chunks; gives up after 2 failed sends, never on failed creations; 3,988 states |
| `split` | `TypeOK`, `ContentKept`, `LogEntriesFirst`, `NoNeedlessMessage` | all messages of up to 2 elements in each of the 3 fields, sizes 1, 2 and 4 with a limit of 3 |
| `container` | `TypeOK`, `RefCountsHolders`, `DiskGetsEverything`, `ThreadHasInstance`, `CrashNeedsExecutor`, `DropsOnlyAfterFlush`, `NoDeadlock`, `CallsReturn` | 2 application threads and the reporter thread, 2 instances, 1 connection that may come again, 1 sample, 2 bitmaps, an environment for each report mode; 208,508 states |
| `aggregator` | `TypeOK`, `SizesMatchQueues`, `ReaderVisitsLive`, `DeletionLosesNothing`, `EventsOnceInOrder`, `LastReportComplete`, `EverythingReported` | 2 connections sharing a NIC, one of an unknown plugin, 2 measurements, 3 events that do not all fit, one unparsable, log messages; 200,811 states |
| `bandwidth` | `TypeOK`, `SendBytesConserved`, `NicBytesConserved`, `MsecNeverInvents` | 1 connection, 2 calls, buffers of 2 + 2 buckets with 1 carried over, times 2 to 8, windows up to 1 late; 1.92 million states, about two minutes |
| `upload_index` | finding: a message without `upload_index` | as `executor` |
| `split_size` | finding: a sub-message larger than the limit | as `split` |
| `local_disk` | finding: "write on local disk only" uploads and writes nothing | 1 thread, every mode passed to `init`, nothing set |
| `recv_bytes` | finding: bytes received add up to zero | as `bandwidth` |
| `incomplete_batch` | finding: the wrong batch starts the next file section | as `bandwidth` |

Why the bounds are enough.  `conn_stats`: two writers, because a writer conflicts
with one other writer at a time; two readers, for a flush beside the reporter
thread; two calls, so that one can be in each interval and a whole one and a
rejected one meet; two windows, so that both bandwidth buffers are used; four
generations, so that they pass both parities twice and wrap.  The writers, the
readers and the calls are interchangeable, so their permutations are a symmetry;
the liveness run uses none.  `executor`: a first batch, one that follows a failure
and one handed over while the executor closes; two chunks, a front and a rest; two
send attempts, a retry and giving up, while creation is unlimited, so both kinds of
limit occur.  `split`: two elements per field are the fewest for which a
sub-message is opened in the middle of a field, and sizes below, near and above the
limit give every outcome of the comparison, equality included (1 + 2).
`container`: two holders, a last one and one that is not, beside the reporter thread
make three flushes that can meet; two instances, so that a thread or a holder of the
first could reach the second; two bitmaps, so that one does not match.
`aggregator`: one connection can be deleted while the other is read; the events
(1 + 1 + 2) exceed the cap of 3 in some orders and not in others, and a log message
of 2 fits once.  `bandwidth`: the times allow a first window, two on time or one of
them late, a window brought forward by a flush, and a saving; one operation lasts no
time and one two buckets, more than is carried over; 12 bytes exceed what a bucket
passes on (8), and are divisible by any number of buckets up to 4.

`CHECK_DEADLOCK FALSE` in the runs of the executor, the splitting, the container,
the aggregator and the bandwidth: these systems end, with the executor destroyed,
the message split, every instance used up, the aggregator destroyed, or the
clock at its bound.

### Fairness

* `conn_stats_live`: a thread inside a critical section keeps running
  (`WF` on a writer's `NotifySubmit \/ NotifyReturn` and on a window once begun),
  and the reporter's timer keeps firing (`WF` on `ReadInterval`).  Nothing obliges
  an application to notify.  Weak fairness is also what a lock needs here: calls
  and windows are bounded, so a reader waits for `mtx_` only finitely often.
* `executor`: `WF(Worker)`: the thread runs and a blocking send returns, by the
  client's timeout.  `WF(Enqueue \/ Join)`: a caller that is inside `UpdateQueue` or
  the destructor goes on; it is never obliged to enter.  `WF(Elapse)`: time passes.
  `SF(UploadFront /\ result')`: a server tried over and over accepts a message at
  last; `ShutdownCompletes` does not need it.
* `container`: a thread inside a call or a report goes on (`WF` on `Step` and
  `Report`), and so does the reporter thread's loop.  `SF(LockMtx)`: the reporter
  takes its mutex again and again, and a mutex that queues its waiters lets an
  application thread have it in the end; the standard does not promise this of
  `std::mutex`, the scheduling of its waiters does in practice.  No thread is ever
  obliged to call.
* `aggregator`: `WF(ReadTelemetry)`: the reporter reads at intervals and finishes
  what it began.

## 4. Findings

* `upload_index`: at a shutdown with nothing queued the executor uploads a message
  that has no `upload_index` (`nccl_stats_uploader_executor.cc` 313-318), whereas
  `proto/nccl_telemetry_proto.proto` 275 says the field is filled iff upload is
  enabled.
* `split_size`: `splitField` moves all elements of a field into the sub-message that
  was current when it started (line 121), even those for which it opened a new one
  (line 118).  The first one exceeds the limit the header promises
  (`nccl_stats_uploader_executor.h` 62-63), and the others go out empty.  The tests
  count the sub-messages and compare the order of the elements, and both are right
  (`NoNeedlessMessage`, `ContentKept`).
* `local_disk`: the mode passed to `init` is stored as the default of a parameter
  that is read in another code (`params.cc` 276): `kWriteOnLocalDiskOnly`, 2, comes
  out as the reserved mode, which uploads and writes no file; `nccl_stats.h` 174 says
  "Write on local disk only", and `params.h` 43 "Local Disk:2".
* `recv_bytes`: `zeroOutBWReadStats` (`nccl_stats_aggregator.cc` 1224) zeroes both
  directions after the first, Send, was added up; what was received is always zero in
  histograms and file, which `proto/millisecond_bw_file_format.proto` 14 describes as
  the bytes received or transmitted.
* `incomplete_batch`: after a saving, the batch that is moved to the front is the one
  the last window began in (`millisecond_bandwidth_output.cc` 175), not the one it
  ended in, although line 148 and the header, line 49, mean the incomplete one.

## 5. Proofs

All for every value of the constants, under the assumptions named in the modules.

`ConnStatsProofs`, for any sets of threads and calls, any bounds and any even
modulus:

* `TypeCorrect`: `Spec => [](TypeOK /\ WindowCounted)`.  A window's sample is typed
  only because a window in progress has been counted, which `WindowCounted` adds.
* `NoDataRace`: `Spec => []RaceFree`.  The invariant has two halves.  `LockInv`: a
  writer inside a call holds `mtx_`, a reader inside an interval or a window holds
  `connections_mtx_`, and both locks have one holder.  `SafeInv`: the mirrors equal
  the generations, a writer inside a call uses the write slots of the current
  generations, and a reader that copies or resets uses the other slot.  A generation
  moves only with `mtx_` free, that is with no writer inside, and flips its parity
  (`NextGenerationFlips`, where the evenness of the modulus is used), so the slot
  just left belongs to the reader alone.

`ConnStatsRefinementProofs` adds three invariants to those, together `KeepInv`.
`CallInv`: what a call in progress has submitted is in the open interval and comes
before its present position, so nothing is submitted twice or cut apart.
`WindowInv`: a window has not submitted what it has still to aggregate.  `CutInv`:
what the read slot holds is still to be copied or has been, so that resetting it
loses nothing.

* `Implements`: `Spec => ImplementsIntervalReports`.  Submitting maps to the abstract
  submission, the change of generation to closing, the copy of a histogram to
  reporting; all other steps stutter.
* `CallsStayWhole`: `Spec => []CallsWhole`.

`UploaderExecutorProofs`, for any numbers of batches, chunks and attempts.  The
inductive invariant is `ExecInv`: types, `FrontHole`, `Closing`, `Queued` and
`RefusedOnlyWhenClosing`.  `FrontHole` is not inductive: while the thread makes its
last upload from an empty queue, a caller could fill the queue and be dropped.
`Closing` excludes that: `shutdown_` was set by the destructor, after which there
is no caller, or by the thread itself, which then finds a dead uploader and makes
no last upload.

* `TypeCorrect`: `Spec => []TypeOK`; `NullSlotAtFront`: `Spec => [](TypeOK /\ FrontHole)`.
* `CallerNeverMeetsUpload`: `Spec => []UploaderExclusive`.
* `HealthyUploaderAccepts`: `Spec => []RefusedOnlyWhenClosing`.
* `Implements`: `Spec => ImplementsUploadQueue`.  `LastInv` says that a last message
  is a chunk exactly if there was one in the queue.  What an acknowledgement removes is the head of
  `Pending`, by `FrontHole`.
* `IndexIsUnique`: `Spec => []IndexIdentifiesContent`.  `OrderInv`: the indices in
  the queue increase and are larger than those of all earlier chunks.  `TriedInv`: the chunk to
  which the shutdown adds an entry was never handed to the client before, since one
  that was is not taken for the last upload.
* `AcknowledgedInOrder`: `Spec => []AckedInOrder`.  `AckInv`: what was acknowledged is
  older than all of `Pending`, which is in order, and both are older than what has been
  split or is still to be numbered.  Steps other than the caller's can only take the
  front of `Pending` off or give it all up (`Drains`, which the refinement's lemmas show).
* `ShutdownIsShort`: `Spec => ShutdownHastens`.  `StepsLeft` ranks the places of the
  thread; after `shutdown_` is set each of its steps lowers the rank, from any place.
  This is the safety half of `ShutdownCompletes`: the destructor waits for two
  uploads at most, not for the queue to be worked off or for a backoff.

`ContainerLifecycleProofs`, for any finite set of threads, fewer than the modulus of
the count (`LifecycleAssumption`).  The invariant `IInv` says of an application
thread where it can be with and without a handle (`AppInv`), of the reporter thread
that it exists exactly while the instance has holders or is being freed
(`ReporterInv`), of each thread what it knows of the executor (`ThreadInv`), and of the
instance how its end and the place of its samples go together (`InstanceInv`).

* `TypeCorrect`, and `CountIsExact`: `Spec => []RefCountsHolders`: the unsigned count
  never wraps, as `destroy` is called by holders only.
* `ThreadIsJoined`: `[]ThreadHasInstance`.
* `NothingToCrashOn`: `[]CrashNeedsExecutor`; `NoDropBeforeFlush`:
  `[]DropsOnlyAfterFlush` (about reports for which there is no executor; one that an
  executor refuses is `HealthyUploaderAccepts` above).
* `DiskIsComplete`: `[]DiskGetsEverything`.  The last flush is the one of the exiting
  thread: there is no holder left to submit, and no executor whose upload could
  make it skip the read, as the holder that left had flushed first.
* `NobodyDeadlocks`: `[]NoDeadlock`, for any number of threads.  `LockInv`: `mtx_` is
  held exactly from the start of a report to its end, `mx_` beyond one step only by the
  thread that frees the instance, and the reporter thread makes no call and is there
  whenever someone may join it.  Then a wait for `mx_` leads to a thread that waits
  for the reporter thread, which waits at most for `mtx_`, whose holder waits for
  nobody: every set of threads has a member that waits for none of the set.  The mutant
  `DestroyLocked`, which takes `mx_` before the flush, makes a thread wait for itself.

`AggregatorProofs`, for any connections, events and caps (`AggregatorAssumption`).
`IInv` is made of `TypeInv`, `ReaderInv` (what a reader in each section has still to
visit), `HeldInv` (histograms hold their own connection's measurements) and
`SilenceInv` (between the swap of the events and the next reading of connections, no
event is left of a connection that was freed).

* `TypeCorrect`, `NoStaleVisit`: `[]ReaderVisitsLive`, `NothingLost`:
  `[]DeletionLosesNothing`, `NoEventAfterLast`: `[]LastReportComplete`.

* `SizesExact`: `[]SizesMatchQueues`, and `EventsExact`: `[]EventsOnceInOrder`, from
  `QueueInv`: both properties, and that the events swapped out are gone once they
  have been parsed (`LocalInv`), or the next swap would bring them back.  The size of
  a queue is a fold over it, and what was reported a selection from what was sent;
  both are shown to grow by one element at a time.

`FoldLemmas` makes such proofs possible.  The provers cannot apply an induction
principle whose parameter is a predicate, so its principles are about sets: a set of
numbers with 0 and all successors (`NatSetInduction`), a set of parts of a finite set
(`SubsetInduction`), a set of beginnings of a sequence (`RunInduction`), each from the
well-foundedness of the strict subsets of a set.  With them a fold over a set is shown to
exist and to be unique, and sums to behave as expected: over unions and parts
(`SumUnion`, `SumSubset`), with one value changed (`SumChange`), shifted or renamed
(`SumShift`, `SumImage`), in the other order (`SumSwap`), and in groups (`SumGroups`).

`BandwidthWindowProofs`, for any finite sets of connections and NICs, any sizes of
the buffers, latencies, periods and bounds (`BandwidthAssumption`,
`MillisecondAssumption`).  `IInv` has six parts, and TLC finds it true on the instance
of the run `bandwidth` too.  `BufferInv`: between two windows only the write buffer
of a connection has bytes, it began with the last window, or is empty if the
connection is newer, and no bucket beyond the clock is in use; without the last
of these, a window would leave behind what it neither adds up nor carries over.
`BookInv`: what is in the write buffer and what was added up is what was
booked, for Send and a connection without late calls, and never more for anyone.
`TotalInv`: no more was booked than the calls have brought.  `NicInv`: what was added
up is what was submitted to the NIC's histograms and what is carried on.  `MsecInv`: what
the batches and the file hold is no more than what was submitted, even after the
code has written beyond its buffer.

* `TypeCorrect`; `SendConserved`: `[]SendBytesConserved`; `NicConserved`:
  `[]NicBytesConserved`.  A window's effect on a NIC is a fold over its buckets within
  one over directions and NICs; each turn conserves bytes (the carry goes from one to
  the next), and the sum over NICs of the sums of their connections is the sum over
  all connections (`SumGroups`).
* `MsecSound`: `[]MsecNeverInvents`.  Copying writes a bucket to at most one position,
  and what a saving moves to the front is not counted twice.

`SplitMessageProofs`, for any sizes, limit and number of elements (`SizeAssumption`).
`SplitInv` is `TypeInv`, `FieldInv` and `FirstInv`.  `FieldInv` is stronger than what the
properties ask and says what the finding `split_size` shows: a field is never
divided.  All its elements that have been moved are in one sub-message, the one the
pointer led to when the field began, from the last to the first.

* `TypeCorrect`; `ContentIsKept`: `[]ContentKept`, as putting together the parts of a
  field, one of them whole and the rest empty, gives that one (`JoinedIs`, by
  `RunInduction`).
* `LogEntriesComeFirst`: `[]LogEntriesFirst`, since the first field is in the first
  sub-message.
* `AsFewAsPossible`: `[]NoNeedlessMessage`.  Although the elements end up elsewhere, the
  sub-messages are counted as if each held what was moved while it was current.
  `GreedyInv`: the positions at which one was sealed are those of the greedy division of
  `Taken`, the sequence of what is moved, and the current size is that of the group
  still open.  Up to the last of them any other division within the limit has ended at
  least as many groups: between two of them it ends one too (`SomeGroupEnds`), or a
  group of its own would hold the greedy group and the element that did not fit.

Every invariant of the runs is thus a theorem, and so are the refinements and the
action property.  Only model-checked are the liveness properties (`EveryCallReported`,
`ShutdownCompletes`, `UploadsFinish`, `CallsReturn`, `EverythingReported`), since TLAPS
does not handle `ENABLED` and fairness; and, as they are false, the properties of the
findings.

## 6. Not modelled

The contents of histograms (floating point), offered load, latencies per bucket and
their variance, the variance histograms of a NIC, the rotation of files by age and
their names, time stamps in the file, formats and file I/O, the ACS client's
internals, the distribution bucketer (a pure function over logarithms), data races
on flags that are read without a lock but whose outcomes are those of some
interleaving (`is_dead_` in `UploadFinished`), scripts and tests.

What the models assume, and the code does not check or ensure:

* `CollectedAssumption`: a measurement is of a type that was enabled when its
  connection was added; the code dereferences a null histogram otherwise.
* `BandwidthAssumption`: the carried buckets fit into a buffer.  (That a size can be
  divided by any number of buckets, and that the first time is after the largest
  latency and not after the last time, are choices of the model: they leave out the
  remainder of a division, and a time before the process began.)
* All callers of `init` pass the same mode.  `init_v2` writes it to the default of a
  parameter before it has `mx_` (`nccl_stats_container.cc` 183), so that of two threads
  with different modes either may decide the mode of the instance.
* Callers are balanced; one that destroys after a failed `init` would decrement an
  unsigned count of zero.
* Bandwidth of both directions is collected (`nccl_stats_aggregator.cc` 1123 tests the
  switch of the message size where the latency's is meant).
* `CloseOutBandwidthStats` runs on an application thread without a mutex, against the
  header's remark on threads; `BandwidthWindow` takes the calls as atomic.
* The batches have room for what two savings collect.  With an output interval close
  to the period of a window they do not, and `CopyOverBandwidthStats` writes beyond
  the buffer; the model stops there.

Seen while modelling, and no property: log messages of the final read are in no
report; `readStatsFromLastInterval` never fails, so that the branch that logs its
failure is dead; the destructive end of the output says it "also disables the class",
but the flag is tested nowhere else; in `getFileName` a local variable hides the
member of the same name; the file format's time is called monotonic, and the wall
clock is written.

## 7. Plan

1. `AcsConfig`: the configured rates, zero included, and the minimal wait they give
   to `NcclUploader`.
2. The latency of a bucket and the offered load, with their variance, in
   `BandwidthWindow`; a window of several steps there.
3. The rotation of files by age in the reporter and the output.
