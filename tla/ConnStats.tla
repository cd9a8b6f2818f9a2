----------------------------- MODULE ConnStats -----------------------------
(***************************************************************************)
(* NcclStatsConnectionStatistics: the histograms of one connection, written*)
(* by application threads in notifyOperationMeasurement and read by the    *)
(* reporting path without holding the writers' lock.  Two copies of the    *)
(* histograms and a generation counter keep them apart: the writers use    *)
(* copy generation % 2 under mtx_, the reader advances the generation under*)
(* mtx_ and then copies and resets the other one with no lock at all.  The *)
(* bandwidth buffers bw_stats_ are switched the same way by a generation of*)
(* their own, and what is computed from them is submitted, again without   *)
(* mtx_, to the histograms the writers are using at that moment.           *)
(*                                                                         *)
(* A histogram is the set of samples it counted.  A sample is <<source,    *)
(* position, type>>: the size (position 0) and each latency of a call, or  *)
(* what one bandwidth window contributed.                                  *)
(***************************************************************************)
EXTENDS Naturals, Sequences

CONSTANTS
  Writer,      \* application threads that notify measurements
  Reader,      \* threads that report: the reporter, or a caller that flushes
  Call,        \* identities of notifyOperationMeasurement calls
  Metric,      \* the measurements a call may carry
  MaxMeasurements,  \* largest num_measurements
  Collected,   \* distribution types whose bit is set in the bitmap
  BwEnabled,   \* bw_hist_collection_enabled_
  GenModulus,  \* the generations are unsigned integers modulo this
  MaxWindows   \* bound on the number of bandwidth windows

NoThread == "none"
Slot == {0, 1}
Direction == {"Send", "Recv"}

NotifyType == {"SendMessageSize", "RecvMessageSize", "SendLatencySW",
               "SendLatencyNetHW", "RecvLatencySW", "RecvLatencyNetHW",
               "RecvReadyLatency"}
WindowType == {"SendBandwidth", "RecvBandwidth", "LatencyVariance"}
DistType == NotifyType \cup WindowType
InvalidType == "Invalid"

SizeType(op) ==
  CASE op = "ChunkSend" -> "SendMessageSize"
    [] op = "ChunkRecv" -> "RecvMessageSize"
    [] OTHER -> InvalidType

LatencyType(op, latency) ==
  CASE op = "ChunkSend" /\ latency = "Software"  -> "SendLatencySW"
    [] op = "ChunkSend" /\ latency = "NetHW"     -> "SendLatencyNetHW"
    [] op = "ChunkRecv" /\ latency = "Software"  -> "RecvLatencySW"
    [] op = "ChunkRecv" /\ latency = "NetHW"     -> "RecvLatencyNetHW"
    [] op = "ChunkRecv" /\ latency = "RecvReady" -> "RecvReadyLatency"
    [] OTHER -> InvalidType

BandwidthType(d) == IF d = "Send" THEN "SendBandwidth" ELSE "RecvBandwidth"

(***************************************************************************)
(* A caller reports only what it enabled in the bitmap: a histogram of     *)
(* another type is a null pointer, which the code does not test.           *)
(***************************************************************************)
ASSUME CollectedAssumption ==
  /\ Collected \subseteq DistType
  /\ BwEnabled \in BOOLEAN
  /\ BwEnabled => {"SendBandwidth", "RecvBandwidth"} \subseteq Collected
  /\ \A m \in Metric :
       /\ SizeType(m.op) \in Collected \cup {InvalidType}
       /\ m.latencies \in Seq({"Software", "NetHW", "RecvReady", "Bad"})
       /\ Len(m.latencies) <= MaxMeasurements
       /\ \A i \in 1 .. Len(m.latencies) :
            LatencyType(m.op, m.latencies[i]) \in Collected \cup {InvalidType}

ASSUME BoundsAssumption ==
  /\ MaxMeasurements \in Nat
  /\ MaxWindows \in Nat
  /\ GenModulus \in Nat \ {0}
  /\ GenModulus % 2 = 0

ASSUME ThreadAssumption == NoThread \notin Writer \cup Reader

Sample == (Call \X (0 .. MaxMeasurements) \X NotifyType)
            \cup ((1 .. MaxWindows) \X {0} \X WindowType)

Source(s) == s[1]
TypeOf(s) == s[3]

VARIABLES
  mtx,          \* holder of mtx_
  connectionsMtx, \* holder of the aggregator's connections_mtx_
  generation,   \* generation_
  generationForRead,   \* generation_for_reporter_read_
  generationBw,        \* generation_bw_
  generationBwForRead, \* generation_bw_for_reporter_read_
  dist,         \* distribution_map_: samples counted in each of the two copies
  bwStarted,    \* start_time_milliseconds # 0, for each of the two bw_stats_
  bwLoad,       \* calls whose bytes each bw_stats_ holds, by direction
  used,         \* calls made so far
  writing,      \* call a writer is serving: its locals, or Idle
  reading,      \* what a reader is doing: its locals, or Resting
  windows,      \* bandwidth windows processed so far
  batch,        \* samples copied to the ConnectionStats message being filled
  reported      \* samples of the messages already returned

writerVars == <<used, writing>>
bwVars == <<generationBw, generationBwForRead, bwStarted, bwLoad>>
reportVars == <<batch, reported>>
vars == <<mtx, connectionsMtx, generation, generationForRead, bwVars, dist,
          writerVars, reading, windows, reportVars>>

Idle == [step |-> "idle"]
Resting == [step |-> "rest", slot |-> 0, todo |-> {}]

NextGeneration(g) == IF g = GenModulus - 1 THEN 0 ELSE g + 1

\* Mutant: the lock is not taken.
MtxIgnored == TRUE

\* absl::MutexLock lock(&mtx_) can be constructed
MtxFree == mtx = NoThread

WriteSlot == generationForRead % 2
BwWriteSlot == generationBw % 2
BwReadSlot == (generationBwForRead + 1) % 2

Init ==
  /\ mtx = NoThread /\ connectionsMtx = NoThread
  /\ generation = 0 /\ generationForRead = 0
  /\ generationBw = 0 /\ generationBwForRead = 0
  /\ dist = [i \in Slot |-> {}]
  /\ bwStarted = [i \in Slot |-> FALSE]
  /\ bwLoad = [i \in Slot |-> [d \in Direction |-> {}]]
  /\ used = {}
  /\ writing = [w \in Writer |-> Idle]
  /\ reading = [r \in Reader |-> Resting]
  /\ windows = 0
  /\ batch = {} /\ reported = {}

-----------------------------------------------------------------------------
(***************************************************************************)
(* notifyOperationMeasurement, under mtx_ from the reading of the two      *)
(* indices to the return.                                                  *)
(***************************************************************************)
NotifyBegin(w, c, m) ==
  /\ writing[w].step = "idle"
  /\ MtxFree
  /\ c \notin used
  /\ used' = used \cup {c}
  /\ IF SizeType(m.op) = InvalidType
     THEN UNCHANGED <<mtx, writing>>
     ELSE /\ mtx' = w
          /\ writing' = [writing EXCEPT ![w] =
               [step |-> "notify", call |-> c, metric |-> m, pos |-> 0,
                slot |-> WriteSlot, bwSlot |-> BwWriteSlot]]
  /\ UNCHANGED <<connectionsMtx, generation, generationForRead, bwVars, dist,
                 reading, windows, reportVars>>

SampleType(q) ==
  IF q.pos = 0 THEN SizeType(q.metric.op)
  ELSE LatencyType(q.metric.op, q.metric.latencies[q.pos])

BwDirection(t) ==
  CASE t = "SendLatencySW" -> {"Send"}
    [] t = "RecvLatencySW" -> {"Recv"}
    [] OTHER -> {}

\* updateBwAndLatencyStats: nothing is collected before the first switch
UpdateBw(q, t) ==
  IF BwEnabled /\ bwStarted[q.bwSlot]
  THEN bwLoad' = [bwLoad EXCEPT ![q.bwSlot] =
         [d \in Direction |-> IF d \in BwDirection(t) THEN @[d] \cup {q.call}
                              ELSE @[d]]]
  ELSE UNCHANGED bwLoad

\* Mutant: what getLatencyDistributionType returned is not tested, and the
\* latency is submitted to a histogram of no type.
MoreToSubmitUntested(q) == q.pos <= Len(q.metric.latencies)

MoreToSubmit(q) ==
  /\ q.pos <= Len(q.metric.latencies)
  /\ SampleType(q) # InvalidType

NotifySubmit(w) ==
  LET q == writing[w]  t == SampleType(q) IN
  /\ q.step = "notify"
  /\ MoreToSubmit(q)
  /\ dist' = [dist EXCEPT ![q.slot] = @ \cup {<<q.call, q.pos, t>>}]
  /\ UpdateBw(q, t)
  /\ writing' = [writing EXCEPT ![w] = [q EXCEPT !.pos = @ + 1]]
  /\ UNCHANGED <<mtx, connectionsMtx, generation, generationForRead,
                 generationBw, generationBwForRead, bwStarted, used, reading,
                 windows, reportVars>>

\* the end of the measurements, or the error return on a bad latency type,
\* which leaves what was submitted before it in the histograms
NotifyReturn(w) ==
  LET q == writing[w] IN
  /\ q.step = "notify"
  /\ ~MoreToSubmit(q)
  /\ mtx' = NoThread
  /\ writing' = [writing EXCEPT ![w] = Idle]
  /\ UNCHANGED <<connectionsMtx, generation, generationForRead, bwVars, dist,
                 used, reading, windows, reportVars>>

-----------------------------------------------------------------------------
(***************************************************************************)
(* readStatsFromLastInterval, called by readTelemetry with connections_mtx_*)
(* held.  The copy and the reset visit one histogram at a time.            *)
(***************************************************************************)
ReadTelemetry(r) ==
  /\ reading[r].step = "rest"
  /\ connectionsMtx = NoThread
  /\ connectionsMtx' = r
  /\ reading' = [reading EXCEPT ![r] = [@ EXCEPT !.step = "swap"]]
  /\ UNCHANGED <<mtx, generation, generationForRead, bwVars, dist, writerVars,
                 windows, reportVars>>

\* Mutant: the index to read is taken after the generation moved on.
SwapGenerationLateIndex(r) ==
  /\ reading[r].step = "swap"
  /\ MtxFree
  /\ generation' = NextGeneration(generation)
  /\ generationForRead' = generation'
  /\ reading' = [reading EXCEPT ![r] =
                  [step |-> "copy", slot |-> 1 - WriteSlot, todo |-> Collected]]
  /\ UNCHANGED <<mtx, connectionsMtx, bwVars, dist, writerVars, windows,
                 reportVars>>

\* Mutant: the mirror the index is computed from is not updated.
SwapGenerationStaleMirror(r) ==
  /\ reading[r].step = "swap"
  /\ MtxFree
  /\ generation' = NextGeneration(generation)
  /\ UNCHANGED generationForRead
  /\ reading' = [reading EXCEPT ![r] =
                  [step |-> "copy", slot |-> WriteSlot, todo |-> Collected]]
  /\ UNCHANGED <<mtx, connectionsMtx, bwVars, dist, writerVars, windows,
                 reportVars>>

SwapGeneration(r) ==
  /\ reading[r].step = "swap"
  /\ MtxFree
  /\ generation' = NextGeneration(generation)
  /\ generationForRead' = generation'
  /\ reading' = [reading EXCEPT ![r] =
                  [step |-> "copy", slot |-> WriteSlot, todo |-> Collected]]
  /\ UNCHANGED <<mtx, connectionsMtx, bwVars, dist, writerVars, windows,
                 reportVars>>

OfType(S, t) == {s \in S : TypeOf(s) = t}

CopyHistogram(r, t) ==
  /\ reading[r].step = "copy"
  /\ t \in reading[r].todo
  /\ batch' = batch \cup OfType(dist[reading[r].slot], t)
  /\ reading' = [reading EXCEPT ![r] =
        IF @.todo = {t} THEN [@ EXCEPT !.step = "reset", !.todo = Collected]
        ELSE [@ EXCEPT !.todo = reading[r].todo \ {t}]]
  /\ UNCHANGED <<mtx, connectionsMtx, generation, generationForRead, bwVars,
                 dist, writerVars, windows, reported>>

\* resetReadBucket; the last reset returns the message and the locks
ResetHistogram(r, t) ==
  /\ reading[r].step = "reset"
  /\ t \in reading[r].todo
  /\ dist' = [dist EXCEPT ![reading[r].slot] = @ \ OfType(@, t)]
  /\ IF reading[r].todo = {t}
     THEN /\ reading' = [reading EXCEPT ![r] = Resting]
          /\ connectionsMtx' = NoThread
          /\ reported' = reported \cup batch
          /\ batch' = {}
     ELSE /\ reading' = [reading EXCEPT ![r].todo = @ \ {t}]
          /\ UNCHANGED <<connectionsMtx, reportVars>>
  /\ UNCHANGED <<mtx, generation, generationForRead, bwVars, writerVars,
                 windows>>

-----------------------------------------------------------------------------
(***************************************************************************)
(* The connection's part of processHighFrequencyTelemetry, also under      *)
(* connections_mtx_: switch the bandwidth buffers, then aggregate the one  *)
(* just left, Send before Recv, submitting to the histograms the writers   *)
(* use.                                                                    *)
(***************************************************************************)
ProcessWindow(r) ==
  /\ BwEnabled
  /\ windows < MaxWindows
  /\ reading[r].step = "rest"
  /\ connectionsMtx = NoThread
  /\ connectionsMtx' = r
  /\ windows' = windows + 1
  /\ reading' = [reading EXCEPT ![r] = [@ EXCEPT !.step = "window"]]
  /\ UNCHANGED <<mtx, generation, generationForRead, bwVars, dist, writerVars,
                 reportVars>>

\* swapStateForBWstatsandInitializeTime; "late" are the calls whose bytes
\* reach the carry-over buckets, which are copied to the new buffer
SwapBwGeneration(r) ==
  LET old == generationBwForRead % 2
      new == NextGeneration(generationBw) % 2 IN
  /\ reading[r].step = "window"
  /\ MtxFree
  /\ generationBw' = NextGeneration(generationBw)
  /\ generationBwForRead' = generationBw'
  /\ bwStarted' = [bwStarted EXCEPT ![new] = TRUE]
  /\ \E late \in [Direction -> SUBSET Call] :
       /\ \A d \in Direction : late[d] \subseteq bwLoad[old][d]
       /\ bwLoad' = [bwLoad EXCEPT ![new] =
                      [d \in Direction |-> @[d] \cup late[d]]]
  /\ reading' = [reading EXCEPT ![r] =
                  [step |-> "aggregate", slot |-> new, todo |-> Direction]]
  /\ UNCHANGED <<mtx, connectionsMtx, generation, generationForRead, dist,
                 writerVars, windows, reportVars>>

WindowSample(t) == <<windows, 0, t>>

\* aggregateBWStatsFromLastInterval: the histogram gets a sample for every
\* bucket before the carry-over ones, and both directions of the buffer are
\* zeroed.  In the aggregator's first window there is no such bucket; whether
\* this window of the connection is that one is part of the choice.
AggregateBw(r, d) ==
  /\ reading[r].step = "aggregate"
  /\ d \in reading[r].todo
  /\ d = "Recv" => "Send" \notin reading[r].todo
  /\ \E S \in SUBSET {WindowSample(BandwidthType(d))} :
       dist' = [dist EXCEPT ![WriteSlot] = @ \cup S]
  /\ bwLoad' = [bwLoad EXCEPT ![BwReadSlot] = [x \in Direction |-> {}]]
  /\ reading' = [reading EXCEPT ![r] =
        IF @.todo = {d} THEN [@ EXCEPT !.step = "variance", !.todo = {}]
        ELSE [@ EXCEPT !.todo = reading[r].todo \ {d}]]
  /\ UNCHANGED <<mtx, connectionsMtx, generation, generationForRead,
                 generationBw, generationBwForRead, bwStarted, writerVars,
                 windows, reportVars>>

\* aggregateVarianceStats, when the latency variance histogram exists
AggregateVariance(r) ==
  /\ reading[r].step = "variance"
  /\ \E S \in SUBSET {WindowSample("LatencyVariance")} :
       /\ "LatencyVariance" \notin Collected => S = {}
       /\ dist' = [dist EXCEPT ![WriteSlot] = @ \cup S]
  /\ reading' = [reading EXCEPT ![r] = Resting]
  /\ connectionsMtx' = NoThread
  /\ UNCHANGED <<mtx, generation, generationForRead, bwVars, writerVars,
                 windows, reportVars>>

-----------------------------------------------------------------------------
Notify(w) ==
  \/ \E c \in Call, m \in Metric : NotifyBegin(w, c, m)
  \/ NotifySubmit(w)
  \/ NotifyReturn(w)

ReadInterval(r) ==
  \/ ReadTelemetry(r)
  \/ SwapGeneration(r)
  \/ \E t \in DistType : CopyHistogram(r, t) \/ ResetHistogram(r, t)

Window(r) ==
  \/ ProcessWindow(r)
  \/ SwapBwGeneration(r)
  \/ \E d \in Direction : AggregateBw(r, d)
  \/ AggregateVariance(r)

Next ==
  \/ \E w \in Writer : Notify(w)
  \/ \E r \in Reader : ReadInterval(r) \/ Window(r)

Spec == Init /\ [][Next]_vars

(***************************************************************************)
(* A thread inside one of the two critical sections keeps running, and the *)
(* reporter's timer keeps starting reads.  Nothing obliges the application *)
(* to notify, nor the reporter to open a bandwidth window.                 *)
(***************************************************************************)
Fairness ==
  /\ \A w \in Writer : WF_vars(NotifySubmit(w) \/ NotifyReturn(w))
  /\ \A r \in Reader :
       /\ WF_vars(ReadInterval(r))
       /\ WF_vars(Window(r) /\ reading[r].step # "rest")

FairSpec == Spec /\ Fairness

-----------------------------------------------------------------------------
(***************************************************************************)
(* Properties.                                                             *)
(***************************************************************************)
InNotify == [step : {"notify"}, call : Call, metric : Metric,
             pos : 0 .. MaxMeasurements + 1, slot : Slot, bwSlot : Slot]

InRead == [step : {"rest", "swap", "copy", "reset", "window", "aggregate",
                   "variance"},
           slot : Slot, todo : SUBSET (DistType \cup Direction)]

\* Types: every variable stays in the range its C++ type and the code give it;
\* for the histograms, that only samples of a valid distribution type are
\* counted, also when notifyOperationMeasurement returns early with an error.
TypeOK ==
  /\ mtx \in Writer \cup {NoThread}
  /\ connectionsMtx \in Reader \cup {NoThread}
  /\ generation \in 0 .. GenModulus - 1
  /\ generationForRead \in 0 .. GenModulus - 1
  /\ generationBw \in 0 .. GenModulus - 1
  /\ generationBwForRead \in 0 .. GenModulus - 1
  /\ dist \in [Slot -> SUBSET Sample]
  /\ bwStarted \in [Slot -> BOOLEAN]
  /\ bwLoad \in [Slot -> [Direction -> SUBSET Call]]
  /\ used \in SUBSET Call
  /\ writing \in [Writer -> {Idle} \cup InNotify]
  /\ reading \in [Reader -> InRead]
  /\ windows \in 0 .. MaxWindows
  /\ batch \in SUBSET Sample
  /\ reported \in SUBSET Sample

\* The memory a thread may touch in its next unlocked or locked step: elements
\* of the arrays distribution_map_[slot][type] and bw_stats_[slot].
WriterTouches(w) ==
  IF writing[w].step = "idle" THEN {}
  ELSE ({writing[w].slot} \X NotifyType) \cup {<<writing[w].bwSlot, "bw">>}

ReaderTouches(r) ==
  LET q == reading[r] IN
  CASE q.step \in {"copy", "reset"} -> {q.slot} \X DistType
    [] q.step \in {"aggregate", "variance"} ->
         ({WriteSlot} \X WindowType) \cup {<<BwReadSlot, "bw">>}
    [] OTHER -> {}

\* "Each array element is guaranteed to be accessed only by one of the threads":
\* what a writer touches under mtx_ is never what the reporting path touches
\* without it, and two reporting threads never touch the same element.
RaceFree ==
  /\ \A w \in Writer, r \in Reader : WriterTouches(w) \cap ReaderTouches(r) = {}
  /\ \A r1, r2 \in Reader :
       r1 # r2 => ReaderTouches(r1) \cap ReaderTouches(r2) = {}

OpenSamples == dist[WriteSlot]
ClosedSamples == batch \cup dist[1 - WriteSlot]

\* The size and the latencies of one call, submitted one by one, are reported
\* together: no call has samples both in the interval being written and in one
\* that was already cut.
CallsWhole ==
  \A s \in OpenSamples, t \in ClosedSamples \cup reported :
    TypeOf(s) \in NotifyType /\ TypeOf(t) \in NotifyType => Source(s) # Source(t)

Reports == INSTANCE IntervalReports
             WITH open <- OpenSamples, closed <- ClosedSamples

\* The connection is an interval reporter: no sample is lost, reported twice or
\* moved to another interval, whatever the interleaving of notify, read and
\* bandwidth window.
ImplementsIntervalReports == Reports!Spec

SamplesOf(c, S) == {s \in S : Source(s) = c}

\* Once a call has submitted a sample, everything it submits is eventually in
\* the reports.
EveryCallReported ==
  \A c \in Call :
    SamplesOf(c, OpenSamples) # {} ~>
      /\ SamplesOf(c, reported) # {}
      /\ SamplesOf(c, OpenSamples \cup ClosedSamples) = {}
=============================================================================
