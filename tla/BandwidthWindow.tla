-------------------------- MODULE BandwidthWindow ---------------------------
(***************************************************************************)
(* Bandwidth, from the measurement to the file of milliseconds: callers    *)
(* book the bytes of an operation in the buckets of time it took, in one   *)
(* of two buffers of their connection; processHighFrequencyTelemetry swaps *)
(* the buffers, carries the last buckets over, adds the others up for each *)
(* NIC and caps what a NIC can have sent in a bucket.                      *)
(*                                                                         *)
(* Times are in milliseconds.  A window is one step: the swaps and the     *)
(* sums of other connections do not interfere with a call, and ConnStats   *)
(* has the steps of one connection.  Both directions are collected.  The   *)
(* offered load and latency of a bucket are left out.                      *)
(***************************************************************************)
EXTENDS MillisecondOutput

CONSTANTS
  Connection, NicOf,
  BurstBuckets, JitterBuckets,  \* the sum is bw_burst_count_
  MaxLatency,      \* max_expected_latency_per_tx_milliseconds_
  MaxBytes,        \* max_bytes_per_bucket_
  Size,            \* bytes of an operation, which any number of buckets divides
  Latency,         \* latencies of an operation
  MaxCalls,        \* bound on the operations booked
  FirstTime, LastTime,  \* bounds on the clock
  MaxLate          \* how late the reporter thread may call

Burst == BurstBuckets + JitterBuckets
CarryOver == MaxLatency \div BucketTime  \* carry_over_buckets_
Period == BurstBuckets * BucketTime
Index == 0 .. Burst - 1

\* The code does not check that the carried buckets fit into a buffer, nor do
\* the ranges of the parameters imply it.
ASSUME BandwidthAssumption ==
  /\ IsFiniteSet(Connection) /\ NicOf \in [Connection -> Nic]
  /\ BurstBuckets \in Nat \ {0} /\ JitterBuckets \in Nat
  /\ MaxLatency \in Nat /\ CarryOver <= Burst
  /\ MaxBytes \in Nat /\ Latency \subseteq Nat
  /\ Size \in Nat /\ \A n \in 1 .. Burst : Size % n = 0
  /\ FirstTime \in Nat /\ FirstTime > MaxLatency
  /\ {LastTime, MaxCalls, MaxLate} \subseteq Nat /\ FirstTime <= LastTime

VARIABLES
  now,         \* the monotonic clock
  start,       \* bw_collection_start_time_milliseconds_
  due,         \* time_to_invoke of the window and of the saving
  conn,        \* the connections that are open, with their buffers
  nics,        \* the NICs allocated
  flush,       \* what a flush after the last deletion has still to do
  nicCarry,    \* carry_over_bytes_from_last_generation_
  msec,        \* the MillisecondBandwidthOutput
  call,        \* a measurement that read the clock and waits for mtx_
  calls,       \* measurements so far
  \* bytes booked and added up for each connection, and submitted to the
  \* histograms of the NICs, in each direction
  booked, aggregated, submitted,
  late         \* connections with a call that waited beyond the carry-over

bytes == <<booked, aggregated, submitted>>
vars == <<now, start, due, conn, nics, flush, nicCarry, msec, call, calls, bytes, late>>

NoBytes == [d \in Dir |-> 0]
Zero == [i \in Index |-> 0]
NoCall == [conn |-> {}]

\* initBWCollectionBuckets
EmptyBuffer == [start |-> 0, bw |-> [d \in Dir |-> Zero]]
NewConnection == [gen |-> 0, buffer |-> [state \in 0 .. 1 |-> EmptyBuffer]]

Init ==
  /\ now = FirstTime /\ start = 0
  /\ due = [window |-> FirstTime + Period, save |-> FirstTime + OutputInterval]
  /\ conn = <<>>
  /\ nics = {} /\ flush = "none"
  /\ nicCarry = 0
  /\ \E diff \in 0 .. BatchTime - 1 : msec = MillisecondInit(diff)
  /\ call = NoCall /\ calls = 0
  /\ booked = [c \in Connection |-> NoBytes]
  /\ aggregated = [c \in Connection |-> NoBytes]
  /\ submitted = NoBytes
  /\ late = {}

Open == DOMAIN conn

-----------------------------------------------------------------------------
(***************************************************************************)
(* notifyOperationMeasurement: updateBwAndLatencyStats.                    *)
(***************************************************************************)
\* the clock is read before mtx_ is taken
NotifyBegin(c) ==
  /\ call = NoCall /\ calls < MaxCalls
  /\ c \in Open
  /\ \E latency \in Latency, d \in Dir :
       call' = [conn |-> {c}, reported |-> now, latency |-> latency, dir |-> d]
  /\ calls' = calls + 1
  /\ UNCHANGED <<now, start, due, conn, nics, flush, nicCarry, msec, bytes, late>>

Larger(a, b) == IF a > b THEN a ELSE b
Smaller(a, b) == IF a < b THEN a ELSE b

\* division of signed integers in C++
Truncated(a, b) == IF a >= 0 THEN a \div b ELSE -((-a) \div b)

StartIdx(elapsed, latency) == Larger(Truncated(elapsed - latency, BucketTime), 0)

\* a negative number is a huge unsigned one
EndIdx(elapsed) ==
  LET end == Truncated(elapsed, BucketTime) + 1
  IN  IF end < 0 THEN Burst ELSE Smaller(end, Burst)

\* mutant: both ends count
BookedPerBucketOffByOne(bw, first, end) ==
  IF first >= end THEN [bw EXCEPT ![Burst - 1] = @ + Size]
  ELSE [i \in Index |-> IF i \in first .. end THEN bw[i] + Size \div (end - first)
                        ELSE bw[i]]

\* the bytes are spread over the buckets, or are all in the last one
BookedPerBucket(bw, first, end) ==
  IF first >= end THEN [bw EXCEPT ![Burst - 1] = @ + Size]
  ELSE [i \in Index |-> IF i \in first .. end - 1 THEN bw[i] + Size \div (end - first)
                        ELSE bw[i]]

\* nothing is collected before the first window
NotifyBook ==
  /\ call # NoCall
  /\ call' = NoCall
  /\ \E c \in call.conn :
       LET state == conn[c].gen
           buffer == conn[c].buffer[state]
           elapsed == call.reported - buffer.start
           d == call.dir
       IN  IF buffer.start = 0 THEN UNCHANGED <<conn, booked, late>>
           ELSE /\ conn' = [conn EXCEPT ![c].buffer[state].bw[d] =
                     BookedPerBucket(@, StartIdx(elapsed, call.latency), EndIdx(elapsed))]
                /\ booked' = [booked EXCEPT ![c][d] = @ + Size]
                /\ late' = IF elapsed < 0 THEN late \cup {c} ELSE late
  /\ UNCHANGED <<now, start, due, nics, flush, nicCarry, msec, calls, aggregated, submitted>>

-----------------------------------------------------------------------------
(***************************************************************************)
(* processHighFrequencyTelemetry.                                          *)
(***************************************************************************)
\* mutant: the bucket in progress does not count as used
UnusedBucketsOffByOne ==
  LET used == (now - start) \div BucketTime
  IN  IF start = 0 THEN Burst ELSE Larger(Burst - used, 0)

UnusedBuckets ==
  LET used == (now - start) \div BucketTime + 1
  IN  IF start = 0 THEN Burst ELSE Larger(Burst - used, 0)

BwVecValidLimit(unused) == Larger(Burst - (unused + CarryOver), 0)

\* swapStateForBWstatsandInitializeTime, of a connection
Swapped(cn, newStart, unused) ==
  LET old == cn.buffer[cn.gen]
      new == cn.buffer[1 - cn.gen]
      carried == BwVecValidLimit(unused)
  IN  [gen |-> 1 - cn.gen,
       buffer |-> [cn.buffer EXCEPT ![1 - cn.gen] =
         [start |-> newStart,
          bw |-> [d \in Dir |-> [i \in Index |->
             IF i < CarryOver THEN old.bw[d][i + carried] ELSE new.bw[d][i]]]]]]

ReadBuffer(cn) == cn.buffer[1 - cn.gen]

\* aggregateBWStatsFromLastInterval zeroes both directions after each
Aggregated(cn) ==
  [cn EXCEPT !.buffer[1 - cn.gen].bw = [d \in Dir |-> Zero]]

\* so that the second direction is zero when its turn comes
AggregatedBw(cn, d, i) ==
  IF d = "Send" THEN ReadBuffer(cn).bw[d][i] ELSE 0

\* mutant: what a bucket cannot hold is forgotten at the end of the window
CappedDropping(data, carry) ==
  FoldLeft(LAMBDA acc, added :
             [carry |-> 0,
              bw |-> Append(acc.bw, Smaller(added + acc.carry, MaxBytes))],
           [carry |-> carry, bw |-> <<>>], data)

\* calculateAndUpdateHistogram: what exceeds the capacity of a bucket is
\* carried to the next
Capped(data, carry) ==
  FoldLeft(LAMBDA acc, added :
             [carry |-> Larger(added + acc.carry - MaxBytes, 0),
              bw |-> Append(acc.bw, Smaller(added + acc.carry, MaxBytes))],
           [carry |-> carry, bw |-> <<>>], data)

\* and from the last to the next direction or NIC; acc has the carry, the
\* output and the bytes submitted
CalculateAndUpdateHistogram(acc, nic, d, data) ==
  LET capped == Capped(data, acc.carry)
  IN  [carry |-> capped.carry,
       msec |-> CopyOverBandwidthStats(acc.msec, d, nic, capped.bw),
       submitted |-> [acc.submitted EXCEPT ![d] =
                        @ + Sum(capped.bw, 1 .. Len(capped.bw))]]

\* aggregateBWStatsinHistogram, of the connections of a NIC
NicBw(swapped, nic, d, valid) ==
  [j \in 1 .. valid |->
     Sum([c \in Open |-> AggregatedBw(swapped[c], d, j - 1)], {c \in Open : NicOf[c] = nic})]

\* aggregateNicStatsinHistogram
AggregateNicStats(base, swapped, valid) ==
  LET one(acc, nic, d) ==
        CalculateAndUpdateHistogram(acc, nic, d, NicBw(swapped, nic, d, valid))
  IN  FoldLeft(LAMBDA acc, nic : one(one(acc, nic, "Send"), nic, "Recv"), base, SetToSeq(nics))

\* Samples beyond the last batch are written outside the buffer: time stops, as
\* nothing can be said of what follows.
Overrun == msec.next >= Batches

ProcessHighFrequencyTelemetry ==
  LET unused == UnusedBuckets
      valid == BwVecValidLimit(unused)
      swapped == [c \in Open |-> Swapped(conn[c], now - MaxLatency, unused)]
      result == AggregateNicStats(
        [carry |-> nicCarry, msec |-> RegisterCurrentTime(msec, now), submitted |-> submitted],
        swapped, valid)
  IN  /\ ~Overrun
      /\ start' = now - MaxLatency
      /\ conn' = [c \in Open |-> Aggregated(swapped[c])]
      /\ aggregated' = [c \in Connection |->
           IF c \in Open
           THEN [d \in Dir |-> aggregated[c][d]
                   + Sum([i \in Index |-> AggregatedBw(swapped[c], d, i)], 0 .. valid - 1)]
           ELSE aggregated[c]]
      /\ nicCarry' = result.carry
      /\ msec' = result.msec
      /\ submitted' = result.submitted
      /\ UNCHANGED <<now, nics, call, calls, booked, late>>

-----------------------------------------------------------------------------
(***************************************************************************)
(* The connections, and the reporter thread.                               *)
(***************************************************************************)
AddConnection(c) ==
  /\ c \notin Open /\ booked[c] = NoBytes
  /\ conn' = [o \in Open \cup {c} |-> IF o = c THEN NewConnection ELSE conn[o]]
  /\ nics' = nics \cup {NicOf[c]}
  /\ UNCHANGED <<now, start, due, flush, nicCarry, msec, call, calls, bytes, late>>

\* its buffers are not read any more; the last one flushes
DeleteConnection(c) ==
  /\ c \in Open \ call.conn
  /\ conn' = [o \in Open \ {c} |-> conn[o]]
  /\ flush' = IF Open = {c} THEN "window" ELSE flush
  /\ UNCHANGED <<now, start, due, nics, nicCarry, msec, call, calls, bytes, late>>

FlushTelemetry ==
  /\ flush = "window"
  /\ flush' = "close"
  /\ ProcessHighFrequencyTelemetry
  /\ UNCHANGED due

CloseOut ==
  /\ flush = "close" /\ ~Overrun
  /\ flush' = "none"
  /\ msec' = CloseOutBandwidthStats(msec)
  /\ UNCHANGED <<now, start, due, conn, nics, nicCarry, call, calls, bytes, late>>

\* the next call of a timer is due from the time of this one
ProcessWindow ==
  /\ now >= due.window
  /\ due' = [due EXCEPT !.window = now + Period]
  /\ ProcessHighFrequencyTelemetry
  /\ UNCHANGED flush

SaveWindow ==
  /\ now >= due.save /\ ~Overrun
  /\ due' = [due EXCEPT !.save = now + OutputInterval]
  /\ msec' = SaveBandwidthStats(msec)
  /\ UNCHANGED <<now, start, conn, nics, flush, nicCarry, call, calls, bytes, late>>

\* no timer is more than MaxLate behind
Tick ==
  /\ now < LastTime /\ ~Overrun
  /\ now < due.window + MaxLate /\ now < due.save + MaxLate
  /\ now' = now + 1
  /\ UNCHANGED <<start, due, conn, nics, flush, nicCarry, msec, call, calls, bytes, late>>

Next ==
  \/ \E c \in Connection : AddConnection(c) \/ DeleteConnection(c) \/ NotifyBegin(c)
  \/ NotifyBook
  \/ FlushTelemetry \/ CloseOut
  \/ ProcessWindow \/ SaveWindow
  \/ Tick

Spec == Init /\ [][Next]_vars

-----------------------------------------------------------------------------
Bytes == 0 .. MaxCalls * Size

\* The variables keep their ranges: no bucket gets more than was booked.
TypeOK ==
  /\ now \in FirstTime .. LastTime /\ start \in 0 .. now
  /\ due.window \in Nat /\ due.save \in Nat
  /\ Open \subseteq Connection /\ nics \subseteq Nic
  /\ \A c \in Open :
       /\ conn[c].gen \in 0 .. 1
       /\ \A state \in 0 .. 1, d \in Dir :
            /\ conn[c].buffer[state].start \in 0 .. now
            /\ conn[c].buffer[state].bw[d] \in [Index -> Bytes]
  /\ flush \in {"none", "window", "close"}
  /\ nicCarry \in Bytes
  /\ calls \in 0 .. MaxCalls /\ call.conn \subseteq Open
  /\ \A d \in Dir : /\ \A c \in Connection : {booked[c][d], aggregated[c][d]} \subseteq Bytes
                    /\ {submitted[d], msec.saved[d]} \subseteq Bytes
  /\ late \subseteq Connection

Buffered(c, d) ==
  Sum(conn[c].buffer[0].bw[d], Index) + Sum(conn[c].buffer[1].bw[d], Index)

Conserved(c, d) == booked[c][d] = Buffered(c, d) + aggregated[c][d]

\* The bytes booked as sent on an open connection are in its buffers or have
\* been added up, each once: however windows are delayed or brought forward by
\* a flush, the bucket a call books in is neither skipped as unused nor carried
\* over and counted too, unless the call waited beyond the carry-over.
SendBytesConserved == \A c \in Open \ late : Conserved(c, "Send")

\* What was added up for the NICs went to their histograms, or is carried over
\* to the next window because a bucket was full.
NicBytesConserved ==
  Sum([c \in Connection |-> aggregated[c]["Send"] + aggregated[c]["Recv"]], Connection)
    = submitted["Send"] + submitted["Recv"] + nicCarry

\* No byte is in the file of milliseconds twice, or both there and in the
\* buffer that is still to be saved.
MsecNeverInvents ==
  ~Overrun => \A d \in Dir :
    msec.saved[d] + (IF msec.open THEN BytesIn(msec, d, Position) ELSE 0) <= submitted[d]

\* millisecond_bw_file_format.proto: "the number of bytes received/transmitted
\* in a given millisecond" - bytes received are added up as those sent are.
RecvBytesConserved == \A c \in Open \ late : Conserved(c, "Recv")

BatchAt(ms, nic, d, batch) ==
  [i \in 0 .. BatchSamples - 1 |-> ms.cells[nic][d][batch * BatchSamples + i]]

\* millisecond_bandwidth_output.cc: "do not include the current batch which
\* should be incomplete" - the batch the last window ended in, which the next
\* one completes, is the first batch after the saving.
IncompleteBatchMovesToFront ==
  [][SaveWindow => \A nic \in Nic, d \in Dir :
       BatchAt(msec', nic, d, 0) = BatchAt(msec, nic, d, msec.next)]_vars
=============================================================================
