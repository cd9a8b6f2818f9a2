-------------------------- MODULE ConnStatsProofs --------------------------
(***************************************************************************)
(* Proofs about ConnStats, for any number of threads, calls, measurements  *)
(* and windows and any even generation modulus.                            *)
(***************************************************************************)
EXTENDS ConnStats, TLAPS

\* A generation stays in range, and its parity flips, also when it wraps to
\* zero: the modulus is even.
LEMMA NextGenerationFlips ==
  ASSUME NEW g \in 0 .. GenModulus - 1
  PROVE  /\ NextGeneration(g) \in 0 .. GenModulus - 1
         /\ NextGeneration(g) % 2 = 1 - (g % 2)
BY BoundsAssumption DEF NextGeneration

\* The sample a writer is about to submit is of a type a call may submit.
LEMMA SampleTypeIsNotifyType ==
  ASSUME NEW q \in InNotify, SampleType(q) # InvalidType
  PROVE  SampleType(q) \in NotifyType
BY DEF SampleType, SizeType, LatencyType, NotifyType, InvalidType

\* The measurements of a call in progress are within the bound.
LEMMA MetricLength ==
  ASSUME NEW m \in Metric
  PROVE  Len(m.latencies) \in 0 .. MaxMeasurements
<1>1. m.latencies \in Seq({"Software", "NetHW", "RecvReady", "Bad"})
  BY CollectedAssumption
<1>2. Len(m.latencies) \in Nat
  BY <1>1
<1> QED
  BY <1>2, CollectedAssumption, BoundsAssumption

USE DEF Slot

\* A generation selects one of the two copies.
LEMMA GenerationSelectsSlot ==
  ASSUME NEW g \in 0 .. GenModulus - 1
  PROVE  g % 2 \in Slot
BY BoundsAssumption

-----------------------------------------------------------------------------
LEMMA InitTypeOK == Init => TypeOK
BY BoundsAssumption, ThreadAssumption DEF Init, TypeOK, Idle, Resting, Direction, InRead

LEMMA NotifyTypeOK ==
  ASSUME TypeOK, NEW w \in Writer, Notify(w)
  PROVE  TypeOK'
<1>1. ASSUME NEW c \in Call, NEW m \in Metric, NotifyBegin(w, c, m)
      PROVE  TypeOK'
  <2>1. WriteSlot \in Slot /\ BwWriteSlot \in Slot
    BY BoundsAssumption DEF TypeOK, WriteSlot, BwWriteSlot
  <2>2. [step |-> "notify", call |-> c, metric |-> m, pos |-> 0,
         slot |-> WriteSlot, bwSlot |-> BwWriteSlot] \in InNotify
    BY <2>1, BoundsAssumption DEF InNotify
  <2>3. writing' \in [Writer -> {Idle} \cup InNotify] /\ mtx' \in Writer \cup {NoThread}
    BY <1>1, <2>2 DEF NotifyBegin, TypeOK
  <2> QED
    BY <1>1, <2>3 DEF NotifyBegin, TypeOK, bwVars, reportVars
<1>2. ASSUME NotifySubmit(w)
      PROVE  TypeOK'
  <2> DEFINE q == writing[w]
  <2>1. q \in InNotify /\ MoreToSubmit(q)
    BY <1>2 DEF NotifySubmit, TypeOK, Idle
  <2>2. SampleType(q) \in NotifyType
    BY <2>1, SampleTypeIsNotifyType DEF MoreToSubmit
  <2>3. Len(q.metric.latencies) \in 0 .. MaxMeasurements
    BY <2>1, MetricLength DEF InNotify
  <2>4. q.pos \in 0 .. MaxMeasurements
    BY <2>1, <2>3, BoundsAssumption DEF InNotify, MoreToSubmit
  <2>5. <<q.call, q.pos, SampleType(q)>> \in Sample
    BY <2>1, <2>2, <2>4 DEF InNotify, Sample
  <2>6. dist' \in [Slot -> SUBSET Sample]
    BY <1>2, <2>1, <2>5 DEF NotifySubmit, TypeOK, InNotify
  <2>7. [q EXCEPT !.pos = @ + 1] \in InNotify
    BY <2>1, <2>4, BoundsAssumption DEF InNotify
  <2>8. writing' \in [Writer -> {Idle} \cup InNotify]
    BY <1>2, <2>7 DEF NotifySubmit, TypeOK
  <2>9. bwLoad' \in [Slot -> [Direction -> SUBSET Call]]
    <3>1. CASE UNCHANGED bwLoad
      BY <3>1 DEF TypeOK
    <3>2. CASE bwLoad' = [bwLoad EXCEPT ![q.bwSlot] =
                 [d \in Direction |-> IF d \in BwDirection(SampleType(q))
                                      THEN @[d] \cup {q.call} ELSE @[d]]]
      <4>1. q.bwSlot \in Slot /\ q.call \in Call
        BY <2>1 DEF InNotify
      <4>2. \A d \in Direction : bwLoad[q.bwSlot][d] \in SUBSET Call
        BY <4>1 DEF TypeOK
      <4>3. [d \in Direction |-> IF d \in BwDirection(SampleType(q))
                                 THEN bwLoad[q.bwSlot][d] \cup {q.call}
                                 ELSE bwLoad[q.bwSlot][d]]
              \in [Direction -> SUBSET Call]
        BY <4>1, <4>2
      <4> QED
        BY <3>2, <4>1, <4>3 DEF TypeOK
    <3> QED
      BY <1>2, <3>1, <3>2 DEF NotifySubmit, UpdateBw
  <2> QED
    BY <1>2, <2>6, <2>8, <2>9 DEF NotifySubmit, TypeOK, reportVars
<1>3. ASSUME NotifyReturn(w)
      PROVE  TypeOK'
  BY <1>3 DEF NotifyReturn, TypeOK, bwVars, reportVars
<1> QED
  BY <1>1, <1>2, <1>3 DEF Notify

\* A reader that has dealt with one more histogram or direction.
LEMMA FewerToDo ==
  ASSUME NEW q \in InRead, NEW t
  PROVE  [q EXCEPT !.todo = q.todo \ {t}] \in InRead
BY DEF InRead

LEMMA OfTypeSubset ==
  ASSUME NEW S \in SUBSET Sample, NEW t
  PROVE  OfType(S, t) \in SUBSET Sample
BY DEF OfType

LEMMA ReadIntervalTypeOK ==
  ASSUME TypeOK, NEW r \in Reader, ReadInterval(r)
  PROVE  TypeOK'
<1>1. CASE ReadTelemetry(r)
  BY <1>1 DEF ReadTelemetry, TypeOK, InRead, bwVars, writerVars, reportVars
<1>2. CASE SwapGeneration(r)
  <2>1. NextGeneration(generation) \in 0 .. GenModulus - 1
    BY NextGenerationFlips DEF TypeOK, InRead
  <2>2. WriteSlot \in Slot
    BY BoundsAssumption DEF TypeOK, InRead, WriteSlot
  <2>3. Collected \in SUBSET (DistType \cup Direction)
    BY CollectedAssumption
  <2> QED
    BY <1>2, <2>1, <2>2, <2>3
    DEF SwapGeneration, TypeOK, InRead, bwVars, writerVars, reportVars
<1>3. ASSUME NEW t \in DistType, CopyHistogram(r, t)
      PROVE  TypeOK'
  <2>1. OfType(dist[reading[r].slot], t) \in SUBSET Sample
    BY OfTypeSubset DEF TypeOK, InRead
  <2>2. Collected \in SUBSET (DistType \cup Direction)
    BY CollectedAssumption
  <2>3. reading' \in [Reader -> InRead]
    <3>1. reading[r] \in InRead
      BY DEF TypeOK
    <3>2. [reading[r] EXCEPT !.step = "reset", !.todo = Collected] \in InRead
      BY <3>1, <2>2 DEF InRead
    <3>3. [reading[r] EXCEPT !.todo = reading[r].todo \ {t}] \in InRead
      BY <3>1, FewerToDo
    <3> QED
      BY <1>3, <3>2, <3>3 DEF CopyHistogram, TypeOK
  <2> QED
    BY <1>3, <2>1, <2>3 DEF CopyHistogram, TypeOK, bwVars, writerVars
<1>4. ASSUME NEW t \in DistType, ResetHistogram(r, t)
      PROVE  TypeOK'
  <2>1. dist' \in [Slot -> SUBSET Sample]
    BY <1>4 DEF ResetHistogram, TypeOK
  <2>2. reading' \in [Reader -> InRead]
    BY <1>4 DEF ResetHistogram, TypeOK, Resting, InRead
  <2>3. /\ connectionsMtx' \in Reader \cup {NoThread}
        /\ batch' \in SUBSET Sample
        /\ reported' \in SUBSET Sample
    BY <1>4 DEF ResetHistogram, TypeOK, reportVars
  <2> QED
    BY <1>4, <2>1, <2>2, <2>3 DEF ResetHistogram, TypeOK, bwVars, writerVars
<1> QED
  BY <1>1, <1>2, <1>3, <1>4 DEF ReadInterval

\* What a window contributes is a sample of a window type.
LEMMA WindowSampleType ==
  ASSUME TypeOK, windows # 0, NEW t \in WindowType
  PROVE  WindowSample(t) \in Sample
<1>1. windows \in 1 .. MaxWindows
  BY BoundsAssumption DEF TypeOK
<1> QED
  BY <1>1 DEF WindowSample, Sample

\* A window that has begun has a number.
WindowCounted ==
  \A r \in Reader :
    reading[r].step \in {"window", "aggregate", "variance"} => windows # 0

LEMMA WindowTypeOK ==
  ASSUME TypeOK, WindowCounted, NEW r \in Reader, Window(r)
  PROVE  TypeOK'
<1>1. CASE ProcessWindow(r)
  BY <1>1, BoundsAssumption DEF ProcessWindow, TypeOK, InRead, bwVars, writerVars, reportVars
<1>2. CASE SwapBwGeneration(r)
  <2> DEFINE old == generationBwForRead % 2
             new == NextGeneration(generationBw) % 2
  <2>2. NextGeneration(generationBw) \in 0 .. GenModulus - 1
    BY NextGenerationFlips DEF TypeOK
  <2>1. old \in Slot /\ new \in Slot
    BY <2>2, GenerationSelectsSlot DEF TypeOK
  <2>3. PICK late \in [Direction -> SUBSET Call] :
          bwLoad' = [bwLoad EXCEPT ![new] = [d \in Direction |-> @[d] \cup late[d]]]
    BY <1>2 DEF SwapBwGeneration
  <2>4. [d \in Direction |-> bwLoad[new][d] \cup late[d]] \in [Direction -> SUBSET Call]
    BY <2>1, <2>3 DEF TypeOK
  <2>5. bwLoad' \in [Slot -> [Direction -> SUBSET Call]]
    BY <2>1, <2>3, <2>4 DEF TypeOK
  <2>6. bwStarted' \in [Slot -> BOOLEAN]
    BY <1>2, <2>1 DEF SwapBwGeneration, TypeOK
  <2> HIDE DEF new
  <2>7. reading' = [reading EXCEPT ![r] =
                     [step |-> "aggregate", slot |-> new, todo |-> Direction]]
    BY <1>2 DEF SwapBwGeneration, new
  <2> QED
    BY <1>2, <2>1, <2>2, <2>5, <2>6, <2>7
    DEF SwapBwGeneration, TypeOK, InRead, writerVars, reportVars
<1>3. ASSUME NEW d \in Direction, AggregateBw(r, d)
      PROVE  TypeOK'
  <2>1. windows # 0
    BY <1>3 DEF AggregateBw, WindowCounted
  <2>2. BandwidthType(d) \in WindowType
    BY DEF BandwidthType, WindowType
  <2>3. WindowSample(BandwidthType(d)) \in Sample
    BY <2>1, <2>2, WindowSampleType
  <2>4. dist' \in [Slot -> SUBSET Sample]
    <3>1. PICK S \in SUBSET {WindowSample(BandwidthType(d))} :
            dist' = [dist EXCEPT ![WriteSlot] = @ \cup S]
      BY <1>3 DEF AggregateBw
    <3>2. S \subseteq Sample
      BY <2>3
    <3> QED
      BY <3>1, <3>2 DEF TypeOK
  <2>5. bwLoad' \in [Slot -> [Direction -> SUBSET Call]]
    BY <1>3 DEF AggregateBw, TypeOK
  <2>6. reading' \in [Reader -> InRead]
    <3>1. reading[r] \in InRead
      BY DEF TypeOK
    <3>2. [reading[r] EXCEPT !.step = "variance", !.todo = {}] \in InRead
      BY <3>1 DEF InRead
    <3>3. [reading[r] EXCEPT !.todo = reading[r].todo \ {d}] \in InRead
      BY <3>1, FewerToDo
    <3> QED
      BY <1>3, <3>2, <3>3 DEF AggregateBw, TypeOK
  <2>7. UNCHANGED <<mtx, connectionsMtx, generation, generationForRead,
                    generationBw, generationBwForRead, bwStarted, used, writing,
                    windows, batch, reported>>
    BY <1>3 DEF AggregateBw, writerVars, reportVars
  <2> QED
    BY <2>4, <2>5, <2>6, <2>7 DEF TypeOK
<1>4. CASE AggregateVariance(r)
  <2>1. windows # 0
    BY <1>4 DEF AggregateVariance, WindowCounted
  <2>2. WindowSample("LatencyVariance") \in Sample
    BY <2>1, WindowSampleType DEF WindowType
  <2>3. dist' \in [Slot -> SUBSET Sample]
    BY <1>4, <2>2 DEF AggregateVariance, TypeOK
  <2> QED
    BY <1>4, <2>3 DEF AggregateVariance, TypeOK, bwVars, writerVars, reportVars, Resting, InRead
<1> QED
  BY <1>1, <1>2, <1>3, <1>4 DEF Window

LEMMA WindowCountedStep ==
  ASSUME TypeOK, WindowCounted, Next
  PROVE  WindowCounted'
<1>1. ASSUME NEW w \in Writer, Notify(w)
      PROVE  WindowCounted'
  BY <1>1 DEF Notify, NotifyBegin, NotifySubmit, NotifyReturn, WindowCounted
<1>2. ASSUME NEW r \in Reader, ReadInterval(r)
      PROVE  WindowCounted'
  <2>1. CASE ReadTelemetry(r)
    BY <2>1 DEF ReadTelemetry, WindowCounted, TypeOK
  <2>2. CASE SwapGeneration(r)
    BY <2>2 DEF SwapGeneration, WindowCounted, TypeOK, InRead
  <2>3. ASSUME NEW t \in DistType, CopyHistogram(r, t)
        PROVE  WindowCounted'
    BY <2>3 DEF CopyHistogram, WindowCounted, TypeOK, InRead
  <2>4. ASSUME NEW t \in DistType, ResetHistogram(r, t)
        PROVE  WindowCounted'
    BY <2>4 DEF ResetHistogram, WindowCounted, TypeOK, Resting, InRead
  <2> QED
    BY <1>2, <2>1, <2>2, <2>3, <2>4 DEF ReadInterval
<1>3. ASSUME NEW r \in Reader, Window(r)
      PROVE  WindowCounted'
  <2>1. CASE ProcessWindow(r)
    BY <2>1, BoundsAssumption DEF ProcessWindow, WindowCounted, TypeOK
  <2>2. CASE SwapBwGeneration(r)
    BY <2>2 DEF SwapBwGeneration, WindowCounted, TypeOK
  <2>3. ASSUME NEW d \in Direction, AggregateBw(r, d)
        PROVE  WindowCounted'
    BY <2>3 DEF AggregateBw, WindowCounted, TypeOK
  <2>4. CASE AggregateVariance(r)
    BY <2>4 DEF AggregateVariance, WindowCounted, TypeOK, Resting, InRead
  <2> QED
    BY <1>3, <2>1, <2>2, <2>3, <2>4 DEF Window
<1> QED
  BY <1>1, <1>2, <1>3 DEF Next

\* Every reachable state is well typed.
THEOREM TypeCorrect == Spec => [](TypeOK /\ WindowCounted)
<1>1. Init => TypeOK /\ WindowCounted
  BY InitTypeOK DEF Init, WindowCounted, Resting
<1>2. TypeOK /\ WindowCounted /\ [Next]_vars => TypeOK' /\ WindowCounted'
  <2> SUFFICES ASSUME TypeOK, WindowCounted, [Next]_vars
               PROVE  TypeOK' /\ WindowCounted'
    OBVIOUS
  <2>1. CASE UNCHANGED vars
    BY <2>1 DEF vars, bwVars, writerVars, reportVars, TypeOK, WindowCounted
  <2>2. CASE Next
    BY <2>2, NotifyTypeOK, ReadIntervalTypeOK, WindowTypeOK, WindowCountedStep DEF Next
  <2> QED
    BY <2>1, <2>2
<1> QED
  BY <1>1, <1>2, PTL DEF Spec

-----------------------------------------------------------------------------
(***************************************************************************)
(* Who holds which lock, and what that says about the indices: a writer's  *)
(* index stays the current one for as long as it holds mtx_, a reader's is *)
(* the other one for as long as it holds connections_mtx_.                 *)
(***************************************************************************)
LockInv ==
  /\ generation = generationForRead
  /\ generationBw = generationBwForRead
  /\ \A w \in Writer : writing[w].step = "notify" =>
       /\ mtx = w
       /\ writing[w].slot = WriteSlot
       /\ writing[w].bwSlot = BwWriteSlot
  /\ \A r \in Reader : reading[r].step # "rest" => connectionsMtx = r
  /\ \A r \in Reader :
       reading[r].step \in {"copy", "reset"} => reading[r].slot = 1 - WriteSlot

LEMMA NotifyLockInv ==
  ASSUME TypeOK, LockInv, NEW w \in Writer, Notify(w)
  PROVE  LockInv'
<1> USE DEF WriteSlot, BwWriteSlot
<1>1. ASSUME NEW c \in Call, NEW m \in Metric, NotifyBegin(w, c, m)
      PROVE  LockInv'
  <2>1. \A x \in Writer : writing[x].step # "notify"
    BY <1>1, ThreadAssumption DEF NotifyBegin, MtxFree, LockInv
  <2> QED
    BY <1>1, <2>1 DEF NotifyBegin, LockInv, TypeOK, bwVars
<1>2. CASE NotifySubmit(w)
  <2>1. writing[w] \in InNotify
    BY <1>2 DEF NotifySubmit, TypeOK, Idle
  <2>2. /\ [writing[w] EXCEPT !.pos = @ + 1].step = writing[w].step
        /\ [writing[w] EXCEPT !.pos = @ + 1].slot = writing[w].slot
        /\ [writing[w] EXCEPT !.pos = @ + 1].bwSlot = writing[w].bwSlot
    BY <2>1 DEF InNotify
  <2> QED
    BY <1>2, <2>2 DEF NotifySubmit, LockInv, TypeOK
<1>3. CASE NotifyReturn(w)
  BY <1>3, ThreadAssumption DEF NotifyReturn, LockInv, TypeOK, bwVars, Idle
<1> QED
  BY <1>1, <1>2, <1>3 DEF Notify

LEMMA ReadIntervalLockInv ==
  ASSUME TypeOK, LockInv, NEW r \in Reader, ReadInterval(r)
  PROVE  LockInv'
<1> USE DEF WriteSlot, BwWriteSlot, InRead
<1>1. CASE ReadTelemetry(r)
  BY <1>1, ThreadAssumption DEF ReadTelemetry, LockInv, TypeOK, bwVars, writerVars
<1>2. CASE SwapGeneration(r)
  <2>1. \A w \in Writer : writing[w].step # "notify"
    BY <1>2, ThreadAssumption DEF SwapGeneration, MtxFree, LockInv
  <2>2. WriteSlot' = 1 - WriteSlot
    <3>1. generationForRead' = NextGeneration(generationForRead)
      BY <1>2 DEF SwapGeneration, LockInv
    <3>2. generationForRead \in 0 .. GenModulus - 1
      BY DEF TypeOK
    <3> QED
      BY <3>1, <3>2, NextGenerationFlips
  <2>3. WriteSlot \in Slot
    BY GenerationSelectsSlot DEF TypeOK
  <2>4. \A x \in Reader : reading[x].step # "rest" => x = r
    BY <1>2 DEF SwapGeneration, LockInv
  <2>5. /\ reading' = [reading EXCEPT ![r] =
                       [step |-> "copy", slot |-> WriteSlot, todo |-> Collected]]
        /\ generation' = generationForRead'
        /\ UNCHANGED <<generationBw, generationBwForRead, writing, connectionsMtx>>
        /\ reading[r].step = "swap"
    BY <1>2 DEF SwapGeneration, bwVars, writerVars
  <2> HIDE DEF WriteSlot, BwWriteSlot
  <2>6. \A x \in Reader :
          reading'[x].step \in {"copy", "reset"} => reading'[x].slot = 1 - WriteSlot'
    <3>1. 1 - WriteSlot' = WriteSlot
      BY <2>2, <2>3
    <3>2. \A x \in Reader \ {r} : reading'[x].step = "rest"
      BY <2>4, <2>5 DEF TypeOK
    <3>3. reading'[r].slot = WriteSlot
      BY <2>5 DEF TypeOK
    <3> QED
      BY <3>1, <3>2, <3>3
  <2>7. \A x \in Reader : reading'[x].step # "rest" => connectionsMtx' = x
    BY <2>4, <2>5 DEF TypeOK, LockInv
  <2> QED
    BY <2>1, <2>5, <2>6, <2>7 DEF LockInv
<1>3. ASSUME NEW t \in DistType, CopyHistogram(r, t)
      PROVE  LockInv'
  <2>1. reading[r] \in InRead
    BY DEF TypeOK
  <2>2. reading'[r].slot = reading[r].slot /\ reading'[r].step \in {"copy", "reset"}
    BY <1>3, <2>1 DEF CopyHistogram, TypeOK
  <2>3. \A x \in Reader \ {r} : reading'[x] = reading[x]
    BY <1>3 DEF CopyHistogram, TypeOK
  <2>4. UNCHANGED <<mtx, connectionsMtx, generation, generationForRead,
                    generationBw, generationBwForRead, writing>>
    BY <1>3 DEF CopyHistogram, bwVars, writerVars
  <2> QED
    BY <1>3, <2>2, <2>3, <2>4 DEF CopyHistogram, LockInv
<1>4. ASSUME NEW t \in DistType, ResetHistogram(r, t)
      PROVE  LockInv'
  <2>1. UNCHANGED <<mtx, generation, generationForRead, generationBw,
                    generationBwForRead, writing>>
    BY <1>4 DEF ResetHistogram, bwVars, writerVars
  <2>2. CASE reading' = [reading EXCEPT ![r] = Resting] /\ connectionsMtx' = NoThread
    <3>1. \A x \in Reader : reading'[x].step = "rest"
      BY <1>4, <2>2 DEF ResetHistogram, LockInv, TypeOK, Resting
    <3> QED
      BY <2>1, <3>1 DEF LockInv
  <2>3. CASE /\ reading' = [reading EXCEPT ![r].todo = @ \ {t}]
             /\ UNCHANGED connectionsMtx
    <3>1. \A x \in Reader : /\ reading'[x].slot = reading[x].slot
                            /\ reading'[x].step = reading[x].step
      BY <2>3 DEF TypeOK
    <3> QED
      BY <2>1, <2>3, <3>1 DEF LockInv
  <2> QED
    BY <1>4, <2>2, <2>3 DEF ResetHistogram
<1> QED
  BY <1>1, <1>2, <1>3, <1>4 DEF ReadInterval

LEMMA WindowLockInv ==
  ASSUME TypeOK, LockInv, NEW r \in Reader, Window(r)
  PROVE  LockInv'
<1> USE DEF WriteSlot, BwWriteSlot, InRead
<1>1. CASE ProcessWindow(r)
  BY <1>1, ThreadAssumption DEF ProcessWindow, LockInv, TypeOK, bwVars, writerVars
<1>2. CASE SwapBwGeneration(r)
  <2>1. \A w \in Writer : writing[w].step # "notify"
    BY <1>2, ThreadAssumption DEF SwapBwGeneration, MtxFree, LockInv
  <2> DEFINE new == NextGeneration(generationBw) % 2
  <2>2. /\ reading' = [reading EXCEPT ![r] =
                        [step |-> "aggregate", slot |-> new, todo |-> Direction]]
        /\ generationBw' = generationBwForRead'
        /\ UNCHANGED <<mtx, connectionsMtx, generation, generationForRead, writing>>
        /\ reading[r].step = "window"
    BY <1>2 DEF SwapBwGeneration, writerVars
  <2> HIDE DEF new
  <2> QED
    BY <2>1, <2>2 DEF LockInv, TypeOK
<1>3. ASSUME NEW d \in Direction, AggregateBw(r, d)
      PROVE  LockInv'
  <2>1. reading'[r].step \notin {"copy", "reset"}
    BY <1>3 DEF AggregateBw, TypeOK
  <2>2. \A x \in Reader \ {r} : reading'[x] = reading[x]
    BY <1>3 DEF AggregateBw, TypeOK
  <2>3. UNCHANGED <<mtx, connectionsMtx, generation, generationForRead,
                    generationBw, generationBwForRead, writing>>
    BY <1>3 DEF AggregateBw, writerVars
  <2> QED
    BY <1>3, <2>1, <2>2, <2>3 DEF AggregateBw, LockInv
<1>4. CASE AggregateVariance(r)
  <2>1. \A x \in Reader : reading'[x].step = "rest"
    BY <1>4 DEF AggregateVariance, LockInv, TypeOK, Resting
  <2> QED
    BY <1>4, <2>1 DEF AggregateVariance, LockInv, bwVars, writerVars
<1> QED
  BY <1>1, <1>2, <1>3, <1>4 DEF Window

\* The lock invariant keeps the threads apart.
LEMMA LockInvRaceFree ==
  ASSUME TypeOK, LockInv
  PROVE  RaceFree
<1>1. NotifyType \cap WindowType = {} /\ "bw" \notin DistType
  BY DEF NotifyType, WindowType, DistType
<1>2. BwReadSlot # BwWriteSlot
  BY BoundsAssumption DEF LockInv, TypeOK, BwReadSlot, BwWriteSlot
<1>3. WriteSlot # 1 - WriteSlot
  BY GenerationSelectsSlot DEF WriteSlot, TypeOK
<1>4. ASSUME NEW w \in Writer, NEW r \in Reader
      PROVE  WriterTouches(w) \cap ReaderTouches(r) = {}
  <2>1. CASE writing[w].step = "idle"
    BY <2>1 DEF WriterTouches
  <2>2. CASE writing[w].step = "notify"
    <3>1. WriterTouches(w) \subseteq ({WriteSlot} \X NotifyType) \cup {<<BwWriteSlot, "bw">>}
      BY <2>2 DEF WriterTouches, LockInv
    <3>2. CASE reading[r].step \in {"copy", "reset"}
      <4>1. ReaderTouches(r) = {1 - WriteSlot} \X DistType
        BY <3>2 DEF ReaderTouches, LockInv
      <4> QED
        BY <1>1, <1>3, <3>1, <4>1
    <3>3. CASE reading[r].step \in {"aggregate", "variance"}
      <4>1. ReaderTouches(r) = ({WriteSlot} \X WindowType) \cup {<<BwReadSlot, "bw">>}
        BY <3>3 DEF ReaderTouches
      <4>2. "bw" \notin WindowType /\ "bw" \notin NotifyType
        BY <1>1 DEF DistType
      <4> QED
        BY <1>1, <1>2, <3>1, <4>1, <4>2
    <3>4. CASE reading[r].step \notin {"copy", "reset", "aggregate", "variance"}
      BY <3>4 DEF ReaderTouches
    <3> QED
      BY <3>2, <3>3, <3>4
  <2> QED
    BY <2>1, <2>2 DEF TypeOK, Idle, InNotify
<1>5. ASSUME NEW r1 \in Reader, NEW r2 \in Reader, r1 # r2
      PROVE  ReaderTouches(r1) \cap ReaderTouches(r2) = {}
  <2>1. reading[r1].step = "rest" \/ reading[r2].step = "rest"
    BY <1>5 DEF LockInv
  <2> QED
    BY <2>1 DEF ReaderTouches
<1> QED
  BY <1>4, <1>5 DEF RaceFree

\* The inductive invariant behind the theorems on ConnStats.
SafeInv == TypeOK /\ WindowCounted /\ LockInv

LEMMA SafeInvStep == SafeInv /\ [Next]_vars => SafeInv'
<1> SUFFICES ASSUME SafeInv, [Next]_vars
             PROVE  SafeInv'
  OBVIOUS
<1> USE DEF SafeInv
<1>1. CASE UNCHANGED vars
  BY <1>1 DEF vars, bwVars, writerVars, reportVars, TypeOK, WindowCounted, LockInv,
              WriteSlot, BwWriteSlot
<1>2. ASSUME NEW w \in Writer, Notify(w)
      PROVE  SafeInv'
  BY <1>2, NotifyTypeOK, NotifyLockInv, WindowCountedStep DEF Next
<1>3. ASSUME NEW r \in Reader, ReadInterval(r)
      PROVE  SafeInv'
  BY <1>3, ReadIntervalTypeOK, ReadIntervalLockInv, WindowCountedStep DEF Next
<1>4. ASSUME NEW r \in Reader, Window(r)
      PROVE  SafeInv'
  BY <1>4, WindowTypeOK, WindowLockInv, WindowCountedStep DEF Next
<1> QED
  BY <1>1, <1>2, <1>3, <1>4 DEF Next

LEMMA SafeInvHolds == Spec => []SafeInv
<1>1. Init => SafeInv
  BY InitTypeOK DEF Init, SafeInv, WindowCounted, LockInv, Idle, Resting
<1> QED
  BY <1>1, SafeInvStep, PTL DEF Spec

\* A writer under mtx_ and the reporting path without it never touch the same
\* element of the histograms or of the bandwidth buffers.
THEOREM NoDataRace == Spec => []RaceFree
<1>1. SafeInv => RaceFree
  BY LockInvRaceFree DEF SafeInv
<1> QED
  BY <1>1, SafeInvHolds, PTL
=============================================================================
