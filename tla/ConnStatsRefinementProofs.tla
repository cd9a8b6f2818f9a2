---------------------- MODULE ConnStatsRefinementProofs ----------------------
(***************************************************************************)
(* ConnStats implements IntervalReports, for any number of threads, calls, *)
(* measurements and windows and any even generation modulus: no sample is  *)
(* lost, reported twice or moved to another interval.                      *)
(***************************************************************************)
EXTENDS ConnStatsProofs

AllSamples == OpenSamples \cup ClosedSamples \cup reported

-----------------------------------------------------------------------------
(***************************************************************************)
(* The invariant, beside SafeInv.                                          *)
(***************************************************************************)

\* A call in progress has submitted the positions before its own, to the
\* interval that is open; a call that was not made has submitted none.
CallInv ==
  /\ \A s \in AllSamples : TypeOf(s) \in NotifyType => Source(s) \in used
  /\ \A w \in Writer : writing[w].step = "notify" =>
       /\ writing[w].call \in used
       /\ \A s \in AllSamples :
            TypeOf(s) \in NotifyType /\ Source(s) = writing[w].call =>
              s \notin ClosedSamples \cup reported /\ s[2] < writing[w].pos

\* A window in progress has not submitted what it has still to aggregate.
WindowInv ==
  /\ \A s \in AllSamples : TypeOf(s) \in WindowType => Source(s) <= windows
  /\ \A r \in Reader :
       /\ reading[r].step \in {"window", "aggregate", "variance"} =>
            BwEnabled /\ WindowSample("LatencyVariance") \notin AllSamples
       /\ reading[r].step = "window" =>
            \A d \in Direction : WindowSample(BandwidthType(d)) \notin AllSamples
       /\ reading[r].step = "aggregate" =>
            \A d \in reading[r].todo \cap Direction :
              WindowSample(BandwidthType(d)) \notin AllSamples

\* Every histogram with a sample is copied before it is reset, and reset before
\* the next interval is cut.
CutInv ==
  /\ \A i \in Slot : \A s \in dist[i] : TypeOf(s) \in Collected
  /\ (\A r \in Reader : reading[r].step \notin {"copy", "reset"}) => ClosedSamples = {}
  /\ \A r \in Reader :
       /\ reading[r].step = "copy" =>
            \A s \in dist[1 - WriteSlot] : TypeOf(s) \in reading[r].todo \/ s \in batch
       /\ reading[r].step = "reset" =>
            \A s \in dist[1 - WriteSlot] : TypeOf(s) \in reading[r].todo /\ s \in batch

KeepInv == SafeInv /\ CallInv /\ WindowInv /\ CutInv

AbstractStep == [Reports!Next]_(Reports!vars)

-----------------------------------------------------------------------------
(***************************************************************************)
(* What a step does to the two intervals.                                  *)
(***************************************************************************)

LEMMA Slots ==
  ASSUME TypeOK
  PROVE  /\ WriteSlot \in Slot /\ 1 - WriteSlot \in Slot /\ WriteSlot # 1 - WriteSlot
         /\ dist \in [Slot -> SUBSET Sample]
         /\ AllSamples \subseteq Sample
<1>1. WriteSlot \in Slot
  BY GenerationSelectsSlot DEF TypeOK, WriteSlot
<1>2. 1 - WriteSlot \in Slot /\ WriteSlot # 1 - WriteSlot
  BY <1>1 DEF Slot
<1> QED
  BY <1>1, <1>2 DEF TypeOK, AllSamples, OpenSamples, ClosedSamples

LEMMA Unmoved ==
  ASSUME UNCHANGED <<dist, generationForRead, batch, reported>>
  PROVE  /\ OpenSamples' = OpenSamples /\ ClosedSamples' = ClosedSamples
         /\ AllSamples' = AllSamples /\ WriteSlot' = WriteSlot
BY DEF OpenSamples, ClosedSamples, AllSamples, WriteSlot

\* A submission goes to the open interval only.
LEMMA Written ==
  ASSUME TypeOK, NEW S, dist' = [dist EXCEPT ![WriteSlot] = @ \cup S],
         UNCHANGED <<generationForRead, batch, reported>>
  PROVE  /\ OpenSamples' = OpenSamples \cup S /\ ClosedSamples' = ClosedSamples
         /\ AllSamples' = AllSamples \cup S /\ WriteSlot' = WriteSlot
         /\ dist'[1 - WriteSlot] = dist[1 - WriteSlot]
<1>1. WriteSlot' = WriteSlot
  BY DEF WriteSlot
<1>2. dist'[WriteSlot] = dist[WriteSlot] \cup S /\ dist'[1 - WriteSlot] = dist[1 - WriteSlot]
  BY Slots
<1> QED
  BY <1>1, <1>2 DEF OpenSamples, ClosedSamples, AllSamples

\* Notify and window types do not meet.
LEMMA TypesApart ==
  /\ NotifyType \cap WindowType = {}
  /\ \A d \in Direction : BandwidthType(d) \in WindowType \ {"LatencyVariance"}
  /\ "LatencyVariance" \in WindowType
  /\ \A d, e \in Direction : BandwidthType(d) = BandwidthType(e) => d = e
BY DEF NotifyType, WindowType, Direction, BandwidthType

\* The parts of the invariant that a step does not touch.
LEMMA CallInvKept ==
  ASSUME CallInv, AllSamples' = AllSamples,
         (ClosedSamples \cup reported)' \subseteq ClosedSamples \cup reported,
         UNCHANGED <<used, writing>>
  PROVE  CallInv'
BY DEF CallInv

LEMMA WindowInvKept ==
  ASSUME WindowInv, windows' = windows,
         \A s \in AllSamples' : s \in AllSamples \/ TypeOf(s) \in NotifyType,
         \A r \in Reader : \/ reading'[r] = reading[r]
                           \/ reading'[r].step \notin {"window", "aggregate", "variance"}
  PROVE  WindowInv'
<1>1. \A t \in WindowType : WindowSample(t)' = WindowSample(t) /\ TypeOf(WindowSample(t)) = t
  BY DEF WindowSample, TypeOf
<1>2. ASSUME NEW t \in WindowType, WindowSample(t) \notin AllSamples
      PROVE  WindowSample(t)' \notin AllSamples'
  BY <1>1, <1>2, TypesApart
<1>3. \A s \in AllSamples' : TypeOf(s) \in WindowType => Source(s) <= windows'
  BY TypesApart DEF WindowInv
<1>4. ASSUME NEW r \in Reader
      PROVE  /\ reading'[r].step \in {"window", "aggregate", "variance"} =>
                  BwEnabled /\ WindowSample("LatencyVariance")' \notin AllSamples'
             /\ reading'[r].step = "window" =>
                  \A d \in Direction : WindowSample(BandwidthType(d))' \notin AllSamples'
             /\ reading'[r].step = "aggregate" =>
                  \A d \in reading'[r].todo \cap Direction :
                    WindowSample(BandwidthType(d))' \notin AllSamples'
  BY <1>2, TypesApart DEF WindowInv
<1> QED
  BY <1>3, <1>4 DEF WindowInv

LEMMA CutInvKept ==
  ASSUME CutInv, UNCHANGED <<dist, generationForRead, batch>>,
         \A r \in Reader : \/ reading'[r] = reading[r]
                           \/ {reading[r].step, reading'[r].step} \cap {"copy", "reset"} = {}
  PROVE  CutInv'
<1>1. WriteSlot' = WriteSlot /\ ClosedSamples' = ClosedSamples
  BY DEF WriteSlot, ClosedSamples
<1>2. (\A r \in Reader : reading'[r].step \notin {"copy", "reset"}) =>
        \A r \in Reader : reading[r].step \notin {"copy", "reset"}
  OBVIOUS
<1> QED
  BY <1>1, <1>2 DEF CutInv

\* Only one reader holds connections_mtx_.
LEMMA OthersRest ==
  ASSUME LockInv, NEW r \in Reader, reading[r].step # "rest"
  PROVE  \A x \in Reader \ {r} : reading[x].step = "rest"
BY DEF LockInv

-----------------------------------------------------------------------------
(***************************************************************************)
(* notifyOperationMeasurement.                                             *)
(***************************************************************************)

LEMMA NotifyBeginKeeps ==
  ASSUME KeepInv, NEW w \in Writer, NEW c \in Call, NEW m \in Metric, NotifyBegin(w, c, m)
  PROVE  CallInv' /\ WindowInv' /\ CutInv' /\ AbstractStep
<1> USE DEF NotifyBegin, bwVars, reportVars
<1>1. /\ OpenSamples' = OpenSamples /\ ClosedSamples' = ClosedSamples
      /\ AllSamples' = AllSamples /\ reported' = reported
  BY Unmoved
<1>2. AbstractStep
  BY <1>1 DEF AbstractStep, Reports!vars
<1>3. WindowInv' /\ CutInv'
  BY <1>1, WindowInvKept, CutInvKept DEF KeepInv
<1>4. \A x \in Writer : writing[x].step # "notify"
  BY ThreadAssumption DEF MtxFree, KeepInv, SafeInv, LockInv
<1>5. \A s \in AllSamples : TypeOf(s) \in NotifyType => Source(s) \in used /\ Source(s) # c
  BY DEF KeepInv, CallInv
<1>6. \A x \in Writer : writing'[x].step = "notify" => x = w /\ writing'[w].call = c
  BY <1>4 DEF KeepInv, SafeInv, TypeOK
<1> HIDE DEF NotifyBegin
<1>7. used' = used \cup {c}
  BY DEF NotifyBegin
<1>8. CallInv'
  BY <1>1, <1>5, <1>6, <1>7 DEF CallInv
<1> QED
  BY <1>2, <1>3, <1>8

LEMMA NotifyReturnKeeps ==
  ASSUME KeepInv, NEW w \in Writer, NotifyReturn(w)
  PROVE  CallInv' /\ WindowInv' /\ CutInv' /\ AbstractStep
<1> USE DEF NotifyReturn, bwVars, reportVars
<1>1. /\ OpenSamples' = OpenSamples /\ ClosedSamples' = ClosedSamples
      /\ AllSamples' = AllSamples /\ reported' = reported
  BY Unmoved
<1>2. AbstractStep
  BY <1>1 DEF AbstractStep, Reports!vars
<1>3. WindowInv' /\ CutInv'
  BY <1>1, WindowInvKept, CutInvKept DEF KeepInv
<1>4. \A x \in Writer : writing'[x] = writing[x] \/ writing'[x].step = "idle"
  BY DEF KeepInv, SafeInv, TypeOK, Idle
<1>5. used' = used
  OBVIOUS
<1> HIDE DEF NotifyReturn
<1>6. CallInv'
  BY <1>1, <1>4, <1>5 DEF KeepInv, CallInv
<1> QED
  BY <1>2, <1>3, <1>6

LEMMA NotifySubmitKeeps ==
  ASSUME KeepInv, NEW w \in Writer, NotifySubmit(w)
  PROVE  CallInv' /\ WindowInv' /\ CutInv' /\ AbstractStep
<1> DEFINE q == writing[w]
           s == <<q.call, q.pos, SampleType(q)>>
<1>1. /\ q \in InNotify /\ q.step = "notify" /\ q.slot = WriteSlot /\ MoreToSubmit(q)
      /\ dist' = [dist EXCEPT ![WriteSlot] = @ \cup {s}]
      /\ writing' = [writing EXCEPT ![w] = [q EXCEPT !.pos = @ + 1]]
      /\ UNCHANGED <<generationForRead, used, reading, windows, batch, reported>>
  <2>1. q.step = "notify" /\ MoreToSubmit(q)
        /\ dist' = [dist EXCEPT ![q.slot] = @ \cup {s}]
        /\ writing' = [writing EXCEPT ![w] = [q EXCEPT !.pos = @ + 1]]
        /\ UNCHANGED <<generationForRead, used, reading, windows, batch, reported>>
    BY DEF NotifySubmit, reportVars
  <2>2. q.slot = WriteSlot
    BY <2>1 DEF KeepInv, SafeInv, LockInv
  <2>3. q \in InNotify
    BY <2>1 DEF KeepInv, SafeInv, TypeOK, Idle
  <2> QED
    BY <2>1, <2>2, <2>3
<1>2. /\ SampleType(q) \in NotifyType /\ SampleType(q) \in Collected
      /\ q.pos \in Nat /\ q.call \in Call
  <2>1. SampleType(q) # InvalidType /\ q.metric \in Metric /\ q.pos \in Nat /\ q.call \in Call
    BY <1>1, BoundsAssumption DEF MoreToSubmit, InNotify
  <2>2. q.pos = 0 \/ q.pos \in 1 .. Len(q.metric.latencies)
    BY <1>1, <2>1, MetricLength DEF MoreToSubmit
  <2>3. SampleType(q) \in Collected
    BY <2>1, <2>2, CollectedAssumption DEF SampleType
  <2> QED
    BY <1>1, <2>1, <2>3, SampleTypeIsNotifyType
<1>3. q.pos <= MaxMeasurements
  BY <1>1, <1>2, MetricLength, BoundsAssumption DEF MoreToSubmit, InNotify
<1>4. s \in Sample /\ TypeOf(s) = SampleType(q) /\ Source(s) = q.call /\ s[2] = q.pos
  BY <1>2, <1>3, BoundsAssumption DEF Sample, TypeOf, Source
<1>5. q.call \in used /\ s \notin AllSamples
  BY <1>1, <1>2, <1>4 DEF KeepInv, CallInv
<1> HIDE DEF s
<1>6. /\ OpenSamples' = OpenSamples \cup {s} /\ ClosedSamples' = ClosedSamples
      /\ AllSamples' = AllSamples \cup {s} /\ WriteSlot' = WriteSlot
      /\ dist'[1 - WriteSlot] = dist[1 - WriteSlot]
  BY <1>1, Written DEF KeepInv, SafeInv
<1>7. AbstractStep
  BY <1>1, <1>4, <1>5, <1>6 DEF AbstractStep, Reports!Next, Reports!Submit, AllSamples
<1>8. WindowInv'
  BY <1>1, <1>2, <1>4, <1>6, WindowInvKept DEF KeepInv
<1>9. CallInv'
  <2>1. \A x \in Writer \ {w} : writing'[x] = writing[x] /\ writing[x].step # "notify"
    BY <1>1 DEF KeepInv, SafeInv, LockInv, TypeOK
  <2>2. writing'[w].call = q.call /\ writing'[w].pos = q.pos + 1
    BY <1>1 DEF KeepInv, SafeInv, TypeOK, InNotify
  <2>3. \A x \in AllSamples : x \in Sample
    BY Slots DEF KeepInv, SafeInv
  <2>4. \A x \in Sample : TypeOf(x) \in NotifyType => x[2] \in Nat
    BY TypesApart, BoundsAssumption DEF Sample, TypeOf
  <2>5. ASSUME NEW x \in AllSamples', TypeOf(x) \in NotifyType, Source(x) = q.call
        PROVE  x \notin ClosedSamples \cup reported /\ x[2] < q.pos + 1
    <3>1. CASE x = s
      BY <1>2, <1>4, <1>5, <3>1 DEF AllSamples
    <3>2. CASE x \in AllSamples
      BY <1>1, <1>2, <2>3, <2>4, <2>5, <3>2 DEF KeepInv, CallInv
    <3> QED
      BY <1>6, <3>1, <3>2
  <2>6. \A x \in AllSamples' : TypeOf(x) \in NotifyType => Source(x) \in used
    BY <1>4, <1>5, <1>6 DEF KeepInv, CallInv
  <2> QED
    BY <1>1, <1>5, <1>6, <2>1, <2>2, <2>5, <2>6 DEF CallInv
<1>10. CutInv'
  <2>1. \A i \in Slot : dist'[i] \subseteq dist[i] \cup {s}
    BY <1>1, Slots DEF KeepInv, SafeInv
  <2> QED
    BY <1>1, <1>2, <1>4, <1>6, <2>1 DEF KeepInv, CutInv
<1> QED
  BY <1>7, <1>8, <1>9, <1>10

-----------------------------------------------------------------------------
(***************************************************************************)
(* readStatsFromLastInterval.                                              *)
(***************************************************************************)

LEMMA ReadTelemetryKeeps ==
  ASSUME KeepInv, NEW r \in Reader, ReadTelemetry(r)
  PROVE  CallInv' /\ WindowInv' /\ CutInv' /\ AbstractStep
<1> USE DEF ReadTelemetry, writerVars, reportVars
<1>1. /\ OpenSamples' = OpenSamples /\ ClosedSamples' = ClosedSamples
      /\ AllSamples' = AllSamples /\ reported' = reported
  BY Unmoved
<1>2. AbstractStep
  BY <1>1 DEF AbstractStep, Reports!vars
<1>3. \A x \in Reader : \/ reading'[x] = reading[x]
                        \/ reading[x].step = "rest" /\ reading'[x].step = "swap"
  BY DEF KeepInv, SafeInv, TypeOK, InRead
<1>4. CallInv'
  BY <1>1, CallInvKept DEF KeepInv
<1>5. WindowInv'
  BY <1>1, <1>3, WindowInvKept DEF KeepInv
<1>6. CutInv'
  BY <1>3, CutInvKept DEF KeepInv
<1> QED
  BY <1>2, <1>4, <1>5, <1>6

LEMMA SwapGenerationKeeps ==
  ASSUME KeepInv, NEW r \in Reader, SwapGeneration(r)
  PROVE  CallInv' /\ WindowInv' /\ CutInv' /\ AbstractStep
<1>1. /\ \A x \in Reader \ {r} : reading[x].step = "rest" /\ reading'[x] = reading[x]
      /\ reading[r].step = "swap"
      /\ reading'[r] = [step |-> "copy", slot |-> WriteSlot, todo |-> Collected]
  BY OthersRest DEF SwapGeneration, KeepInv, SafeInv, TypeOK
<1>2. ClosedSamples = {}
  BY <1>1 DEF KeepInv, CutInv
<1>3. WriteSlot' = 1 - WriteSlot /\ WriteSlot = 1 - WriteSlot'
  <2>1. /\ generationForRead' = NextGeneration(generationForRead)
        /\ generationForRead \in 0 .. GenModulus - 1
    BY DEF SwapGeneration, KeepInv, SafeInv, LockInv, TypeOK
  <2>2. WriteSlot' = 1 - WriteSlot
    BY <2>1, NextGenerationFlips DEF WriteSlot
  <2> QED
    BY <2>2, Slots DEF KeepInv, SafeInv, Slot
<1>4. UNCHANGED <<dist, used, writing, windows, batch, reported>>
  BY DEF SwapGeneration, writerVars, reportVars
<1>5. \A w \in Writer : writing[w].step # "notify"
  BY ThreadAssumption DEF SwapGeneration, MtxFree, KeepInv, SafeInv, LockInv
<1>6. batch = {} /\ dist[1 - WriteSlot] = {}
  BY <1>2 DEF ClosedSamples
<1>7. OpenSamples' = {} /\ ClosedSamples' = OpenSamples /\ AllSamples' = AllSamples
  BY <1>2, <1>3, <1>4, <1>6 DEF OpenSamples, ClosedSamples, AllSamples
<1>8. AbstractStep
  BY <1>2, <1>4, <1>7 DEF AbstractStep, Reports!Next, Reports!Cut
<1>9. CallInv'
  BY <1>4, <1>5, <1>7 DEF KeepInv, CallInv
<1>10. WindowInv'
  BY <1>1, <1>4, <1>7, WindowInvKept DEF KeepInv
<1>11. CutInv'
  <2>1. 1 - WriteSlot' \in Slot
    BY <1>3, Slots DEF KeepInv, SafeInv
  <2> QED
    BY <1>1, <1>4, <2>1 DEF KeepInv, CutInv
<1> QED
  BY <1>8, <1>9, <1>10, <1>11

LEMMA CopyHistogramKeeps ==
  ASSUME KeepInv, NEW r \in Reader, NEW t \in DistType, CopyHistogram(r, t)
  PROVE  CallInv' /\ WindowInv' /\ CutInv' /\ AbstractStep
<1>1. /\ reading[r].step = "copy" /\ reading[r].slot = 1 - WriteSlot
      /\ reading[r] \in InRead /\ t \in reading[r].todo
      /\ batch' = batch \cup OfType(dist[1 - WriteSlot], t)
      /\ UNCHANGED <<dist, generationForRead, used, writing, windows, reported>>
  BY DEF CopyHistogram, KeepInv, SafeInv, LockInv, TypeOK, writerVars
<1>2. /\ \A x \in Reader \ {r} : reading[x].step = "rest" /\ reading'[x] = reading[x]
      /\ reading'[r] = IF reading[r].todo = {t}
                       THEN [reading[r] EXCEPT !.step = "reset", !.todo = Collected]
                       ELSE [reading[r] EXCEPT !.todo = reading[r].todo \ {t}]
  BY <1>1, OthersRest DEF CopyHistogram, KeepInv, SafeInv, TypeOK
<1>3. WriteSlot' = WriteSlot
  BY <1>1 DEF WriteSlot
<1>4. /\ OpenSamples' = OpenSamples /\ ClosedSamples' = ClosedSamples
      /\ AllSamples' = AllSamples /\ reported' = reported
  BY <1>1, <1>3 DEF OpenSamples, ClosedSamples, AllSamples, OfType
<1>5. AbstractStep
  BY <1>4 DEF AbstractStep, Reports!vars
<1>6. CallInv'
  BY <1>1, <1>4, CallInvKept DEF KeepInv
<1>7. reading'[r].step \in {"copy", "reset"}
  BY <1>1, <1>2 DEF InRead
<1>8. WindowInv'
  BY <1>1, <1>2, <1>4, <1>7, WindowInvKept DEF KeepInv
<1>9. CutInv'
  <2>1. \A i \in Slot : \A s \in dist[i] : TypeOf(s) \in Collected
    BY DEF KeepInv, CutInv
  <2>2. \A s \in dist[1 - WriteSlot] : TypeOf(s) \in reading[r].todo \ {t} \/ s \in batch'
    BY <1>1 DEF KeepInv, CutInv, OfType
  <2>3. 1 - WriteSlot \in Slot
    BY Slots DEF KeepInv, SafeInv
  <2>4. CASE reading[r].todo = {t}
    <3>1. reading'[r].step = "reset" /\ reading'[r].todo = Collected
      BY <1>1, <1>2, <2>4 DEF InRead
    <3>2. \A s \in dist[1 - WriteSlot] : TypeOf(s) \in Collected /\ s \in batch'
      BY <2>1, <2>2, <2>3, <2>4
    <3> QED
      BY <1>1, <1>2, <1>3, <2>1, <3>1, <3>2 DEF CutInv
  <2>5. CASE reading[r].todo # {t}
    <3>1. reading'[r].step = "copy" /\ reading'[r].todo = reading[r].todo \ {t}
      BY <1>1, <1>2, <2>5 DEF InRead
    <3> QED
      BY <1>1, <1>2, <1>3, <2>1, <2>2, <3>1 DEF CutInv
  <2> QED
    BY <2>4, <2>5
<1> QED
  BY <1>5, <1>6, <1>8, <1>9

LEMMA ResetHistogramKeeps ==
  ASSUME KeepInv, NEW r \in Reader, NEW t \in DistType, ResetHistogram(r, t)
  PROVE  CallInv' /\ WindowInv' /\ CutInv' /\ AbstractStep
<1>1. /\ reading[r].step = "reset" /\ reading[r].slot = 1 - WriteSlot
      /\ reading[r] \in InRead /\ t \in reading[r].todo
      /\ dist' = [dist EXCEPT ![1 - WriteSlot] = @ \ OfType(@, t)]
      /\ UNCHANGED <<generationForRead, used, writing, windows>>
  BY DEF ResetHistogram, KeepInv, SafeInv, LockInv, TypeOK, writerVars
<1>2. \A x \in Reader \ {r} : reading[x].step = "rest" /\ reading'[x] = reading[x]
  BY <1>1, OthersRest DEF ResetHistogram, KeepInv, SafeInv, TypeOK
<1>3. WriteSlot' = WriteSlot
  BY <1>1 DEF WriteSlot
<1>4. \A s \in dist[1 - WriteSlot] : TypeOf(s) \in reading[r].todo /\ s \in batch
  BY <1>1 DEF KeepInv, CutInv
<1>5. /\ dist'[WriteSlot] = dist[WriteSlot]
      /\ dist'[1 - WriteSlot] = {s \in dist[1 - WriteSlot] : TypeOf(s) # t}
      /\ \A i \in Slot : dist'[i] \subseteq dist[i]
  BY <1>1, Slots DEF KeepInv, SafeInv, OfType
<1>6. OpenSamples' = OpenSamples /\ ClosedSamples = batch
  BY <1>3, <1>4, <1>5 DEF OpenSamples, ClosedSamples
<1>7. CASE reading[r].todo = {t}
  <2>1. reading'[r] = Resting /\ reported' = reported \cup batch /\ batch' = {}
    BY <1>7 DEF ResetHistogram, KeepInv, SafeInv, TypeOK
  <2>2. ClosedSamples' = {} /\ AllSamples' = AllSamples
    BY <1>3, <1>4, <1>5, <1>6, <1>7, <2>1 DEF ClosedSamples, AllSamples
  <2>3. AbstractStep
    BY <1>6, <2>1, <2>2 DEF AbstractStep, Reports!Next, Reports!Deliver
  <2>4. CallInv'
    BY <1>1, <1>6, <2>1, <2>2, CallInvKept DEF KeepInv
  <2>5. WindowInv'
    BY <1>1, <1>2, <2>1, <2>2, WindowInvKept DEF KeepInv, Resting
  <2>6. CutInv'
    BY <1>2, <1>5, <2>1, <2>2 DEF KeepInv, CutInv, Resting
  <2> QED
    BY <2>3, <2>4, <2>5, <2>6
<1>8. CASE reading[r].todo # {t}
  <2>1. /\ reading'[r].step = "reset" /\ reading'[r].todo = reading[r].todo \ {t}
        /\ batch' = batch /\ reported' = reported
    BY <1>1, <1>8 DEF ResetHistogram, KeepInv, SafeInv, TypeOK, InRead, reportVars
  <2>2. ClosedSamples' = ClosedSamples /\ AllSamples' = AllSamples
    BY <1>3, <1>4, <1>5, <1>6, <2>1 DEF ClosedSamples, AllSamples
  <2>3. AbstractStep
    BY <1>6, <2>1, <2>2 DEF AbstractStep, Reports!vars
  <2>4. CallInv'
    BY <1>1, <2>1, <2>2, CallInvKept DEF KeepInv
  <2>5. WindowInv'
    BY <1>1, <1>2, <2>1, <2>2, WindowInvKept DEF KeepInv
  <2>6. CutInv'
    BY <1>2, <1>3, <1>4, <1>5, <2>1 DEF KeepInv, CutInv
  <2> QED
    BY <2>3, <2>4, <2>5, <2>6
<1> QED
  BY <1>7, <1>8

-----------------------------------------------------------------------------
(***************************************************************************)
(* processHighFrequencyTelemetry.                                          *)
(***************************************************************************)

LEMMA ProcessWindowKeeps ==
  ASSUME KeepInv, NEW r \in Reader, ProcessWindow(r)
  PROVE  CallInv' /\ WindowInv' /\ CutInv' /\ AbstractStep
<1>1. /\ OpenSamples' = OpenSamples /\ ClosedSamples' = ClosedSamples
      /\ AllSamples' = AllSamples
      /\ UNCHANGED <<dist, generationForRead, used, writing, batch, reported>>
  BY Unmoved DEF ProcessWindow, writerVars, reportVars
<1>2. AbstractStep
  BY <1>1 DEF AbstractStep, Reports!vars
<1>3. /\ reading[r].step = "rest" /\ reading'[r].step = "window"
      /\ \A x \in Reader \ {r} : reading[x].step = "rest" /\ reading'[x] = reading[x]
  BY ThreadAssumption DEF ProcessWindow, KeepInv, SafeInv, LockInv, TypeOK, InRead
<1>4. CallInv'
  BY <1>1, CallInvKept DEF KeepInv
<1>5. CutInv'
  BY <1>1, <1>3, CutInvKept DEF KeepInv
<1>6. WindowInv'
  <2>1. windows' = windows + 1 /\ windows \in Nat /\ BwEnabled
    BY BoundsAssumption DEF ProcessWindow, KeepInv, SafeInv, TypeOK
  <2>2. ASSUME NEW s \in AllSamples, TypeOf(s) \in WindowType
        PROVE  Source(s) \in Nat /\ Source(s) < windows'
    <3>1. s \in Sample /\ Source(s) <= windows
      BY <2>2, Slots DEF KeepInv, SafeInv, WindowInv
    <3>2. Source(s) \in Nat
      BY <2>2, <3>1, TypesApart, BoundsAssumption DEF Sample, TypeOf, Source
    <3> QED
      BY <2>1, <3>1, <3>2
  <2>3. ASSUME NEW t \in WindowType
        PROVE  WindowSample(t)' \notin AllSamples
    <3>1. TypeOf(WindowSample(t)') = t /\ Source(WindowSample(t)') = windows'
      BY DEF TypeOf, Source, WindowSample
    <3> QED
      BY <2>2, <3>1
  <2>4. \A s \in AllSamples : TypeOf(s) \in WindowType => Source(s) <= windows'
    BY <2>1, <2>2
  <2> QED
    BY <1>1, <1>3, <2>1, <2>3, <2>4, TypesApart DEF WindowInv
<1> QED
  BY <1>2, <1>4, <1>5, <1>6

LEMMA SwapBwGenerationKeeps ==
  ASSUME KeepInv, NEW r \in Reader, SwapBwGeneration(r)
  PROVE  CallInv' /\ WindowInv' /\ CutInv' /\ AbstractStep
<1>1. /\ OpenSamples' = OpenSamples /\ ClosedSamples' = ClosedSamples
      /\ AllSamples' = AllSamples
      /\ UNCHANGED <<dist, generationForRead, used, writing, windows, batch, reported>>
  BY Unmoved DEF SwapBwGeneration, writerVars, reportVars
<1>2. AbstractStep
  BY <1>1 DEF AbstractStep, Reports!vars
<1>3. /\ reading[r].step = "window" /\ reading'[r].step = "aggregate"
      /\ \A x \in Reader \ {r} : reading[x].step = "rest" /\ reading'[x] = reading[x]
  BY OthersRest DEF SwapBwGeneration, KeepInv, SafeInv, TypeOK
<1>4. CallInv'
  BY <1>1, CallInvKept DEF KeepInv
<1>5. CutInv'
  BY <1>1, <1>3, CutInvKept DEF KeepInv
<1>6. WindowInv'
  BY <1>1, <1>3 DEF KeepInv, WindowInv, WindowSample
<1> QED
  BY <1>2, <1>4, <1>5, <1>6

\* A window submits to the open interval, or nothing.
LEMMA WindowSubmits ==
  ASSUME KeepInv, NEW t \in WindowType \cap Collected, NEW S \in SUBSET {WindowSample(t)},
         NEW r \in Reader, reading[r].step \in {"aggregate", "variance"},
         WindowSample(t) \notin AllSamples,
         dist' = [dist EXCEPT ![WriteSlot] = @ \cup S],
         UNCHANGED <<generationForRead, used, writing, batch, reported>>,
         \A x \in Reader \ {r} : reading'[x] = reading[x],
         reading'[r].step \notin {"copy", "reset"}
  PROVE  /\ CallInv' /\ CutInv' /\ AbstractStep
         /\ AllSamples' \subseteq AllSamples \cup {WindowSample(t)}
<1> DEFINE s == WindowSample(t)
<1>1. /\ OpenSamples' = OpenSamples \cup S /\ ClosedSamples' = ClosedSamples
      /\ AllSamples' = AllSamples \cup S /\ WriteSlot' = WriteSlot
      /\ dist'[1 - WriteSlot] = dist[1 - WriteSlot]
  BY Written DEF KeepInv, SafeInv
<1>2. TypeOf(s) = t /\ t \notin NotifyType
  BY TypesApart DEF WindowSample, TypeOf
<1>3. s \in Sample
  BY WindowSampleType DEF KeepInv, SafeInv, WindowCounted
<1> HIDE DEF s
<1>4. S = {} \/ S = {s}
  BY DEF s
<1>5. AbstractStep
  BY <1>1, <1>3, <1>4 DEF AbstractStep, Reports!Next, Reports!Submit, Reports!vars, AllSamples, s
<1>6. CallInv'
  BY <1>1, <1>2, <1>4 DEF KeepInv, CallInv
<1>7. CutInv'
  <2>1. \A i \in Slot : dist'[i] \subseteq dist[i] \cup {s}
    BY <1>4, Slots DEF KeepInv, SafeInv
  <2>2. \A i \in Slot : \A x \in dist'[i] : TypeOf(x) \in Collected
    BY <1>2, <2>1 DEF KeepInv, CutInv
  <2>3. /\ \A x \in Reader : reading'[x].step \in {"copy", "reset"} => reading'[x] = reading[x]
        /\ (\A x \in Reader : reading'[x].step \notin {"copy", "reset"})
             => \A x \in Reader : reading[x].step \notin {"copy", "reset"}
    OBVIOUS
  <2> QED
    BY <1>1, <2>2, <2>3 DEF KeepInv, CutInv
<1> QED
  BY <1>1, <1>4, <1>5, <1>6, <1>7 DEF s

\* A step of a window that submits nothing.
LEMMA WindowSilent ==
  ASSUME KeepInv, NEW r \in Reader, reading[r].step \in {"aggregate", "variance"},
         UNCHANGED <<dist, generationForRead, used, writing, batch, reported>>,
         \A x \in Reader \ {r} : reading'[x] = reading[x],
         reading'[r].step \notin {"copy", "reset"}
  PROVE  CallInv' /\ CutInv' /\ AbstractStep /\ AllSamples' = AllSamples
<1>1. /\ OpenSamples' = OpenSamples /\ ClosedSamples' = ClosedSamples
      /\ AllSamples' = AllSamples
  BY Unmoved
<1>2. AbstractStep
  BY <1>1 DEF AbstractStep, Reports!vars
<1> QED
  BY <1>1, <1>2, CallInvKept, CutInvKept DEF KeepInv

LEMMA AggregateBwKeeps ==
  ASSUME KeepInv, NEW r \in Reader, NEW d \in Direction, AggregateBw(r, d)
  PROVE  CallInv' /\ WindowInv' /\ CutInv' /\ AbstractStep
<1>1. /\ reading[r].step = "aggregate" /\ d \in reading[r].todo /\ reading[r] \in InRead
      /\ UNCHANGED <<generationForRead, used, writing, windows, batch, reported>>
  BY DEF AggregateBw, KeepInv, SafeInv, TypeOK, writerVars, reportVars
<1>2. \A x \in Reader \ {r} : reading[x].step = "rest" /\ reading'[x] = reading[x]
  BY <1>1, OthersRest DEF AggregateBw, KeepInv, SafeInv, TypeOK
<1>3. \/ reading'[r].step = "variance"
      \/ reading'[r].step = "aggregate" /\ reading'[r].todo = reading[r].todo \ {d}
  BY <1>1 DEF AggregateBw, KeepInv, SafeInv, TypeOK, InRead
<1>4. PICK S \in SUBSET {WindowSample(BandwidthType(d))} :
        dist' = [dist EXCEPT ![WriteSlot] = @ \cup S]
  BY DEF AggregateBw
<1>5. /\ BwEnabled /\ WindowSample(BandwidthType(d)) \notin AllSamples
      /\ WindowSample("LatencyVariance") \notin AllSamples
  BY <1>1 DEF KeepInv, WindowInv
<1>6. BandwidthType(d) \in WindowType \cap Collected
  BY <1>5, CollectedAssumption, TypesApart DEF Direction, BandwidthType
<1>7. /\ CallInv' /\ CutInv' /\ AbstractStep
      /\ AllSamples' \subseteq AllSamples \cup {WindowSample(BandwidthType(d))}
  BY <1>1, <1>2, <1>3, <1>4, <1>5, <1>6, WindowSubmits
<1>8. WindowInv'
  <2>1. \A t \in WindowType : /\ WindowSample(t)' = WindowSample(t)
                              /\ TypeOf(WindowSample(t)) = t
                              /\ Source(WindowSample(t)) = windows
    BY <1>1 DEF WindowSample, TypeOf, Source
  <2>2. ASSUME NEW t \in WindowType, t # BandwidthType(d), WindowSample(t) \notin AllSamples
        PROVE  WindowSample(t)' \notin AllSamples'
    BY <1>6, <1>7, <2>1, <2>2
  <2>3. windows' = windows /\ windows \in Nat
    BY <1>1, BoundsAssumption DEF KeepInv, SafeInv, TypeOK
  <2>4. \A s \in AllSamples' : TypeOf(s) \in WindowType => Source(s) <= windows'
    BY <1>6, <1>7, <2>1, <2>3 DEF KeepInv, WindowInv
  <2>5. WindowSample("LatencyVariance")' \notin AllSamples'
    BY <1>5, <2>2, TypesApart
  <2>6. ASSUME reading'[r].step = "aggregate", NEW e \in reading'[r].todo \cap Direction
        PROVE  WindowSample(BandwidthType(e))' \notin AllSamples'
    <3>1. e # d /\ e \in reading[r].todo /\ e \in Direction
      BY <1>3, <2>6
    <3>2. WindowSample(BandwidthType(e)) \notin AllSamples
      BY <1>1, <3>1 DEF KeepInv, WindowInv
    <3> QED
      BY <2>2, <3>1, <3>2, TypesApart
  <2> QED
    BY <1>2, <1>3, <1>5, <2>4, <2>5, <2>6 DEF WindowInv
<1> QED
  BY <1>7, <1>8

LEMMA AggregateVarianceKeeps ==
  ASSUME KeepInv, NEW r \in Reader, AggregateVariance(r)
  PROVE  CallInv' /\ WindowInv' /\ CutInv' /\ AbstractStep
<1>1. /\ reading[r].step = "variance"
      /\ UNCHANGED <<generationForRead, used, writing, windows, batch, reported>>
  BY DEF AggregateVariance, writerVars, reportVars
<1>2. /\ \A x \in Reader \ {r} : reading[x].step = "rest" /\ reading'[x] = reading[x]
      /\ reading'[r].step = "rest"
  BY <1>1, OthersRest DEF AggregateVariance, KeepInv, SafeInv, TypeOK, Resting
<1>3. PICK S \in SUBSET {WindowSample("LatencyVariance")} :
        /\ "LatencyVariance" \notin Collected => S = {}
        /\ dist' = [dist EXCEPT ![WriteSlot] = @ \cup S]
  BY DEF AggregateVariance
<1>4. /\ CallInv' /\ CutInv' /\ AbstractStep
      /\ AllSamples' \subseteq AllSamples \cup {WindowSample("LatencyVariance")}
  <2>1. CASE "LatencyVariance" \in Collected
    <3>1. WindowSample("LatencyVariance") \notin AllSamples
      BY <1>1 DEF KeepInv, WindowInv
    <3>2. "LatencyVariance" \in WindowType \cap Collected
      BY <2>1, TypesApart
    <3> QED
      BY <1>1, <1>2, <1>3, <3>1, <3>2, WindowSubmits
  <2>2. CASE "LatencyVariance" \notin Collected
    <3>1. dist' = dist
      BY <1>3, <2>2, Slots DEF KeepInv, SafeInv
    <3> QED
      BY <1>1, <1>2, <3>1, WindowSilent
  <2> QED
    BY <2>1, <2>2
<1>5. WindowInv'
  <2>1. windows' = windows /\ windows \in Nat
    BY <1>1, BoundsAssumption DEF KeepInv, SafeInv, TypeOK
  <2>2. Source(WindowSample("LatencyVariance")) = windows
    BY DEF WindowSample, Source
  <2>3. \A s \in AllSamples' : TypeOf(s) \in WindowType => Source(s) <= windows'
    BY <1>4, <2>1, <2>2 DEF KeepInv, WindowInv
  <2> QED
    BY <1>2, <2>3 DEF WindowInv
<1> QED
  BY <1>4, <1>5

-----------------------------------------------------------------------------
LEMMA Initially == Init => KeepInv /\ Reports!Init
<1> SUFFICES ASSUME Init
             PROVE  KeepInv /\ Reports!Init
  OBVIOUS
<1>1. SafeInv
  BY InitTypeOK DEF Init, SafeInv, WindowCounted, LockInv, Idle, Resting
<1>2. WriteSlot \in Slot /\ 1 - WriteSlot \in Slot
  BY <1>1, Slots DEF SafeInv
<1>3. OpenSamples = {} /\ ClosedSamples = {} /\ AllSamples = {}
  BY <1>2 DEF Init, OpenSamples, ClosedSamples, AllSamples
<1>4. CallInv /\ WindowInv /\ CutInv
  BY <1>2, <1>3 DEF Init, CallInv, WindowInv, CutInv, Idle, Resting
<1> QED
  BY <1>1, <1>3, <1>4 DEF KeepInv, Reports!Init, Init

LEMMA Step == KeepInv /\ [Next]_vars => KeepInv' /\ AbstractStep
<1> SUFFICES ASSUME KeepInv, [Next]_vars
             PROVE  CallInv' /\ WindowInv' /\ CutInv' /\ AbstractStep
  BY SafeInvStep DEF KeepInv
<1>1. CASE UNCHANGED vars
  <2>1. UNCHANGED <<dist, generationForRead, batch, reported, used, writing, windows, reading>>
    BY <1>1 DEF vars, writerVars, reportVars
  <2>2. /\ OpenSamples' = OpenSamples /\ ClosedSamples' = ClosedSamples
        /\ AllSamples' = AllSamples
    BY <2>1, Unmoved
  <2>3. AbstractStep
    BY <2>1, <2>2 DEF AbstractStep, Reports!vars
  <2> QED
    BY <2>1, <2>2, <2>3, CallInvKept, WindowInvKept, CutInvKept DEF KeepInv
<1>2. ASSUME NEW w \in Writer, Notify(w)
      PROVE  CallInv' /\ WindowInv' /\ CutInv' /\ AbstractStep
  BY <1>2, NotifyBeginKeeps, NotifySubmitKeeps, NotifyReturnKeeps DEF Notify
<1>3. ASSUME NEW r \in Reader, ReadInterval(r)
      PROVE  CallInv' /\ WindowInv' /\ CutInv' /\ AbstractStep
  BY <1>3, ReadTelemetryKeeps, SwapGenerationKeeps, CopyHistogramKeeps,
     ResetHistogramKeeps DEF ReadInterval
<1>4. ASSUME NEW r \in Reader, Window(r)
      PROVE  CallInv' /\ WindowInv' /\ CutInv' /\ AbstractStep
  BY <1>4, ProcessWindowKeeps, SwapBwGenerationKeeps, AggregateBwKeeps,
     AggregateVarianceKeeps DEF Window
<1> QED
  BY <1>1, <1>2, <1>3, <1>4 DEF Next

\* The connection is an interval reporter: whatever the interleaving of notify,
\* read and bandwidth window, every sample stays in the interval it was
\* submitted to and is reported once with it.
THEOREM Implements == Spec => ImplementsIntervalReports
<1>1. Spec => []KeepInv
  BY Initially, Step, PTL DEF Spec
<1>2. KeepInv /\ [Next]_vars => [Reports!Next]_(Reports!vars)
  BY Step DEF AbstractStep
<1> QED
  BY <1>1, <1>2, Initially, PTL DEF Spec, ImplementsIntervalReports, Reports!Spec

-----------------------------------------------------------------------------
(***************************************************************************)
(* The samples of one call are reported together.                          *)
(***************************************************************************)

\* A sample of a call comes from that call's next submission.
LEMMA OnlyNotifySubmits ==
  ASSUME KeepInv, Next, NEW i \in Slot, NEW s \in dist'[i],
         TypeOf(s) \in NotifyType, s \notin dist[i]
  PROVE  \E w \in Writer : writing[w].step = "notify" /\ Source(s) = writing[w].call
<1>1. dist \in [Slot -> SUBSET Sample]
  BY DEF KeepInv, SafeInv, TypeOK
<1>2. ASSUME NEW w \in Writer, Notify(w)
      PROVE  writing[w].step = "notify" /\ Source(s) = writing[w].call
  <2>1. NotifySubmit(w)
    BY <1>2 DEF Notify, NotifyBegin, NotifyReturn
  <2>2. s = <<writing[w].call, writing[w].pos, SampleType(writing[w])>>
    BY <1>1, <2>1 DEF NotifySubmit
  <2> QED
    BY <2>1, <2>2 DEF NotifySubmit, Source
<1>3. ASSUME NEW r \in Reader, ReadInterval(r) \/ Window(r)
      PROVE  FALSE
  <2>1. dist' # dist
    OBVIOUS
  <2>2. ASSUME NEW t \in WindowType, NEW S \in SUBSET {WindowSample(t)},
               dist' = [dist EXCEPT ![WriteSlot] = @ \cup S]
        PROVE  FALSE
    <3>1. s = WindowSample(t)
      BY <1>1, <2>2
    <3> QED
      BY <3>1, TypesApart DEF WindowSample, TypeOf
  <2>3. ~(ReadTelemetry(r) \/ SwapGeneration(r) \/ ProcessWindow(r) \/ SwapBwGeneration(r))
    BY <2>1 DEF ReadTelemetry, SwapGeneration, ProcessWindow, SwapBwGeneration
  <2>4. ASSUME NEW t \in DistType PROVE ~(CopyHistogram(r, t) \/ ResetHistogram(r, t))
    BY <1>1, <2>1 DEF CopyHistogram, ResetHistogram, OfType
  <2>5. ASSUME NEW d \in Direction PROVE ~AggregateBw(r, d)
    BY <2>2, TypesApart DEF AggregateBw
  <2>6. ~AggregateVariance(r)
    BY <2>2, TypesApart DEF AggregateVariance
  <2> QED
    BY <1>3, <2>3, <2>4, <2>5, <2>6 DEF ReadInterval, Window
<1> QED
  BY <1>2, <1>3 DEF Next

LEMMA CallsWholeStep == KeepInv /\ CallsWhole /\ [Next]_vars => CallsWhole'
<1> SUFFICES ASSUME KeepInv, CallsWhole, [Next]_vars
             PROVE  CallsWhole'
  OBVIOUS
<1>1. AbstractStep
  BY Step
<1>2. CASE OpenSamples' = OpenSamples /\ (ClosedSamples \cup reported)' = ClosedSamples \cup reported
  BY <1>2 DEF CallsWhole
<1>3. CASE OpenSamples' = {}
  BY <1>3 DEF CallsWhole
<1>4. ASSUME NEW s \in Sample \ AllSamples, OpenSamples' = OpenSamples \cup {s},
             UNCHANGED <<ClosedSamples, reported>>
      PROVE  CallsWhole'
  <2>1. WriteSlot' \in Slot
    <3>1. SafeInv'
      BY SafeInvStep DEF KeepInv
    <3> QED
      BY <3>1, GenerationSelectsSlot DEF SafeInv, TypeOK, WriteSlot
  <2>2. s \in dist'[WriteSlot'] /\ s \notin dist[WriteSlot']
    <3>1. \A i \in Slot : i = WriteSlot \/ i = 1 - WriteSlot
      <4>1. WriteSlot \in Slot
        BY Slots DEF KeepInv, SafeInv
      <4> QED
        BY <4>1 DEF Slot
    <3> QED
      BY <1>4, <2>1, <3>1 DEF AllSamples, OpenSamples, ClosedSamples
  <2>3. ~UNCHANGED vars
    BY <1>4 DEF vars, AllSamples, OpenSamples, WriteSlot
  <2>4. CASE TypeOf(s) \in NotifyType
    <3>1. PICK w \in Writer : writing[w].step = "notify" /\ Source(s) = writing[w].call
      BY <2>1, <2>2, <2>3, <2>4, OnlyNotifySubmits
    <3>2. \A x \in ClosedSamples \cup reported : TypeOf(x) \in NotifyType => Source(x) # Source(s)
      BY <3>1 DEF KeepInv, CallInv, AllSamples
    <3> QED
      BY <1>4, <3>2 DEF CallsWhole
  <2>5. CASE TypeOf(s) \notin NotifyType
    BY <1>4, <2>5 DEF CallsWhole
  <2> QED
    BY <2>4, <2>5
<1> QED
  BY <1>1, <1>2, <1>3, <1>4
  DEF AbstractStep, Reports!Next, Reports!vars, Reports!Submit, Reports!Cut, Reports!Deliver,
      AllSamples

\* The size and the latencies of one call are in the same interval.
THEOREM CallsStayWhole == Spec => []CallsWhole
<1>1. Init => CallsWhole
  BY Initially DEF Reports!Init, CallsWhole
<1>2. Spec => []KeepInv
  BY Initially, Step, PTL DEF Spec
<1> QED
  BY <1>1, <1>2, CallsWholeStep, PTL DEF Spec
=============================================================================
