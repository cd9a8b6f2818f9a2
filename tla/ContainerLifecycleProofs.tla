----------------------- MODULE ContainerLifecycleProofs -----------------------
(***************************************************************************)
(* Proofs about ContainerLifecycle, for any number of application threads, *)
(* connections, samples and instances, and any set of settings.            *)
(***************************************************************************)
EXTENDS ContainerLifecycle, FiniteSetTheorems, TLAPS

-----------------------------------------------------------------------------
(***************************************************************************)
(* The inductive invariant.                                                *)
(***************************************************************************)

ThreadRecord ==
  [at : Where, then : {"idle", "drop", "loop", "exited"},
   handle : 0 .. MaxInstances, conn : SUBSET Connection, saw : BOOLEAN]

\* An application thread inside a call holds the instance until it has dropped
\* it; the one that frees it has mx_; one about to drop it has flushed.
AppInv(t) ==
  /\ thread[t].then \in {"idle", "drop"}
  /\ thread[t].at \notin {"idle", "free"} => thread[t].handle # 0
  /\ thread[t].at = "free" => mx = t
  /\ thread[t].at = "drop" => ~executor

\* The reporter thread leaves by a flush that reads, as no executor is left
\* when it is told to exit.
ReporterInv ==
  LET r == thread[Reporter]
  IN  /\ r.handle = 0
      /\ r.at = "none" => r.then = "idle"
      /\ r.at = "exited" => r.then = "exited"
      /\ r.then = "exited" =>
           /\ exitThread
           /\ r.at = "ask" => ~r.saw
           /\ r.at \in {"hand", "test", "reset", "exited"} => pending = {}

\* Who saw an executor runs in a mode that uploads; who is to hand a report
\* over knows of the executor if there still is one.
ThreadInv(t) ==
  /\ thread[t].saw => Mode.upload
  /\ thread[t].at = "reset" => Mode.upload
  /\ thread[t].at = "hand" /\ executor => thread[t].saw

\* The end of an instance, and where its samples are.
InstanceInv ==
  /\ mx # None => refCnt = 0 /\ instance # 0
  /\ exitThread => refCnt = 0 /\ ~executor
  /\ refCnt = 0 /\ mx = None => pending = {}
  /\ Mode.writeLocalDisk => submitted \subseteq onDisk \cup pending
  /\ executor => Mode.upload

IInv ==
  /\ TypeOK
  /\ \A t \in App : AppInv(t)
  /\ ReporterInv
  /\ \A t \in Thread : ThreadInv(t)
  /\ InstanceInv
  /\ RefCountsHolders
  /\ ThreadHasInstance
  /\ CrashNeedsExecutor
  /\ DropsOnlyAfterFlush

-----------------------------------------------------------------------------
(***************************************************************************)
(* The holders.                                                            *)
(***************************************************************************)

\* With no reference left there is no holder, and conversely.
LEMMA NoHolders ==
  ASSUME TypeOK, RefCountsHolders
  PROVE  refCnt = 0 <=> \A t \in App : thread[t].handle = 0
<1>1. IsFiniteSet(Holders)
  BY LifecycleAssumption, FS_Subset DEF Holders
<1>2. refCnt = 0 <=> Holders = {}
  BY <1>1, FS_EmptySet DEF RefCountsHolders
<1> QED
  BY <1>2 DEF Holders

\* A step that leaves the handles and the count alone keeps them in agreement.
LEMMA SameHolders ==
  ASSUME RefCountsHolders, refCnt' = refCnt, instance' = instance,
         \A t \in App : thread'[t].handle = thread[t].handle
  PROVE  RefCountsHolders'
<1>1. Holders' = Holders
  BY DEF Holders
<1> QED
  BY <1>1 DEF RefCountsHolders, Holders

-----------------------------------------------------------------------------
(***************************************************************************)
(* The actions.                                                            *)
(***************************************************************************)

\* The records a thread starts from.
LEMMA InitialRecords == Idle \in ThreadRecord /\ NoThread \in ThreadRecord
<1>1. 0 \in 0 .. MaxInstances /\ {} \in SUBSET Connection
  BY LifecycleAssumption
<1>2. "idle" \in Where /\ "none" \in Where
  BY DEF Where
<1>3. Idle \in ThreadRecord
  BY <1>1, <1>2 DEF Idle, ThreadRecord
<1> QED
  BY <1>2, <1>3 DEF NoThread, ThreadRecord

LEMMA LockMtxStep ==
  ASSUME IInv, NEW t \in Thread, LockMtx(t)
  PROVE  IInv'
<1> USE DEF LockMtx, At, lifeVars, singletonVars, dataVars, outVars
<1>0. Mode' = Mode
  BY DEF Mode
<1>1. TypeOK'
  BY LifecycleAssumption DEF IInv, TypeOK, Where, Thread
<1>2. (\A a \in App : AppInv(a))'
  BY LifecycleAssumption DEF IInv, TypeOK, AppInv, Thread
<1>3. ReporterInv'
  BY LifecycleAssumption DEF IInv, TypeOK, ReporterInv, InstanceInv, Thread
<1>4. (\A a \in Thread : ThreadInv(a))'
  BY <1>0 DEF IInv, TypeOK, ThreadInv, InstanceInv
<1>5. InstanceInv'
  BY <1>0 DEF IInv, InstanceInv
<1>6. RefCountsHolders'
  BY SameHolders DEF IInv, TypeOK, Thread
<1>7. ThreadHasInstance' /\ CrashNeedsExecutor' /\ DropsOnlyAfterFlush'
  BY <1>0 DEF IInv, TypeOK, ThreadHasInstance, CrashNeedsExecutor, DropsOnlyAfterFlush, Thread
<1> QED
  BY <1>1, <1>2, <1>3, <1>4, <1>5, <1>6, <1>7 DEF IInv

LEMMA ShouldReadTelemetryStep ==
  ASSUME IInv, NEW t \in Thread, ShouldReadTelemetry(t)
  PROVE  IInv'
<1> USE DEF ShouldReadTelemetry, At, Unlock, lifeVars, singletonVars, dataVars, outVars
<1>0. Mode' = Mode
  BY DEF Mode
<1>1. TypeOK'
  BY LifecycleAssumption DEF IInv, TypeOK, Where, Thread
<1>2. (\A a \in App : AppInv(a))'
  BY LifecycleAssumption DEF IInv, TypeOK, AppInv, Thread
<1>3. ReporterInv'
  BY LifecycleAssumption DEF IInv, TypeOK, ReporterInv, InstanceInv, Thread
<1>4. (\A a \in Thread : ThreadInv(a))'
  BY <1>0 DEF IInv, TypeOK, ThreadInv, InstanceInv
<1>5. InstanceInv'
  BY <1>0 DEF IInv, InstanceInv
<1>6. RefCountsHolders'
  BY SameHolders DEF IInv, TypeOK, Thread
<1>7. ThreadHasInstance' /\ CrashNeedsExecutor' /\ DropsOnlyAfterFlush'
  BY <1>0 DEF IInv, TypeOK, ThreadHasInstance, CrashNeedsExecutor, DropsOnlyAfterFlush, Thread
<1> QED
  BY <1>1, <1>2, <1>3, <1>4, <1>5, <1>6, <1>7 DEF IInv

LEMMA ReadTelemetryStep ==
  ASSUME IInv, NEW t \in Thread, ReadTelemetry(t)
  PROVE  IInv'
<1> USE DEF ReadTelemetry, At, lifeVars, singletonVars, dataVars, outVars
<1>0. Mode' = Mode
  BY DEF Mode
<1>1. TypeOK'
  BY LifecycleAssumption DEF IInv, TypeOK, Where, Thread
<1>2. (\A a \in App : AppInv(a))'
  BY LifecycleAssumption DEF IInv, TypeOK, AppInv, Thread
<1>3. ReporterInv'
  BY LifecycleAssumption DEF IInv, TypeOK, ReporterInv, InstanceInv, Thread
<1>4. (\A a \in Thread : ThreadInv(a))'
  BY <1>0 DEF IInv, TypeOK, ThreadInv, InstanceInv
<1>5. InstanceInv'
  BY <1>0 DEF IInv, InstanceInv
<1>6. RefCountsHolders'
  BY SameHolders DEF IInv, TypeOK, Thread
<1>7. ThreadHasInstance' /\ CrashNeedsExecutor' /\ DropsOnlyAfterFlush'
  BY <1>0 DEF IInv, TypeOK, ThreadHasInstance, CrashNeedsExecutor, DropsOnlyAfterFlush, Thread
<1> QED
  BY <1>1, <1>2, <1>3, <1>4, <1>5, <1>6, <1>7 DEF IInv

LEMMA UpdateQueueStep ==
  ASSUME IInv, NEW t \in Thread, UpdateQueue(t)
  PROVE  IInv'
<1> USE DEF UpdateQueue, At, Unlock, lifeVars, singletonVars, dataVars, outVars
<1>0. Mode' = Mode
  BY DEF Mode
<1>1. TypeOK'
  BY LifecycleAssumption DEF IInv, TypeOK, Where, Thread
<1>2. (\A a \in App : AppInv(a))'
  BY LifecycleAssumption DEF IInv, TypeOK, AppInv, Thread
<1>3. ReporterInv'
  BY LifecycleAssumption DEF IInv, TypeOK, ReporterInv, InstanceInv, Thread
<1>4. (\A a \in Thread : ThreadInv(a))'
  BY <1>0 DEF IInv, TypeOK, ThreadInv, InstanceInv
<1>5. InstanceInv'
  BY <1>0 DEF IInv, InstanceInv
<1>6. RefCountsHolders'
  BY SameHolders DEF IInv, TypeOK, Thread
<1>7. ThreadHasInstance' /\ CrashNeedsExecutor' /\ DropsOnlyAfterFlush'
  BY <1>0 DEF IInv, TypeOK, ThreadHasInstance, CrashNeedsExecutor, DropsOnlyAfterFlush, Thread
<1> QED
  BY <1>1, <1>2, <1>3, <1>4, <1>5, <1>6, <1>7 DEF IInv

LEMMA TestExecutorStep ==
  ASSUME IInv, NEW t \in Thread, TestExecutor(t)
  PROVE  IInv'
<1> USE DEF TestExecutor, At, Goto, lifeVars, singletonVars, dataVars, outVars
<1>0. Mode' = Mode
  BY DEF Mode
<1>1. TypeOK'
  BY LifecycleAssumption DEF IInv, TypeOK, Where, Thread
<1>2. (\A a \in App : AppInv(a))'
  BY LifecycleAssumption DEF IInv, TypeOK, AppInv, Thread
<1>3. ReporterInv'
  BY LifecycleAssumption DEF IInv, TypeOK, ReporterInv, InstanceInv, Thread
<1>4. (\A a \in Thread : ThreadInv(a))'
  BY <1>0 DEF IInv, TypeOK, ThreadInv, InstanceInv
<1>5. InstanceInv'
  BY <1>0 DEF IInv, InstanceInv
<1>6. RefCountsHolders'
  BY SameHolders DEF IInv, TypeOK, Thread
<1>7. ThreadHasInstance' /\ CrashNeedsExecutor' /\ DropsOnlyAfterFlush'
  BY <1>0 DEF IInv, TypeOK, ThreadHasInstance, CrashNeedsExecutor, DropsOnlyAfterFlush, Thread
<1> QED
  BY <1>1, <1>2, <1>3, <1>4, <1>5, <1>6, <1>7 DEF IInv

LEMMA ResetExecutorStep ==
  ASSUME IInv, NEW t \in Thread, ResetExecutor(t)
  PROVE  IInv'
<1> USE DEF ResetExecutor, At, Goto, lifeVars, singletonVars, dataVars, outVars
<1>0. Mode' = Mode
  BY DEF Mode
<1>1. TypeOK'
  <2> DEFINE r == [thread[t] EXCEPT !.at = thread[t].then]
  <2>1. thread \in [Thread -> ThreadRecord]
    BY DEF IInv, TypeOK, ThreadRecord
  <2>2. r \in ThreadRecord
    BY <2>1 DEF ThreadRecord, Where
  <2>3. thread' = [thread EXCEPT ![t] = r]
    BY <2>1
  <2>4. thread' \in [Thread -> ThreadRecord]
    BY <2>1, <2>2, <2>3
  <2> QED
    BY <2>4 DEF IInv, TypeOK, ThreadRecord
<1>2. (\A a \in App : AppInv(a))'
  <2>1. thread \in [Thread -> ThreadRecord] /\ ~executor' /\ mx' = mx
    BY DEF IInv, TypeOK, ThreadRecord
  <2>2. /\ \A a \in App \ {t} : thread'[a] = thread[a]
        /\ t \in App => thread'[t] = [thread[t] EXCEPT !.at = thread[t].then]
    BY <2>1 DEF Thread
  <2>3. ASSUME t \in App
        PROVE  AppInv(t)'
    <3>1. /\ thread'[t].at = thread[t].then /\ thread'[t].then = thread[t].then
          /\ thread'[t].handle = thread[t].handle
      BY <2>1, <2>2, <2>3 DEF ThreadRecord
    <3> QED
      BY <2>1, <2>3, <3>1 DEF IInv, AppInv
  <2> QED
    BY <2>1, <2>2, <2>3 DEF IInv, AppInv
<1>3. ReporterInv'
  BY LifecycleAssumption DEF IInv, TypeOK, ReporterInv, InstanceInv, Thread
<1>4. (\A a \in Thread : ThreadInv(a))'
  BY <1>0 DEF IInv, TypeOK, ThreadInv, InstanceInv
<1>5. InstanceInv'
  BY <1>0 DEF IInv, InstanceInv
<1>6. RefCountsHolders'
  BY SameHolders DEF IInv, TypeOK, Thread
<1>7. ThreadHasInstance' /\ CrashNeedsExecutor' /\ DropsOnlyAfterFlush'
  BY <1>0 DEF IInv, TypeOK, ThreadHasInstance, CrashNeedsExecutor, DropsOnlyAfterFlush, Thread
<1> QED
  BY <1>1, <1>2, <1>3, <1>4, <1>5, <1>6, <1>7 DEF IInv

LEMMA UseAfterFreeStep ==
  ASSUME IInv, NEW t \in Thread, UseAfterFree(t)
  PROVE  IInv'
<1> USE DEF UseAfterFree, At, lifeVars, singletonVars, dataVars, outVars
<1>0. Mode' = Mode
  BY DEF Mode
<1>1. TypeOK'
  BY LifecycleAssumption DEF IInv, TypeOK, Where, Thread
<1>2. (\A a \in App : AppInv(a))'
  BY LifecycleAssumption DEF IInv, TypeOK, AppInv, Thread
<1>3. ReporterInv'
  BY LifecycleAssumption DEF IInv, TypeOK, ReporterInv, InstanceInv, Thread
<1>4. (\A a \in Thread : ThreadInv(a))'
  BY <1>0 DEF IInv, TypeOK, ThreadInv, InstanceInv
<1>5. InstanceInv'
  BY <1>0 DEF IInv, InstanceInv
<1>6. RefCountsHolders'
  BY SameHolders DEF IInv, TypeOK, Thread
<1>7. ThreadHasInstance' /\ CrashNeedsExecutor' /\ DropsOnlyAfterFlush'
  <2>1. thread[t].handle \in {0, instance}
    BY LifecycleAssumption DEF IInv, ReporterInv, RefCountsHolders, Holders, Thread
  <2>2. Mode.upload
    BY <2>1 DEF IInv, ThreadInv
  <2> QED
    BY <1>0, <2>2 DEF IInv, ThreadHasInstance, CrashNeedsExecutor, DropsOnlyAfterFlush
<1> QED
  BY <1>1, <1>2, <1>3, <1>4, <1>5, <1>6, <1>7 DEF IInv

LEMMA AddConnectionStep ==
  ASSUME IInv, NEW t \in App, AddConnection(t)
  PROVE  IInv'
<1> USE DEF AddConnection, At, Holds, lifeVars, singletonVars, dataVars, outVars
<1>0. Mode' = Mode
  BY DEF Mode
<1>1. TypeOK'
  BY LifecycleAssumption DEF IInv, TypeOK, Where, Thread
<1>2. (\A a \in App : AppInv(a))'
  BY LifecycleAssumption DEF IInv, TypeOK, AppInv, Thread
<1>3. ReporterInv'
  BY LifecycleAssumption DEF IInv, TypeOK, ReporterInv, InstanceInv, Thread
<1>4. (\A a \in Thread : ThreadInv(a))'
  BY <1>0 DEF IInv, TypeOK, ThreadInv, InstanceInv
<1>5. InstanceInv'
  BY <1>0 DEF IInv, InstanceInv
<1>6. RefCountsHolders'
  BY SameHolders DEF IInv, TypeOK, Thread
<1>7. ThreadHasInstance' /\ CrashNeedsExecutor' /\ DropsOnlyAfterFlush'
  BY <1>0 DEF IInv, TypeOK, ThreadHasInstance, CrashNeedsExecutor, DropsOnlyAfterFlush, Thread
<1> QED
  BY <1>1, <1>2, <1>3, <1>4, <1>5, <1>6, <1>7 DEF IInv

LEMMA NotifyOperationMeasurementStep ==
  ASSUME IInv, NEW t \in App, NotifyOperationMeasurement(t)
  PROVE  IInv'
<1> USE DEF NotifyOperationMeasurement, At, Holds, lifeVars, singletonVars, dataVars, outVars
<1>0. Mode' = Mode
  BY DEF Mode
<1>a. refCnt # 0
  BY NoHolders DEF IInv
<1>1. TypeOK'
  BY LifecycleAssumption DEF IInv, TypeOK, Where, Thread
<1>2. (\A a \in App : AppInv(a))'
  BY LifecycleAssumption DEF IInv, TypeOK, AppInv, Thread
<1>3. ReporterInv'
  BY <1>a DEF IInv, ReporterInv, InstanceInv
<1>4. (\A a \in Thread : ThreadInv(a))'
  BY <1>0 DEF IInv, TypeOK, ThreadInv, InstanceInv
<1>5. InstanceInv'
  BY <1>0, <1>a DEF IInv, InstanceInv
<1>6. RefCountsHolders'
  BY SameHolders DEF IInv, TypeOK, Thread
<1>7. ThreadHasInstance' /\ CrashNeedsExecutor' /\ DropsOnlyAfterFlush'
  BY <1>0 DEF IInv, TypeOK, ThreadHasInstance, CrashNeedsExecutor, DropsOnlyAfterFlush, Thread
<1> QED
  BY <1>1, <1>2, <1>3, <1>4, <1>5, <1>6, <1>7 DEF IInv

LEMMA DeleteConnectionStep ==
  ASSUME IInv, NEW t \in App, DeleteConnection(t)
  PROVE  IInv'
<1> USE DEF DeleteConnection, At, Holds, lifeVars, singletonVars, dataVars, outVars
<1>0. Mode' = Mode
  BY DEF Mode
<1>1. TypeOK'
  BY LifecycleAssumption DEF IInv, TypeOK, Where, Thread
<1>2. (\A a \in App : AppInv(a))'
  BY LifecycleAssumption DEF IInv, TypeOK, AppInv, Thread
<1>3. ReporterInv'
  BY LifecycleAssumption DEF IInv, TypeOK, ReporterInv, InstanceInv, Thread
<1>4. (\A a \in Thread : ThreadInv(a))'
  BY <1>0 DEF IInv, TypeOK, ThreadInv, InstanceInv
<1>5. InstanceInv'
  BY <1>0 DEF IInv, InstanceInv
<1>6. RefCountsHolders'
  BY SameHolders DEF IInv, TypeOK, Thread
<1>7. ThreadHasInstance' /\ CrashNeedsExecutor' /\ DropsOnlyAfterFlush'
  BY <1>0 DEF IInv, TypeOK, ThreadHasInstance, CrashNeedsExecutor, DropsOnlyAfterFlush, Thread
<1> QED
  BY <1>1, <1>2, <1>3, <1>4, <1>5, <1>6, <1>7 DEF IInv

LEMMA CountConnectionsStep ==
  ASSUME IInv, NEW t \in App, CountConnections(t)
  PROVE  IInv'
<1> USE DEF CountConnections, At, Holds, lifeVars, singletonVars, dataVars, outVars
<1>0. Mode' = Mode
  BY DEF Mode
<1>1. TypeOK'
  <2> DEFINE r == [thread[t] EXCEPT !.at = IF connections = {} THEN "lock" ELSE "idle",
                                    !.then = "idle"]
  <2>0. thread \in [Thread -> ThreadRecord] /\ t \in Thread
    BY DEF IInv, TypeOK, Thread, ThreadRecord
  <2>a. r \in ThreadRecord
    BY <2>0 DEF Where, ThreadRecord
  <2>b. thread' = [thread EXCEPT ![t] = r]
    BY <2>0
  <2>1. thread' \in [Thread -> ThreadRecord]
    BY <2>0, <2>a, <2>b
  <2> QED
    BY <2>1 DEF IInv, TypeOK, ThreadRecord
<1>2. (\A a \in App : AppInv(a))'
  BY LifecycleAssumption DEF IInv, TypeOK, AppInv, Thread
<1>3. ReporterInv'
  BY LifecycleAssumption DEF IInv, TypeOK, ReporterInv, InstanceInv, Thread
<1>4. (\A a \in Thread : ThreadInv(a))'
  BY <1>0 DEF IInv, TypeOK, ThreadInv, InstanceInv
<1>5. InstanceInv'
  BY <1>0 DEF IInv, InstanceInv
<1>6. RefCountsHolders'
  BY SameHolders DEF IInv, TypeOK, Thread
<1>7. ThreadHasInstance' /\ CrashNeedsExecutor' /\ DropsOnlyAfterFlush'
  BY <1>0 DEF IInv, TypeOK, ThreadHasInstance, CrashNeedsExecutor, DropsOnlyAfterFlush, Thread
<1> QED
  BY <1>1, <1>2, <1>3, <1>4, <1>5, <1>6, <1>7 DEF IInv

LEMMA DestroyStep ==
  ASSUME IInv, NEW t \in App, Destroy(t)
  PROVE  IInv'
<1> USE DEF Destroy, At, Holds, lifeVars, singletonVars, dataVars, outVars
<1>0. Mode' = Mode
  BY DEF Mode
<1>1. TypeOK'
  <2> DEFINE r == [thread[t] EXCEPT !.at = "lock",
                                    !.then = "drop"]
  <2>0. thread \in [Thread -> ThreadRecord] /\ t \in Thread
    BY DEF IInv, TypeOK, Thread, ThreadRecord
  <2>a. r \in ThreadRecord
    BY <2>0 DEF Where, ThreadRecord
  <2>b. thread' = [thread EXCEPT ![t] = r]
    BY <2>0
  <2>1. thread' \in [Thread -> ThreadRecord]
    BY <2>0, <2>a, <2>b
  <2> QED
    BY <2>1 DEF IInv, TypeOK, ThreadRecord
<1>2. (\A a \in App : AppInv(a))'
  BY LifecycleAssumption DEF IInv, TypeOK, AppInv, Thread
<1>3. ReporterInv'
  BY LifecycleAssumption DEF IInv, TypeOK, ReporterInv, InstanceInv, Thread
<1>4. (\A a \in Thread : ThreadInv(a))'
  BY <1>0 DEF IInv, TypeOK, ThreadInv, InstanceInv
<1>5. InstanceInv'
  BY <1>0 DEF IInv, InstanceInv
<1>6. RefCountsHolders'
  BY SameHolders DEF IInv, TypeOK, Thread
<1>7. ThreadHasInstance' /\ CrashNeedsExecutor' /\ DropsOnlyAfterFlush'
  BY <1>0 DEF IInv, TypeOK, ThreadHasInstance, CrashNeedsExecutor, DropsOnlyAfterFlush, Thread
<1> QED
  BY <1>1, <1>2, <1>3, <1>4, <1>5, <1>6, <1>7 DEF IInv

LEMMA ReportStatsDistributionStep ==
  ASSUME IInv, ReportStatsDistribution
  PROVE  IInv'
<1> USE DEF ReportStatsDistribution, At, lifeVars, singletonVars, dataVars, outVars
<1>0. Mode' = Mode
  BY DEF Mode
<1>1. TypeOK'
  <2> DEFINE r == [thread[Reporter] EXCEPT !.at = "lock",
                                    !.then = IF exitThread THEN "exited" ELSE "loop"]
  <2>0. thread \in [Thread -> ThreadRecord] /\ Reporter \in Thread
    BY DEF IInv, TypeOK, Thread, ThreadRecord
  <2>a. r \in ThreadRecord
    BY <2>0 DEF Where, ThreadRecord
  <2>b. thread' = [thread EXCEPT ![Reporter] = r]
    BY <2>0
  <2>1. thread' \in [Thread -> ThreadRecord]
    BY <2>0, <2>a, <2>b
  <2> QED
    BY <2>1 DEF IInv, TypeOK, ThreadRecord
<1>2. (\A a \in App : AppInv(a))'
  BY LifecycleAssumption DEF IInv, TypeOK, AppInv, Thread
<1>3. ReporterInv'
  BY LifecycleAssumption DEF IInv, TypeOK, ReporterInv, InstanceInv, Thread
<1>4. (\A a \in Thread : ThreadInv(a))'
  BY <1>0 DEF IInv, TypeOK, ThreadInv, InstanceInv
<1>5. InstanceInv'
  BY <1>0 DEF IInv, InstanceInv
<1>6. RefCountsHolders'
  BY SameHolders DEF IInv, TypeOK, Thread
<1>7. ThreadHasInstance' /\ CrashNeedsExecutor' /\ DropsOnlyAfterFlush'
  BY <1>0 DEF IInv, TypeOK, ThreadHasInstance, CrashNeedsExecutor, DropsOnlyAfterFlush, Thread
<1> QED
  BY <1>1, <1>2, <1>3, <1>4, <1>5, <1>6, <1>7 DEF IInv

\* ref_cnt_ counts up and down by one, below its modulus.
LEMMA Counting ==
  ASSUME NEW n \in Nat, n < RefModulus
  PROVE  /\ n + 1 < RefModulus => (n + 1) % RefModulus = n + 1
         /\ n > 0 => (n + RefModulus - 1) % RefModulus = n - 1
<1>1. ASSUME n + 1 < RefModulus
      PROVE  (n + 1) % RefModulus = n + 1
  BY <1>1, LifecycleAssumption
<1>2. ASSUME n > 0
      PROVE  (n + RefModulus - 1) % RefModulus = n - 1
  BY <1>2, LifecycleAssumption
<1> QED
  BY <1>1, <1>2

LEMMA JoinStep ==
  ASSUME IInv, NEW t \in App, At(t, "idle"), thread[t].handle = 0, mx = None,
         NEW map \in Bitmap, Join(t, map)
  PROVE  IInv'
<1> USE DEF Join, At, dataVars, outVars
<1>0. Mode' = Mode
  BY DEF Mode
<1>1. /\ refCnt \in Nat /\ instance # 0
      /\ ~exitThread /\ thread[Reporter].then # "exited"
  <2>1. \E a \in App : thread[a].handle # 0 /\ thread[a].handle = instance
    BY NoHolders DEF IInv, RefCountsHolders, Holders
  <2> QED
    BY <2>1 DEF IInv, TypeOK, InstanceInv, ReporterInv
<1>2. /\ Holders' = Holders \cup {t} /\ t \notin Holders
      /\ \A a \in Holders' : thread'[a].handle = instance
  BY <1>1 DEF IInv, TypeOK, RefCountsHolders, Holders, Thread
<1>3. /\ refCnt' = refCnt + 1
      /\ refCnt' = Cardinality(Holders')
      /\ refCnt' \in 0 .. Cardinality(App)
  <2>1. IsFiniteSet(Holders) /\ IsFiniteSet(Holders')
        /\ Cardinality(Holders') <= Cardinality(App)
    BY LifecycleAssumption, FS_Subset DEF Holders
  <2>2. Cardinality(Holders') = refCnt + 1
    BY <1>2, <2>1, FS_AddElement DEF IInv, RefCountsHolders
  <2>3. Cardinality(App) \in Nat
    BY LifecycleAssumption, FS_CardinalityType
  <2>4. refCnt + 1 < RefModulus
    BY <1>1, <2>1, <2>2, <2>3, LifecycleAssumption
  <2>5. refCnt' = refCnt + 1
    BY <1>1, <2>4, Counting, LifecycleAssumption
  <2> QED
    BY <1>1, <2>1, <2>2, <2>3, <2>5
<1>4. RefCountsHolders'
  BY <1>2, <1>3 DEF RefCountsHolders
<1>5. TypeOK'
  BY <1>3 DEF IInv, TypeOK, Where, Thread
<1>6. (\A a \in App : AppInv(a))'
  BY DEF IInv, TypeOK, AppInv, Thread
<1>7. ReporterInv'
  BY <1>1, LifecycleAssumption DEF IInv, TypeOK, ReporterInv, Thread
<1>8. (\A a \in Thread : ThreadInv(a))'
  BY <1>0 DEF IInv, TypeOK, ThreadInv, Thread
<1>9. InstanceInv'
  BY <1>0, <1>1, <1>3 DEF IInv, InstanceInv
<1>10. ThreadHasInstance' /\ CrashNeedsExecutor' /\ DropsOnlyAfterFlush'
  BY <1>0, <1>1, <1>3, LifecycleAssumption
     DEF IInv, TypeOK, ThreadHasInstance, CrashNeedsExecutor, DropsOnlyAfterFlush, Thread
<1> QED
  BY <1>4, <1>5, <1>6, <1>7, <1>8, <1>9, <1>10 DEF IInv

\* Where nobody holds an instance, every thread is out of it.
LEMMA NobodyInside ==
  ASSUME IInv, refCnt = 0
  PROVE  /\ \A a \in App : /\ thread[a].handle = 0
                           /\ thread[a].at \in {"idle", "free"}
                           /\ thread[a].at = "free" => mx = a
         /\ mx = None => /\ \A a \in App : thread[a].at = "idle"
                         /\ thread[Reporter].at = "none"
                         /\ thread[Reporter].then = "idle"
<1>1. \A a \in App : thread[a].handle = 0
  BY NoHolders DEF IInv
<1> QED
  BY <1>1, LifecycleAssumption DEF IInv, AppInv, ThreadHasInstance, ReporterInv

LEMMA CreateStep ==
  ASSUME IInv, NEW t \in App, At(t, "idle"), thread[t].handle = 0, mx = None,
         NEW map \in Bitmap, Create(t, map)
  PROVE  IInv'
<1> USE DEF At
<1>0. Mode' = Mode
  BY DEF Mode, Create
<1>1. /\ refCnt = 0 /\ created' = created + 1 /\ instance' = created + 1
      /\ created \in Nat /\ created < MaxInstances
      /\ connections' = {} /\ pending' = {} /\ dropped' = {}
      /\ exitThread' = FALSE /\ executor' \in BOOLEAN
      /\ executor' => Mode.upload
      /\ UNCHANGED <<setting, mx, mtx, submitted, batch, onDisk, handed, crashed>>
  BY DEF Create, IInv, TypeOK
<1>2. /\ \A a \in App : thread[a].handle = 0 /\ thread[a].at = "idle"
      /\ thread[Reporter].at = "none" /\ thread[Reporter].then = "idle"
  BY <1>1, NobodyInside
<1>3. CASE thread' = [thread EXCEPT ![t].handle = instance', ![Reporter].at = "loop"]
           /\ refCnt' = 1 /\ bitmap' = map
  <2>1. /\ thread' \in [Thread -> ThreadRecord]
        /\ \A a \in App \ {t} : thread'[a] = thread[a]
        /\ thread'[t] = [thread[t] EXCEPT !.handle = instance']
        /\ thread'[Reporter] = [thread[Reporter] EXCEPT !.at = "loop"]
    <3>1. thread \in [Thread -> ThreadRecord] /\ t \in Thread /\ Reporter \in Thread
          /\ t # Reporter
      BY LifecycleAssumption DEF IInv, TypeOK, Thread, ThreadRecord
    <3> DEFINE r == [thread[t] EXCEPT !.handle = instance']
               l == [thread[Reporter] EXCEPT !.at = "loop"]
    <3>2. r \in ThreadRecord /\ l \in ThreadRecord
      BY <1>1, <3>1, LifecycleAssumption DEF ThreadRecord, Where
    <3>3. thread' = [thread EXCEPT ![t] = r, ![Reporter] = l]
      BY <1>3, <3>1
    <3> HIDE DEF r, l
    <3>4. /\ thread' \in [Thread -> ThreadRecord]
          /\ thread'[t] = r /\ thread'[Reporter] = l
          /\ \A a \in Thread \ {t, Reporter} : thread'[a] = thread[a]
      BY <3>1, <3>2, <3>3
    <3>5. \A a \in App \ {t} : a \in Thread \ {t, Reporter}
      BY LifecycleAssumption DEF Thread
    <3> QED
      BY <3>4, <3>5 DEF r, l
  <2>2. /\ thread'[t].handle = instance' /\ thread'[t].at = "idle"
        /\ thread'[t].then = thread[t].then /\ thread'[t].saw = thread[t].saw
        /\ thread'[Reporter].at = "loop" /\ thread'[Reporter].then = "idle"
        /\ thread'[Reporter].handle = thread[Reporter].handle
        /\ thread'[Reporter].saw = thread[Reporter].saw
    BY <1>2, <2>1 DEF IInv, TypeOK, Thread
  <2>3. Holders' = {t}
    <3>1. instance' # 0
      BY <1>1
    <3>2. thread'[t].handle # 0 /\ \A a \in App \ {t} : thread'[a].handle = 0
      BY <1>2, <2>1, <2>2, <3>1
    <3> QED
      BY <3>2 DEF Holders
  <2>4. RefCountsHolders' /\ refCnt' \in 0 .. Cardinality(App)
    <3>1. Cardinality({t}) = 1
      BY FS_Singleton
    <3>2. Cardinality({t}) <= Cardinality(App) /\ Cardinality(App) \in Nat
      BY LifecycleAssumption, FS_Subset, FS_CardinalityType
    <3> QED
      BY <1>3, <2>2, <2>3, <3>1, <3>2 DEF RefCountsHolders
  <2>5. TypeOK'
    <3>1. instance' \in 0 .. MaxInstances /\ created' \in 0 .. MaxInstances
      BY <1>1, LifecycleAssumption
    <3>2. {executor, exitThread, crashed}' \subseteq BOOLEAN
      BY <1>1 DEF IInv, TypeOK
    <3>3. \A samples \in {submitted, pending, batch, onDisk, handed, dropped}' :
            samples \subseteq Sample
      BY <1>1 DEF IInv, TypeOK
    <3>4. setting' \in Setting /\ mx' \in App \cup {None} /\ mtx' \in Thread \cup {None}
          /\ bitmap' \in Bitmap /\ connections' \subseteq Connection
      BY <1>1, <1>3 DEF IInv, TypeOK
    <3> QED
      BY <2>1, <2>4, <3>1, <3>2, <3>3, <3>4 DEF TypeOK, ThreadRecord
  <2>6. (\A a \in App : AppInv(a))'
    BY <1>2, <2>1, <2>2 DEF IInv, AppInv
  <2>7. ReporterInv'
    BY <1>2, <2>2 DEF IInv, ReporterInv
  <2>8. (\A a \in Thread : ThreadInv(a))'
    BY <1>0, <1>2, <2>1, <2>2 DEF IInv, ThreadInv, Thread
  <2>9. InstanceInv'
    BY <1>0, <1>1, <1>3 DEF IInv, InstanceInv
  <2>10. ThreadHasInstance' /\ CrashNeedsExecutor' /\ DropsOnlyAfterFlush'
    BY <1>0, <1>1, <1>3 DEF IInv, ThreadHasInstance, CrashNeedsExecutor, DropsOnlyAfterFlush
  <2> QED
    BY <2>4, <2>5, <2>6, <2>7, <2>8, <2>9, <2>10 DEF IInv
<1>4. CASE thread' = thread /\ refCnt' = 0 /\ bitmap' = bitmap
  <2>1. RefCountsHolders'
    BY <1>1, <1>2, <1>4 DEF IInv, RefCountsHolders, Holders
  <2>2. TypeOK'
    <3>1. instance' \in 0 .. MaxInstances /\ created' \in 0 .. MaxInstances
      BY <1>1, LifecycleAssumption
    <3>2. {executor, exitThread, crashed}' \subseteq BOOLEAN
      BY <1>1 DEF IInv, TypeOK
    <3>3. \A samples \in {submitted, pending, batch, onDisk, handed, dropped}' :
            samples \subseteq Sample
      BY <1>1 DEF IInv, TypeOK
    <3>4. setting' \in Setting /\ mx' \in App \cup {None} /\ mtx' \in Thread \cup {None}
          /\ bitmap' \in Bitmap /\ connections' \subseteq Connection
          /\ refCnt' \in 0 .. Cardinality(App)
      BY <1>1, <1>4 DEF IInv, TypeOK
    <3>5. thread' \in [Thread -> ThreadRecord]
      BY <1>4 DEF IInv, TypeOK, ThreadRecord
    <3> QED
      BY <3>1, <3>2, <3>3, <3>4, <3>5 DEF TypeOK, ThreadRecord
  <2>3. (\A a \in App : AppInv(a))' /\ ReporterInv'
    BY <1>1, <1>2, <1>4 DEF IInv, AppInv, ReporterInv
  <2>4. (\A a \in Thread : ThreadInv(a))'
    BY <1>0, <1>2, <1>4 DEF IInv, ThreadInv, Thread
  <2>5. InstanceInv'
    BY <1>0, <1>1, <1>4 DEF IInv, InstanceInv
  <2>6. ThreadHasInstance' /\ CrashNeedsExecutor' /\ DropsOnlyAfterFlush'
    BY <1>0, <1>1, <1>2, <1>4 DEF IInv, ThreadHasInstance, CrashNeedsExecutor, DropsOnlyAfterFlush
  <2> QED
    BY <2>1, <2>2, <2>3, <2>4, <2>5, <2>6 DEF IInv
<1> QED
  BY <1>3, <1>4 DEF Create

LEMMA DropInstanceStep ==
  ASSUME IInv, NEW t \in App, DropInstance(t)
  PROVE  IInv'
<1> USE DEF DropInstance, At, dataVars, outVars
<1>0. Mode' = Mode
  BY DEF Mode
<1>1. /\ thread[t].handle # 0 /\ thread[t].handle = instance
      /\ ~executor /\ t \in Thread /\ t # Reporter /\ t # None
  BY LifecycleAssumption DEF IInv, AppInv, RefCountsHolders, Holders, Thread
<1>2. /\ refCnt \in Nat /\ refCnt > 0
      /\ ~exitThread /\ thread[Reporter].then # "exited"
  BY <1>1, NoHolders DEF IInv, TypeOK, InstanceInv, ReporterInv
<1>3. /\ thread' \in [Thread -> ThreadRecord]
      /\ \A a \in Thread \ {t} : thread'[a] = thread[a]
      /\ thread'[t].handle = 0 /\ thread'[t].then = "idle" /\ thread'[t].saw = FALSE
      /\ thread'[t].at = IF refCnt' = 0 THEN "free" ELSE "idle"
  <2>1. thread \in [Thread -> ThreadRecord]
    BY DEF IInv, TypeOK, ThreadRecord
  <2>2. Left(t) \in ThreadRecord
    <3>1. (IF refCnt' = 0 THEN "free" ELSE "idle") \in Where
      BY DEF Where
    <3> QED
      BY <3>1, InitialRecords DEF Left, ThreadRecord
  <2> QED
    BY <1>1, <2>1, <2>2 DEF Left, Idle
<1>4. /\ Holders' = Holders \ {t} /\ t \in Holders
      /\ \A a \in Holders' : thread'[a].handle = instance
  BY <1>1, <1>3 DEF IInv, RefCountsHolders, Holders, Thread
<1>5. RefCountsHolders' /\ refCnt' \in 0 .. Cardinality(App)
  <2>1. IsFiniteSet(Holders) /\ Cardinality(App) \in Nat /\ refCnt < RefModulus
    BY LifecycleAssumption, FS_Subset, FS_CardinalityType DEF IInv, TypeOK, Holders
  <2>2. Cardinality(Holders') = refCnt - 1
    BY <1>4, <2>1, FS_RemoveElement DEF IInv, RefCountsHolders
  <2>3. refCnt' = refCnt - 1
    BY <1>2, <2>1, Counting
  <2>4. refCnt <= Cardinality(App)
    BY DEF IInv, TypeOK
  <2> QED
    BY <1>2, <1>4, <2>1, <2>2, <2>3, <2>4 DEF RefCountsHolders
<1>6. TypeOK'
  BY <1>3, <1>5 DEF IInv, TypeOK, ThreadRecord
<1>7. (\A a \in App : AppInv(a))'
  <2>1. \A a \in App : thread[a].at # "free"
    BY LifecycleAssumption DEF IInv, AppInv
  <2> QED
    BY <1>3, <2>1 DEF IInv, AppInv, Thread
<1>8. ReporterInv'
  BY <1>1, <1>2, <1>3 DEF IInv, ReporterInv, Thread
<1>9. (\A a \in Thread : ThreadInv(a))'
  BY <1>0, <1>3 DEF IInv, ThreadInv
<1>10. InstanceInv'
  BY <1>0, <1>1, <1>2 DEF IInv, InstanceInv
<1>11. ThreadHasInstance' /\ CrashNeedsExecutor' /\ DropsOnlyAfterFlush'
  BY <1>0, <1>1, <1>3
     DEF IInv, ThreadHasInstance, CrashNeedsExecutor, DropsOnlyAfterFlush, Thread
<1> QED
  BY <1>5, <1>6, <1>7, <1>8, <1>9, <1>10, <1>11 DEF IInv

LEMMA FreeInstanceStep ==
  ASSUME IInv, NEW t \in App, FreeInstance(t)
  PROVE  IInv'
<1> USE DEF FreeInstance, At, Joined, outVars
<1>0. Mode' = Mode
  BY DEF Mode
<1>1. /\ mx = t /\ refCnt = 0 /\ pending = {}
      /\ thread[Reporter].at = "exited"
      /\ t \in Thread /\ t # Reporter /\ t # None
  BY LifecycleAssumption DEF IInv, AppInv, InstanceInv, ReporterInv, Thread
<1>2. \A a \in App : /\ thread[a].handle = 0
                     /\ a # t => thread[a].at = "idle"
  BY <1>1, NobodyInside
<1>3. /\ thread' \in [Thread -> ThreadRecord]
      /\ \A a \in App \ {t} : thread'[a] = thread[a]
      /\ thread'[t] = [thread[t] EXCEPT !.at = "idle"]
      /\ thread'[Reporter] = NoThread
  <2>1. thread \in [Thread -> ThreadRecord] /\ Reporter \in Thread
    BY DEF IInv, TypeOK, ThreadRecord, Thread
  <2> DEFINE r == [thread[t] EXCEPT !.at = "idle"]
  <2>2. r \in ThreadRecord
    <3>1. thread[t] \in ThreadRecord /\ "idle" \in Where
      BY <1>1, <2>1 DEF Where
    <3> QED
      BY <3>1 DEF ThreadRecord
  <2>3. thread' = [thread EXCEPT ![t] = r, ![Reporter] = NoThread]
    BY <1>1, <2>1
  <2> HIDE DEF r
  <2>4. /\ thread' \in [Thread -> ThreadRecord]
        /\ thread'[t] = r /\ thread'[Reporter] = NoThread
        /\ \A a \in Thread \ {t, Reporter} : thread'[a] = thread[a]
    BY <1>1, <2>1, <2>2, <2>3, InitialRecords
  <2>5. \A a \in App \ {t} : a \in Thread \ {t, Reporter}
    BY LifecycleAssumption DEF Thread
  <2> QED
    BY <2>4, <2>5 DEF r
<1>4. /\ \A a \in App : thread'[a].handle = 0 /\ thread'[a].at = "idle"
                        /\ thread'[a].then = thread[a].then
      /\ thread'[Reporter].at = "none" /\ thread'[Reporter].then = "idle"
      /\ thread'[Reporter].handle = 0 /\ thread'[Reporter].saw = FALSE
      /\ \A a \in App : thread'[a].saw = thread[a].saw
  <2>1. thread \in [Thread -> ThreadRecord] /\ thread[t] \in ThreadRecord
    BY <1>1 DEF IInv, TypeOK, ThreadRecord
  <2>2. /\ thread'[t].handle = 0 /\ thread'[t].at = "idle"
        /\ thread'[t].then = thread[t].then /\ thread'[t].saw = thread[t].saw
    BY <1>2, <1>3, <2>1 DEF ThreadRecord
  <2>3. /\ NoThread.at = "none" /\ NoThread.then = "idle"
        /\ NoThread.handle = 0 /\ NoThread.saw = FALSE
    BY DEF NoThread, Idle
  <2> QED
    BY <1>2, <1>3, <2>2, <2>3
<1>5. RefCountsHolders'
  BY <1>1, <1>2, <1>4 DEF IInv, RefCountsHolders, Holders
<1>6. TypeOK'
  <2>1. instance' \in 0 .. MaxInstances
    BY LifecycleAssumption
  <2>2. {executor, exitThread, crashed}' \subseteq BOOLEAN
    BY DEF IInv, TypeOK
  <2>3. \A samples \in {submitted, pending, batch, onDisk, handed, dropped}' :
          samples \subseteq Sample
    BY DEF IInv, TypeOK
  <2>4. setting' \in Setting /\ created' \in 0 .. MaxInstances
        /\ refCnt' \in 0 .. Cardinality(App)
        /\ bitmap' \in Bitmap /\ connections' \subseteq Connection
        /\ mx' \in App \cup {None} /\ mtx' \in Thread \cup {None}
    BY DEF IInv, TypeOK
  <2> QED
    BY <1>3, <2>1, <2>2, <2>3, <2>4 DEF TypeOK, ThreadRecord
<1>7. (\A a \in App : AppInv(a))'
  BY <1>4 DEF IInv, AppInv
<1>8. ReporterInv'
  BY <1>4 DEF ReporterInv
<1>9. (\A a \in Thread : ThreadInv(a))'
  BY <1>0, <1>4 DEF IInv, ThreadInv, Thread
<1>10. InstanceInv'
  BY <1>0, <1>1 DEF IInv, InstanceInv
<1>11. ThreadHasInstance' /\ CrashNeedsExecutor' /\ DropsOnlyAfterFlush'
  BY <1>0, <1>4 DEF IInv, ThreadHasInstance, CrashNeedsExecutor, DropsOnlyAfterFlush
<1> QED
  BY <1>5, <1>6, <1>7, <1>8, <1>9, <1>10, <1>11 DEF IInv

-----------------------------------------------------------------------------
(***************************************************************************)
(* The theorems.                                                           *)
(***************************************************************************)

LEMMA Initially ==
  ASSUME Init
  PROVE  IInv
<1> USE DEF Init
<1>1. /\ thread \in [Thread -> ThreadRecord]
      /\ \A a \in App : thread[a] = Idle
      /\ thread[Reporter] = NoThread
  BY InitialRecords, LifecycleAssumption DEF Thread
<1>2. Cardinality(App) \in Nat
  BY LifecycleAssumption, FS_CardinalityType
<1>3. TypeOK
  <2>1. instance \in 0 .. MaxInstances /\ created \in 0 .. MaxInstances
    BY LifecycleAssumption
  <2>2. bitmap \in Bitmap
    BY LifecycleAssumption
  <2>3. refCnt \in 0 .. Cardinality(App)
    BY <1>2
  <2> QED
    BY <1>1, <2>1, <2>2, <2>3 DEF TypeOK, ThreadRecord
<1>4. Holders = {}
  <2>1. Idle.handle = 0
    BY DEF Idle
  <2> QED
    BY <1>1, <2>1 DEF Holders
<1>5. RefCountsHolders
  BY <1>4, FS_EmptySet DEF RefCountsHolders
<1> QED
  BY <1>1, <1>3, <1>5 DEF IInv, AppInv, ReporterInv, ThreadInv, InstanceInv, Idle,
     NoThread, Thread, ThreadHasInstance, CrashNeedsExecutor, DropsOnlyAfterFlush

LEMMA Stuttering ==
  ASSUME IInv, UNCHANGED vars
  PROVE  IInv'
BY DEF IInv, TypeOK, AppInv, ReporterInv, ThreadInv, InstanceInv, RefCountsHolders,
   Holders, ThreadHasInstance, CrashNeedsExecutor, DropsOnlyAfterFlush, Mode, Where,
   vars, lifeVars, singletonVars, dataVars, outVars

LEMMA Inductive ==
  ASSUME IInv, [Next]_vars
  PROVE  IInv'
<1>1. CASE UNCHANGED vars
  BY <1>1, Stuttering
<1>2. ASSUME NEW t \in App, Call(t)
      PROVE  IInv'
  <2>1. CASE GetInstance(t)
    BY <2>1, CreateStep, JoinStep DEF GetInstance
  <2> QED
    BY <1>2, <2>1, AddConnectionStep, NotifyOperationMeasurementStep,
       DeleteConnectionStep, DestroyStep DEF Call
<1>3. ASSUME NEW t \in App, Step(t)
      PROVE  IInv'
  BY <1>3, CountConnectionsStep, DropInstanceStep, FreeInstanceStep DEF Step
<1>4. ASSUME NEW t \in Thread, Report(t)
      PROVE  IInv'
  BY <1>4, LockMtxStep, ShouldReadTelemetryStep, ReadTelemetryStep, UpdateQueueStep,
     TestExecutorStep, ResetExecutorStep, UseAfterFreeStep DEF Report
<1>5. CASE ReportStatsDistribution
  BY <1>5, ReportStatsDistributionStep
<1> QED
  BY <1>1, <1>2, <1>3, <1>4, <1>5 DEF Next

\* The invariant holds of every behaviour of the singleton and its reporter.
THEOREM Invariant == Spec => []IInv
BY Initially, Inductive, PTL DEF Spec

\* The variables keep their ranges; the unsigned count of references never
\* wraps below zero, as dropInstance decrements it without a test.
THEOREM TypeCorrect == Spec => []TypeOK
<1>1. IInv => TypeOK
  BY DEF IInv
<1> QED
  BY <1>1, Invariant, PTL

\* ref_cnt_ is the number of threads that initialised and have not destroyed,
\* and all of them hold the instance there is.
THEOREM CountIsExact == Spec => []RefCountsHolders
<1>1. IInv => RefCountsHolders
  BY DEF IInv
<1> QED
  BY <1>1, Invariant, PTL

\* The reporter thread never outlives its instance.
THEOREM ThreadIsJoined == Spec => []ThreadHasInstance
<1>1. IInv => ThreadHasInstance
  BY DEF IInv
<1> QED
  BY <1>1, Invariant, PTL

\* Where nothing is uploaded, no order of calls uses memory that is gone.
THEOREM NothingToCrashOn == Spec => []CrashNeedsExecutor
<1>1. IInv => CrashNeedsExecutor
  BY DEF IInv
<1> QED
  BY <1>1, Invariant, PTL

\* A report is dropped, handed to no executor, only once a flush has ended the
\* executor.  What an executor refuses is not counted as dropped.
THEOREM NoDropBeforeFlush == Spec => []DropsOnlyAfterFlush
<1>1. IInv => DropsOnlyAfterFlush
  BY DEF IInv
<1> QED
  BY <1>1, Invariant, PTL

\* In a mode that writes to the local disk, every sample submitted is in the
\* file once the instance is gone.
THEOREM DiskIsComplete == Spec => []DiskGetsEverything
<1>1. IInv => DiskGetsEverything
  <2> SUFFICES ASSUME IInv, Mode.writeLocalDisk, instance = 0
               PROVE  submitted \subseteq onDisk
    BY DEF DiskGetsEverything
  <2>1. refCnt = 0 /\ mx = None
    BY NoHolders DEF IInv, RefCountsHolders, Holders, InstanceInv
  <2> QED
    BY <2>1 DEF IInv, InstanceInv
<1> QED
  BY <1>1, Invariant, PTL
-----------------------------------------------------------------------------
(***************************************************************************)
(* Deadlock freedom.  A wait for mx_ leads to a thread that waits for the  *)
(* reporter thread, and that one's wait for mtx_ to a thread that waits for*)
(* nobody; the reporter thread is there whenever someone may join it.      *)
(***************************************************************************)

\* Each mutex is held just where the code says, so that no thread leaves with
\* one; the reporter thread makes no call and is there as long as its instance.
LockInv ==
  /\ \A t \in Thread : mtx = t <=> thread[t].at \in {"ask", "read", "hand"}
  /\ \A t \in App : mx = t => thread[t].at = "free"
  /\ thread[Reporter].at \notin {"idle", "count", "drop", "free"}
  /\ thread[Reporter].at \notin {"none", "loop"} =>
       thread[Reporter].then \in {"loop", "exited"}
  /\ thread[Reporter].at = "none" => refCnt = 0 /\ mx = None

\* The threads' places, as the steps below need them.
LEMMA Threads ==
  ASSUME TypeOK
  PROVE  /\ thread \in [Thread -> ThreadRecord] /\ Reporter \in Thread
         /\ Reporter \notin App /\ App \subseteq Thread
         /\ None \notin Thread /\ \A t \in Thread : t # Reporter => t \in App
BY LifecycleAssumption DEF TypeOK, ThreadRecord, Thread

\* A thread goes from one place to another, keeping mtx_ or not having it.
LEMMA LockInvWalk ==
  ASSUME IInv, LockInv, NEW t \in Thread, UNCHANGED <<mx, mtx, refCnt>>,
         NEW r \in ThreadRecord, thread' = [thread EXCEPT ![t] = r],
         r.at \in {"ask", "read", "hand"} <=> thread[t].at \in {"ask", "read", "hand"},
         thread[t].at # "free",
         t = Reporter => /\ r.at \notin {"idle", "none", "count", "drop", "free"}
                         /\ r.at # "loop" => r.then \in {"loop", "exited"}
  PROVE  LockInv'
<1>1. /\ thread'[t] = r
      /\ \A u \in Thread \ {t} : thread'[u] = thread[u]
  BY Threads DEF IInv
<1>2. (\A u \in Thread : mtx = u <=> thread[u].at \in {"ask", "read", "hand"})'
  BY <1>1 DEF LockInv
<1>3. (\A u \in App : mx = u => thread[u].at = "free")'
  BY <1>1, Threads DEF LockInv, IInv
<1>4. CASE t = Reporter
  BY <1>1, <1>2, <1>3, <1>4 DEF LockInv
<1>5. CASE t # Reporter
  BY <1>1, <1>2, <1>3, <1>5, Threads DEF LockInv, IInv
<1> QED
  BY <1>4, <1>5

\* A thread takes mtx_ or gives it up.
LEMMA LockInvMtx ==
  ASSUME IInv, LockInv, NEW t \in Thread, UNCHANGED <<mx, refCnt>>,
         NEW r \in ThreadRecord, thread' = [thread EXCEPT ![t] = r],
         \/ /\ mtx = None /\ mtx' = t
            /\ r.at \in {"ask", "read", "hand"}
         \/ /\ mtx = t /\ mtx' = None
            /\ r.at \notin {"ask", "read", "hand"},
         thread[t].at # "free",
         t = Reporter => /\ r.at \notin {"idle", "none", "count", "drop", "free"}
                         /\ r.at # "loop" => r.then \in {"loop", "exited"}
  PROVE  LockInv'
<1>1. /\ thread'[t] = r
      /\ \A u \in Thread \ {t} : thread'[u] = thread[u]
  BY Threads DEF IInv
<1>2. (\A u \in Thread : mtx = u <=> thread[u].at \in {"ask", "read", "hand"})'
  BY <1>1, Threads DEF LockInv, IInv
<1>3. (\A u \in App : mx = u => thread[u].at = "free")'
  BY <1>1, Threads DEF LockInv, IInv
<1>4. CASE t = Reporter
  BY <1>1, <1>2, <1>3, <1>4 DEF LockInv
<1>5. CASE t # Reporter
  BY <1>1, <1>2, <1>3, <1>5, Threads DEF LockInv, IInv
<1> QED
  BY <1>4, <1>5

LEMMA LockInvInit == Init => LockInv
<1> SUFFICES ASSUME Init
             PROVE  LockInv
  OBVIOUS
<1>1. /\ \A t \in App : thread[t] = Idle
      /\ thread[Reporter] = NoThread /\ mx = None /\ mtx = None /\ refCnt = 0
  BY LifecycleAssumption DEF Init, Thread
<1>2. Idle.at = "idle" /\ NoThread.at = "none"
  BY DEF Idle, NoThread
<1> QED
  BY <1>1, <1>2, LifecycleAssumption DEF LockInv, Thread

LEMMA LockInvStep ==
  ASSUME IInv, LockInv, [Next]_vars
  PROVE  LockInv'
<1> USE DEF At, lifeVars, singletonVars, dataVars, outVars
<1>0. /\ thread \in [Thread -> ThreadRecord] /\ Reporter \in Thread
      /\ Reporter \notin App /\ App \subseteq Thread
      /\ None \notin Thread /\ \A t \in Thread : t # Reporter => t \in App
  BY Threads DEF IInv
<1>1. CASE UNCHANGED vars
  BY <1>1 DEF vars, LockInv
<1>2. ASSUME NEW t \in App, Call(t)
      PROVE  LockInv'
  <2>1. CASE GetInstance(t)
    <3>1. PICK map \in Bitmap : Create(t, map) \/ Join(t, map)
      BY <2>1 DEF GetInstance
    <3>2. thread[t].at = "idle" /\ mx = None
      BY <2>1 DEF GetInstance
    <3>3. CASE Join(t, map)
      <4>1. /\ \A u \in Thread : /\ thread'[u].at = thread[u].at
                                /\ thread'[u].then = thread[u].then
            /\ UNCHANGED <<mx, mtx>> /\ refCnt # 0
        BY <1>0, <3>3 DEF Join, ThreadRecord
      <4> QED
        BY <1>0, <4>1 DEF LockInv
    <3>4. CASE Create(t, map)
      <4>1. /\ UNCHANGED <<mx, mtx>> /\ refCnt = 0
            /\ \/ thread' = thread /\ refCnt' = 0
               \/ thread' = [thread EXCEPT ![t].handle = instance', ![Reporter].at = "loop"]
        BY <3>4 DEF Create
      <4>2. CASE thread' = thread /\ refCnt' = 0
        BY <4>1, <4>2 DEF LockInv
      <4>3. CASE thread' = [thread EXCEPT ![t].handle = instance', ![Reporter].at = "loop"]
        <5>1. /\ \A u \in App : thread'[u].at = thread[u].at
              /\ thread'[Reporter].at = "loop"
          BY <1>0, <4>3 DEF ThreadRecord
        <5>2. thread[Reporter].at = "none"
          BY <3>2, <4>1, NobodyInside
        <5> QED
          BY <1>0, <4>1, <5>1, <5>2 DEF LockInv
      <4> QED
        BY <4>1, <4>2, <4>3
    <3> QED
      BY <3>1, <3>3, <3>4
  <2>2. CASE AddConnection(t)
    <3>1. /\ \A u \in Thread : /\ thread'[u].at = thread[u].at
                              /\ thread'[u].then = thread[u].then
          /\ UNCHANGED <<mx, mtx, refCnt>>
      BY <1>0, <2>2 DEF AddConnection, ThreadRecord
    <3> QED
      BY <1>0, <3>1 DEF LockInv
  <2>3. CASE NotifyOperationMeasurement(t)
    BY <2>3 DEF NotifyOperationMeasurement, LockInv
  <2>4. CASE DeleteConnection(t)
    <3>1. PICK c : thread' = [thread EXCEPT ![t].conn = @ \ {c}, ![t].at = "count"]
      BY <2>4 DEF DeleteConnection
    <3> DEFINE r == [thread[t] EXCEPT !.conn = @ \ {c}, !.at = "count"]
    <3>2. r \in ThreadRecord /\ r.at = "count"
      BY <1>0 DEF ThreadRecord, Where
    <3>3. thread' = [thread EXCEPT ![t] = r]
      BY <1>0, <3>1
    <3>4. thread[t].at = "idle" /\ UNCHANGED <<mx, mtx, refCnt>>
      BY <2>4 DEF DeleteConnection, Holds
    <3> HIDE DEF r
    <3> QED
      BY <1>0, <3>2, <3>3, <3>4, LockInvWalk
  <2>5. CASE Destroy(t)
    <3> DEFINE r == [thread[t] EXCEPT !.at = "lock", !.then = "drop"]
    <3>2. r \in ThreadRecord /\ r.at = "lock"
      BY <1>0 DEF ThreadRecord, Where
    <3>3. thread' = [thread EXCEPT ![t] = r]
      BY <1>0, <2>5 DEF Destroy
    <3>4. thread[t].at = "idle" /\ UNCHANGED <<mx, mtx, refCnt>>
      BY <2>5 DEF Destroy, Holds
    <3> HIDE DEF r
    <3> QED
      BY <1>0, <3>2, <3>3, <3>4, LockInvWalk
  <2> QED
    BY <1>2, <2>1, <2>2, <2>3, <2>4, <2>5 DEF Call
<1>3. ASSUME NEW t \in App, Step(t)
      PROVE  LockInv'
  <2>1. CASE CountConnections(t)
    <3> DEFINE r == [thread[t] EXCEPT !.at = IF connections = {} THEN "lock" ELSE "idle",
                                      !.then = "idle"]
    <3>2. r \in ThreadRecord /\ r.at \in {"lock", "idle"}
      BY <1>0 DEF ThreadRecord, Where
    <3>3. thread' = [thread EXCEPT ![t] = r]
      BY <1>0, <2>1 DEF CountConnections
    <3>4. thread[t].at = "count" /\ UNCHANGED <<mx, mtx, refCnt>>
      BY <2>1 DEF CountConnections
    <3> HIDE DEF r
    <3> QED
      BY <1>0, <3>2, <3>3, <3>4, LockInvWalk
  <2>2. CASE DropInstance(t)
    <3>1. /\ \A u \in Thread \ {t} : thread'[u] = thread[u]
          /\ thread'[t].at = IF refCnt' = 0 THEN "free" ELSE "idle"
          /\ mx' = IF refCnt' = 0 THEN t ELSE None
          /\ mx = None /\ mtx' = mtx /\ thread[t].at = "drop"
      BY <1>0, <2>2 DEF DropInstance, Left, Idle
    <3>2. refCnt # 0
      <4>1. thread[t].handle # 0
        BY <3>1 DEF IInv, AppInv
      <4> QED
        BY <4>1, NoHolders DEF IInv
    <3>3. thread'[Reporter] = thread[Reporter] /\ thread[Reporter].at # "none"
      BY <1>0, <3>1, <3>2 DEF LockInv
    <3>4. (\A u \in Thread : mtx = u <=> thread[u].at \in {"ask", "read", "hand"})'
      BY <1>0, <3>1 DEF LockInv
    <3>5. (\A u \in App : mx = u => thread[u].at = "free")'
      BY <1>0, <3>1
    <3> QED
      BY <3>3, <3>4, <3>5 DEF LockInv
  <2>3. CASE FreeInstance(t)
    <3>1. thread[t].at = "free" /\ mx = t /\ refCnt = 0 /\ thread[Reporter].at = "exited"
      BY <1>0, <2>3 DEF FreeInstance, Joined, IInv, AppInv, InstanceInv
    <3>2. /\ \A u \in App \ {t} : thread'[u] = thread[u]
          /\ thread'[t].at = "idle"
          /\ thread'[Reporter] = NoThread
          /\ mx' = None /\ UNCHANGED <<mtx, refCnt>>
      BY <1>0, <2>3, <3>1 DEF FreeInstance, ThreadRecord
    <3>3. NoThread.at = "none"
      BY DEF NoThread, Idle
    <3>4. (\A u \in Thread : mtx = u <=> thread[u].at \in {"ask", "read", "hand"})'
      BY <1>0, <3>1, <3>2, <3>3 DEF LockInv
    <3> QED
      BY <1>0, <3>1, <3>2, <3>3, <3>4 DEF LockInv
  <2> QED
    BY <1>3, <2>1, <2>2, <2>3 DEF Step
<1>4. ASSUME NEW t \in Thread, Report(t)
      PROVE  LockInv'
  <2>0. t = Reporter /\ thread[t].at \notin {"none", "loop"} =>
          thread[t].then \in {"loop", "exited"}
    BY DEF LockInv
  <2>1. CASE LockMtx(t)
    <3> DEFINE r == [thread[t] EXCEPT !.at = "ask", !.saw = executor]
    <3>2. r \in ThreadRecord /\ r.at = "ask" /\ r.then = thread[t].then
      BY <1>0 DEF IInv, TypeOK, ThreadRecord, Where
    <3>3. thread' = [thread EXCEPT ![t] = r]
      BY <1>0, <2>1 DEF LockMtx
    <3>4. thread[t].at = "lock" /\ mtx = None /\ mtx' = t /\ UNCHANGED <<mx, refCnt>>
      BY <2>1 DEF LockMtx
    <3> HIDE DEF r
    <3> QED
      BY <2>0, <3>2, <3>3, <3>4, LockInvMtx
  <2>2. ASSUME thread[t].at \in {"ask", "hand"}, Unlock(t), UNCHANGED <<mx, refCnt>>
        PROVE  LockInv'
    <3> DEFINE r == [thread[t] EXCEPT !.saw = FALSE,
                       !.at = IF thread[t].then = "loop" THEN "loop" ELSE "test"]
    <3>2. r \in ThreadRecord /\ r.at \in {"loop", "test"} /\ r.then = thread[t].then
      BY <1>0 DEF ThreadRecord, Where
    <3>3. thread' = [thread EXCEPT ![t] = r]
      BY <1>0, <2>2 DEF Unlock
    <3>4. mtx = t /\ mtx' = None
      BY <2>2 DEF Unlock, LockInv
    <3> HIDE DEF r
    <3> QED
      BY <2>0, <2>2, <3>2, <3>3, <3>4, LockInvMtx
  <2>3. CASE ShouldReadTelemetry(t)
    <3>1. CASE thread[t].saw /\ Unlock(t)
      BY <2>2, <2>3, <3>1 DEF ShouldReadTelemetry
    <3>2. CASE thread' = [thread EXCEPT ![t].at = "read", ![t].saw = FALSE] /\ UNCHANGED mtx
      <4> DEFINE r == [thread[t] EXCEPT !.at = "read", !.saw = FALSE]
      <4>2. r \in ThreadRecord /\ r.at = "read" /\ r.then = thread[t].then
        BY <1>0 DEF ThreadRecord, Where
      <4>3. thread' = [thread EXCEPT ![t] = r]
        BY <1>0, <3>2
      <4>4. thread[t].at = "ask" /\ UNCHANGED <<mx, mtx, refCnt>>
        BY <2>3, <3>2 DEF ShouldReadTelemetry
      <4> HIDE DEF r
      <4> QED
        BY <2>0, <4>2, <4>3, <4>4, LockInvWalk
    <3> QED
      BY <2>3, <3>1, <3>2 DEF ShouldReadTelemetry
  <2>4. CASE ReadTelemetry(t)
    <3> DEFINE r == [thread[t] EXCEPT !.at = "hand", !.saw = executor]
    <3>2. r \in ThreadRecord /\ r.at = "hand" /\ r.then = thread[t].then
      BY <1>0 DEF IInv, TypeOK, ThreadRecord, Where
    <3>3. thread' = [thread EXCEPT ![t] = r]
      BY <1>0, <2>4 DEF ReadTelemetry
    <3>4. thread[t].at = "read" /\ UNCHANGED <<mx, mtx, refCnt>>
      BY <2>4 DEF ReadTelemetry
    <3> HIDE DEF r
    <3> QED
      BY <2>0, <3>2, <3>3, <3>4, LockInvWalk
  <2>5. CASE UpdateQueue(t)
    BY <2>2, <2>5 DEF UpdateQueue
  <2>6. ASSUME thread[t].at \in {"test", "reset"}, UNCHANGED <<mx, mtx, refCnt>>,
               Goto(t, thread[t].then) \/ Goto(t, "reset")
        PROVE  LockInv'
    <3>1. PICK place \in {thread[t].then, "reset"} : Goto(t, place)
      BY <2>6
    <3> DEFINE r == [thread[t] EXCEPT !.at = place]
    <3>2. r \in ThreadRecord /\ r.at = place /\ r.then = thread[t].then
      BY <1>0 DEF ThreadRecord, Where
    <3>3. thread' = [thread EXCEPT ![t] = r]
      BY <1>0, <3>1 DEF Goto
    <3>4. thread[t].then \in {"idle", "drop", "loop", "exited"}
      BY <1>0 DEF ThreadRecord
    <3>5. t = Reporter => thread[t].then \in {"loop", "exited"}
      BY <2>0, <2>6
    <3> HIDE DEF r
    <3> QED
      BY <2>6, <3>2, <3>3, <3>4, <3>5, LockInvWalk
  <2>7. CASE TestExecutor(t)
    BY <2>6, <2>7 DEF TestExecutor
  <2>8. CASE ResetExecutor(t)
    BY <2>6, <2>8 DEF ResetExecutor
  <2>9. CASE UseAfterFree(t)
    BY <2>9 DEF UseAfterFree, LockInv
  <2> QED
    BY <1>4, <2>1, <2>3, <2>4, <2>5, <2>7, <2>8, <2>9 DEF Report
<1>5. CASE ReportStatsDistribution
  <2> DEFINE r == [thread[Reporter] EXCEPT !.at = "lock",
                     !.then = IF exitThread THEN "exited" ELSE "loop"]
  <2>2. r \in ThreadRecord /\ r.at = "lock" /\ r.then \in {"loop", "exited"}
    BY <1>0 DEF ThreadRecord, Where
  <2>3. thread' = [thread EXCEPT ![Reporter] = r]
    BY <1>0, <1>5 DEF ReportStatsDistribution
  <2>4. thread[Reporter].at = "loop" /\ UNCHANGED <<mx, mtx, refCnt>>
    BY <1>5 DEF ReportStatsDistribution
  <2> HIDE DEF r
  <2> QED
    BY <1>0, <2>2, <2>3, <2>4, LockInvWalk
<1> QED
  BY <1>1, <1>2, <1>3, <1>4, <1>5 DEF Next

\* However many threads init, delete connections and destroy at once, no set of
\* them and the reporter thread waits for itself, and nobody waits for a thread
\* that has gone away with a mutex or was never there to be joined.
THEOREM NobodyDeadlocks == Spec => []NoDeadlock
<1>1. ASSUME IInv, LockInv
      PROVE  NoDeadlock
  <2>0. /\ Reporter \in Thread /\ Reporter \notin App /\ App \subseteq Thread
        /\ None \notin Thread /\ \A t \in Thread : t # Reporter => t \in App
    BY <1>1, Threads DEF IInv
  <2>1. ASSUME NEW t \in Thread, NEW u \in Thread, WaitsFor(t, u)
        PROVE  Inside(u)
    <3>1. CASE thread[t].at \in {"count", "drop"} /\ mx = u
      <4>1. u \in App /\ thread[u].at = "free"
        BY <1>1, <2>0, <3>1 DEF LockInv, IInv, TypeOK
      <4> QED
        BY <3>1, <4>1 DEF Inside
    <3>2. CASE thread[t].at = "lock" /\ mtx = u
      <4>1. thread[u].at \in {"ask", "read", "hand"}
        BY <1>1, <3>2 DEF LockInv
      <4> QED
        BY <3>2, <4>1 DEF Inside
    <3>3. CASE thread[t].at = "free" /\ ~Joined /\ u = Reporter
      <4>1. t \in App /\ mx = t
        BY <1>1, <2>0, <3>3 DEF LockInv, IInv, AppInv
      <4>2. thread[u].at \notin {"idle", "none", "free"}
        BY <1>1, <2>0, <3>3, <4>1 DEF LockInv
      <4> QED
        BY <2>0, <3>3, <4>1, <4>2 DEF Inside, Joined
    <3> QED
      BY <2>1, <3>1, <3>2, <3>3 DEF WaitsFor
  <2>2. ASSUME NEW t \in Thread, thread[t].at \notin {"count", "drop", "lock", "free"}
        PROVE  \A u \in Thread : ~WaitsFor(t, u)
    BY <2>2 DEF WaitsFor
  <2>3. ASSUME NEW waiting \in SUBSET Thread, waiting # {}
        PROVE  \E t \in waiting : \A u \in waiting : ~WaitsFor(t, u)
    <3>1. CASE \E t \in waiting : thread[t].at = "lock"
      <4>1. PICK t \in waiting : thread[t].at = "lock"
        BY <3>1
      <4>2. CASE mtx \in waiting
        <5>1. thread[mtx].at \in {"ask", "read", "hand"}
          BY <1>1, <4>2 DEF LockInv
        <5> QED
          BY <2>2, <4>2, <5>1
      <4>3. CASE mtx \notin waiting
        BY <4>1, <4>3 DEF WaitsFor
      <4> QED
        BY <4>2, <4>3
    <3>2. CASE \A t \in waiting : thread[t].at # "lock"
      <4>1. CASE Reporter \in waiting
        <5>1. thread[Reporter].at \notin {"count", "drop", "lock", "free"}
          BY <1>1, <3>2, <4>1 DEF LockInv
        <5> QED
          BY <2>0, <2>2, <4>1, <5>1
      <4>2. CASE Reporter \notin waiting /\ mx \in waiting
        <5>1. thread[mx].at = "free"
          BY <1>1, <2>0, <4>2 DEF LockInv, IInv, TypeOK
        <5> QED
          BY <4>2, <5>1 DEF WaitsFor
      <4>3. CASE Reporter \notin waiting /\ mx \notin waiting
        BY <2>3, <3>2, <4>3 DEF WaitsFor
      <4> QED
        BY <4>1, <4>2, <4>3
    <3> QED
      BY <3>1, <3>2
  <2> QED
    BY <2>1, <2>3 DEF NoDeadlock
<1>2. Init => IInv /\ LockInv
  BY Initially, LockInvInit
<1>3. IInv /\ LockInv /\ [Next]_vars => (IInv /\ LockInv)'
  BY Inductive, LockInvStep
<1>4. Spec => [](IInv /\ LockInv)
  BY <1>2, <1>3, PTL DEF Spec
<1>5. IInv /\ LockInv => NoDeadlock
  BY <1>1
<1> QED
  BY <1>4, <1>5, PTL
=============================================================================
