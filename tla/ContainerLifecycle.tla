------------------------- MODULE ContainerLifecycle -------------------------
(***************************************************************************)
(* NcclStatsContainer and its reference-counted singleton, with the        *)
(* reporter of the current instance: application threads init, add and     *)
(* delete connections and destroy; the reporter thread reads periodically  *)
(* and once more when it is told to exit.  A flush, by an application      *)
(* thread or by the exiting reporter thread, reads a last time and then    *)
(* drops the upload executor, without the mutex its users hold.            *)
(*                                                                         *)
(* The aggregator is the set of connections and the samples not yet read;  *)
(* the executor either is busy or has finished its last upload (see        *)
(* UploaderExecutor, which also shows that dropping it comes to an end).   *)
(* Callers keep to the interface: they destroy what they initialised, once,*)
(* and use a connection before they destroy.                               *)
(***************************************************************************)
EXTENDS ReportMode, FiniteSets

CONSTANTS
  App,         \* application threads
  Reporter,    \* the reporter thread
  None,        \* no holder of a mutex
  Connection, Sample,  \* connections, which may be added again once deleted, and samples
  Bitmap,      \* distribution bitmaps the callers pass
  Setting,     \* an environment and the mode passed to init, see ReportMode
  RefModulus,  \* ref_cnt_ is unsigned, modulo this
  MaxInstances \* bound on the instances created

ASSUME LifecycleAssumption ==
  /\ IsFiniteSet(App)
  /\ Reporter \notin App
  /\ None \notin App \cup {Reporter}
  /\ RefModulus \in Nat /\ Cardinality(App) < RefModulus
  /\ MaxInstances \in Nat /\ Bitmap # {}

Thread == App \cup {Reporter}

VARIABLES
  setting,     \* the environment of the process, and the mode all callers pass
  instance,    \* nccl_stats_container_internal_: its number, or 0 for null
  created,     \* instances created so far
  refCnt,      \* ref_cnt_
  bitmap,      \* distribution_collector_bitmap_
  mx,          \* holder of the singleton's mx_
  mtx,         \* holder of the reporter's mtx_
  executor,    \* upload_executor_ # nullptr
  exitThread,  \* exit_thread_
  thread,      \* where each thread is
  connections, \* connections of the aggregator
  submitted,   \* samples submitted so far
  pending,     \* samples submitted and not yet read
  batch,       \* samples of the report being written, under mtx_
  onDisk, handed, dropped, \* samples written, given to the executor, given up
  crashed      \* memory was used after it was freed

singletonVars == <<setting, created, refCnt, bitmap, mx>>
lifeVars == <<singletonVars, instance, exitThread>>
dataVars == <<connections, submitted, pending>>
outVars == <<batch, onDisk, handed, dropped>>
vars == <<lifeVars, mtx, executor, thread, dataVars, outVars, crashed>>

Mode == DetermineReportMode(setting.env, setting.callerMode)

\* at: the step; then: where a report returns to; handle: the instance an
\* application thread initialised; conn: its connections; saw: whether the
\* thread found upload_executor_ set when it last looked
Idle == [at |-> "idle", then |-> "idle", handle |-> 0, conn |-> {}, saw |-> FALSE]
NoThread == [Idle EXCEPT !.at = "none"]

Init ==
  /\ setting \in Setting
  /\ instance = 0 /\ created = 0 /\ refCnt = 0
  /\ bitmap = CHOOSE map \in Bitmap : TRUE  \* written before it is read
  /\ mx = None /\ mtx = None
  /\ executor = FALSE /\ exitThread = FALSE
  /\ thread = [t \in Thread |-> IF t = Reporter THEN NoThread ELSE Idle]
  /\ connections = {} /\ submitted = {} /\ pending = {}
  /\ batch = {} /\ onDisk = {} /\ handed = {} /\ dropped = {}
  /\ crashed = FALSE

At(t, step) == ~crashed /\ thread[t].at = step
Goto(t, step) == thread' = [thread EXCEPT ![t].at = step]
Holds(t) == At(t, "idle") /\ thread[t].handle # 0

-----------------------------------------------------------------------------
(***************************************************************************)
(* init: getInstance under mx_.                                            *)
(***************************************************************************)
\* the first holder creates the instance, replacing one whose init failed;
\* the log file may fail to open, after the executor was created
Create(t, map) ==
  /\ refCnt = 0 /\ created < MaxInstances
  /\ created' = created + 1 /\ instance' = created + 1
  /\ connections' = {} /\ pending' = {} /\ dropped' = {}
  /\ exitThread' = FALSE
  /\ \E opened \in BOOLEAN :
       LET ok == ~Mode.off /\ (Mode.writeLocalDisk => opened)
       IN  /\ executor' = (Mode.upload /\ ~Mode.off)
           /\ refCnt' = IF ok THEN 1 ELSE 0
           /\ bitmap' = IF ok THEN map ELSE bitmap
           /\ thread' = IF ok
                        THEN [thread EXCEPT ![t].handle = instance',
                                            ![Reporter].at = "loop"]
                        ELSE thread
  /\ UNCHANGED <<setting, mx, mtx, submitted, batch, onDisk, handed, crashed>>

\* mutant: the count is taken before the bitmaps are compared
JoinCountedFirst(t, map) ==
  /\ refCnt # 0
  /\ refCnt' = (refCnt + 1) % RefModulus
  /\ thread' = [thread EXCEPT ![t].handle = IF bitmap = map THEN instance ELSE 0]
  /\ UNCHANGED <<setting, created, instance, bitmap, mx, mtx, executor, exitThread,
                 dataVars, outVars, crashed>>

\* a later holder shares it, if its bitmap is the same
Join(t, map) ==
  /\ refCnt # 0
  /\ bitmap = map
  /\ refCnt' = (refCnt + 1) % RefModulus
  /\ thread' = [thread EXCEPT ![t].handle = instance]
  /\ UNCHANGED <<setting, created, instance, bitmap, mx, mtx, executor, exitThread,
                 dataVars, outVars, crashed>>

GetInstance(t) ==
  /\ At(t, "idle") /\ thread[t].handle = 0
  /\ mx = None
  /\ \E map \in Bitmap : Create(t, map) \/ Join(t, map)

-----------------------------------------------------------------------------
(***************************************************************************)
(* The calls on connections.                                               *)
(***************************************************************************)
AddConnection(t) ==
  /\ Holds(t)
  /\ \E c \in Connection \ connections :
       /\ connections' = connections \cup {c}
       /\ thread' = [thread EXCEPT ![t].conn = @ \cup {c}]
  /\ UNCHANGED <<lifeVars, mtx, executor, submitted, pending, outVars, crashed>>

NotifyOperationMeasurement(t) ==
  /\ Holds(t) /\ thread[t].conn # {}
  /\ \E s \in Sample \ submitted :
       submitted' = submitted \cup {s} /\ pending' = pending \cup {s}
  /\ UNCHANGED <<lifeVars, mtx, executor, thread, connections, outVars, crashed>>

DeleteConnection(t) ==
  /\ Holds(t)
  /\ \E c \in thread[t].conn :
       /\ connections' = connections \ {c}
       /\ thread' = [thread EXCEPT ![t].conn = @ \ {c}, ![t].at = "count"]
  /\ UNCHANGED <<lifeVars, mtx, executor, submitted, pending, outVars, crashed>>

\* getNumberOfConnections, and a flush by whoever finds none left
CountConnections(t) ==
  /\ At(t, "count") /\ mx = None
  /\ thread' = [thread EXCEPT ![t].at = IF connections = {} THEN "lock" ELSE "idle",
                              ![t].then = "idle"]
  /\ UNCHANGED <<lifeVars, mtx, executor, dataVars, outVars, crashed>>

-----------------------------------------------------------------------------
(***************************************************************************)
(* readAndReportTelemetry, and flushTelemetry around it.                   *)
(***************************************************************************)
LockMtx(t) ==
  /\ At(t, "lock")
  /\ mtx = None
  /\ mtx' = t
  /\ thread' = [thread EXCEPT ![t].at = "ask", ![t].saw = executor]
  /\ UNCHANGED <<lifeVars, executor, dataVars, outVars, crashed>>

\* a flush goes on to drop the executor, a periodic report does not
Unlock(t) ==
  /\ mtx' = None
  /\ thread' = [thread EXCEPT ![t].saw = FALSE,
       ![t].at = IF thread[t].then = "loop" THEN "loop" ELSE "test"]

\* ShouldReadTelemetry: an executor that is still uploading ends the report
ShouldReadTelemetry(t) ==
  /\ At(t, "ask") /\ (thread[t].saw => executor)
  /\ \/ thread' = [thread EXCEPT ![t].at = "read", ![t].saw = FALSE] /\ UNCHANGED mtx
     \/ thread[t].saw /\ Unlock(t)
  /\ UNCHANGED <<lifeVars, executor, dataVars, outVars, crashed>>

\* mutant: the executor is not looked at again after the reading
ReadTelemetryOnly(t) ==
  /\ At(t, "read")
  /\ pending' = {} /\ batch' = pending
  /\ onDisk' = IF Mode.writeLocalDisk THEN onDisk \cup pending ELSE onDisk
  /\ thread' = [thread EXCEPT ![t].at = "hand"]
  /\ UNCHANGED <<lifeVars, mtx, executor, connections, submitted, handed, dropped, crashed>>

ReadTelemetry(t) ==
  /\ At(t, "read")
  /\ pending' = {} /\ batch' = pending
  /\ onDisk' = IF Mode.writeLocalDisk THEN onDisk \cup pending ELSE onDisk
  /\ thread' = [thread EXCEPT ![t].at = "hand", ![t].saw = executor]
  /\ UNCHANGED <<lifeVars, mtx, executor, connections, submitted, handed, dropped, crashed>>

\* UpdateQueue if there is an executor.  A report that it refuses, because its
\* uploader is dead or it is closing, counts as handed over: whether it refuses
\* is UploaderExecutor's matter (RefusedOnlyWhenClosing).
UpdateQueue(t) ==
  /\ At(t, "hand") /\ (thread[t].saw => executor)
  /\ handed' = IF thread[t].saw THEN handed \cup batch ELSE handed
  /\ dropped' = IF thread[t].saw \/ Mode.writeLocalDisk THEN dropped
                ELSE dropped \cup batch
  /\ batch' = {}
  /\ Unlock(t)
  /\ UNCHANGED <<lifeVars, executor, dataVars, onDisk, crashed>>

\* mtx_ is not held here
TestExecutor(t) ==
  /\ At(t, "test")
  /\ Goto(t, IF executor THEN "reset" ELSE thread[t].then)
  /\ UNCHANGED <<lifeVars, mtx, executor, dataVars, outVars, crashed>>

ResetExecutor(t) ==
  /\ At(t, "reset")
  /\ executor' = FALSE
  /\ Goto(t, thread[t].then)
  /\ UNCHANGED <<lifeVars, mtx, dataVars, outVars, crashed>>

\* A thread that found the executor set goes on using it, or drops it too,
\* after another flush has dropped it; or it uses an instance that is gone.
UseAfterFree(t) ==
  /\ ~crashed
  /\ \/ thread[t].at \in {"ask", "hand"} /\ thread[t].saw /\ ~executor
     \/ thread[t].at = "reset" /\ ~executor
     \/ thread[t].handle \notin {0, instance} /\ thread[t].at # "idle"
  /\ crashed' = TRUE
  /\ UNCHANGED <<lifeVars, mtx, executor, thread, dataVars, outVars>>

Report(t) ==
  LockMtx(t) \/ ShouldReadTelemetry(t) \/ ReadTelemetry(t) \/ UpdateQueue(t)
    \/ TestExecutor(t) \/ ResetExecutor(t) \/ UseAfterFree(t)

-----------------------------------------------------------------------------
(***************************************************************************)
(* destroy: a flush, then dropInstance under mx_.                          *)
(***************************************************************************)
\* mutant: mx_ is taken before the flush, and again by dropInstance
DestroyLocked(t) ==
  /\ Holds(t) /\ mx = None
  /\ mx' = t
  /\ thread' = [thread EXCEPT ![t].at = "lock", ![t].then = "drop"]
  /\ UNCHANGED <<setting, created, refCnt, bitmap, instance, exitThread, mtx, executor,
                 dataVars, outVars, crashed>>

Destroy(t) ==
  /\ Holds(t) /\ mx = None
  /\ thread' = [thread EXCEPT ![t].at = "lock", ![t].then = "drop"]
  /\ UNCHANGED <<lifeVars, mtx, executor, dataVars, outVars, crashed>>

Left(t) == [Idle EXCEPT !.at = IF refCnt' = 0 THEN "free" ELSE "idle"]

\* mutant: the instance goes with the first of two holders
DropInstanceEarly(t) ==
  /\ At(t, "drop") /\ mx = None
  /\ refCnt' = (refCnt + RefModulus - 1) % RefModulus
  /\ exitThread' = (refCnt' <= 1)
  /\ mx' = IF refCnt' <= 1 THEN t ELSE None
  /\ thread' = [thread EXCEPT ![t] =
                  [Idle EXCEPT !.at = IF refCnt' <= 1 THEN "free" ELSE "idle"]]
  /\ UNCHANGED <<setting, created, bitmap, instance, mtx, executor, dataVars,
                 outVars, crashed>>

\* the last holder keeps mx_ and tells the reporter thread to exit
DropInstance(t) ==
  /\ At(t, "drop") /\ mx = None
  /\ refCnt' = (refCnt + RefModulus - 1) % RefModulus
  /\ exitThread' = (refCnt' = 0)
  /\ mx' = IF refCnt' = 0 THEN t ELSE None
  /\ thread' = [thread EXCEPT ![t] = Left(t)]
  /\ UNCHANGED <<setting, created, bitmap, instance, mtx, executor, dataVars,
                 outVars, crashed>>

\* mutant: the thread is not joined
Unjoined == TRUE

Joined == thread[Reporter].at = "exited"

\* clean has joined the thread; the reporter, then the aggregator go
FreeInstance(t) ==
  /\ At(t, "free") /\ Joined
  /\ instance' = 0 /\ executor' = FALSE /\ mx' = None
  /\ connections' = {} /\ pending' = {}
  /\ thread' = [thread EXCEPT ![t].at = "idle",
                  ![Reporter] = IF @.at = "exited" THEN NoThread ELSE @]
  /\ UNCHANGED <<setting, created, refCnt, bitmap, mtx, exitThread, submitted, outVars,
                 crashed>>

-----------------------------------------------------------------------------
(***************************************************************************)
(* The reporter thread.                                                    *)
(***************************************************************************)
\* mutant: it leaves without a last flush
LoopOnly ==
  /\ At(Reporter, "loop")
  /\ thread' = [thread EXCEPT ![Reporter].at = IF exitThread THEN "exited" ELSE "lock",
                              ![Reporter].then = "loop"]
  /\ UNCHANGED <<lifeVars, mtx, executor, dataVars, outVars, crashed>>

\* mutant: the wait does not end when the thread is told to exit
LoopUnnotified ==
  /\ At(Reporter, "loop") /\ ~exitThread
  /\ thread' = [thread EXCEPT ![Reporter].at = "lock", ![Reporter].then = "loop"]
  /\ UNCHANGED <<lifeVars, mtx, executor, dataVars, outVars, crashed>>

\* the timer of the read callback is due, or the loop ends in a flush
ReportStatsDistribution ==
  /\ At(Reporter, "loop")
  /\ thread' = [thread EXCEPT ![Reporter].at = "lock",
                              ![Reporter].then = IF exitThread THEN "exited" ELSE "loop"]
  /\ UNCHANGED <<lifeVars, mtx, executor, dataVars, outVars, crashed>>

Call(t) ==
  GetInstance(t) \/ AddConnection(t) \/ NotifyOperationMeasurement(t)
    \/ DeleteConnection(t) \/ Destroy(t)

Step(t) == CountConnections(t) \/ DropInstance(t) \/ FreeInstance(t)

Next ==
  \/ \E t \in App : Call(t) \/ Step(t)
  \/ \E t \in Thread : Report(t)
  \/ ReportStatsDistribution

Spec == Init /\ [][Next]_vars

(***************************************************************************)
(* A thread that can go on does; one that waits for mtx_ gets it in the    *)
(* end, as the mutex queues its waiters.  No call need ever be made.       *)
(***************************************************************************)
FairSpec ==
  /\ Spec
  /\ \A t \in App : WF_vars(Step(t))
  /\ \A t \in Thread : WF_vars(Report(t)) /\ SF_vars(LockMtx(t))
  /\ WF_vars(ReportStatsDistribution)

-----------------------------------------------------------------------------
Where == {"idle", "none", "count", "lock", "ask", "read", "hand", "test", "reset",
          "drop", "free", "loop", "exited"}

\* The variables keep their ranges; the count of holders does not wrap below
\* zero (dropInstance decrements it without a test).
TypeOK ==
  /\ setting \in Setting
  /\ instance \in 0 .. MaxInstances /\ created \in 0 .. MaxInstances
  /\ refCnt \in 0 .. Cardinality(App)
  /\ bitmap \in Bitmap
  /\ mx \in App \cup {None} /\ mtx \in Thread \cup {None}
  /\ {executor, exitThread, crashed} \subseteq BOOLEAN
  /\ thread \in [Thread -> [at : Where, then : {"idle", "drop", "loop", "exited"},
                            handle : 0 .. MaxInstances,
                            conn : SUBSET Connection, saw : BOOLEAN]]
  /\ connections \subseteq Connection
  /\ \A samples \in {submitted, pending, batch, onDisk, handed, dropped} : samples \subseteq Sample

Holders == {t \in App : thread[t].handle # 0}

\* The reference count is the number of holders, and all of them hold the one
\* instance there is: init, destroy and failed inits in any interleaving
\* neither leak the instance nor free it under a holder.
RefCountsHolders ==
  /\ refCnt = Cardinality(Holders)
  /\ \A t \in Holders : thread[t].handle = instance

\* Where a histogram is written to the local disk, everything submitted is on
\* the disk once the instance is gone, although the last holder's flush reads
\* nothing while an upload is in progress and other holders flushed before.
DiskGetsEverything ==
  Mode.writeLocalDisk /\ instance = 0 => submitted \subseteq onDisk

\* The reporter thread runs only for the instance that started it: it is joined
\* before the instance is freed or replaced.
ThreadHasInstance ==
  thread[Reporter].at # "none" => instance # 0 /\ (refCnt # 0 \/ mx # None)

\* Dropping the executor without mtx_ is a use after free only where there is
\* an executor: with nothing to upload, no order of init, report, flush and
\* destroy touches memory that is gone.
CrashNeedsExecutor == crashed => Mode.upload

\* In upload-only mode no report goes past an executor that is there: one is
\* dropped, handed to nobody, only after a flush has ended the executor.  What
\* an executor refuses is not counted as dropped.
DropsOnlyAfterFlush == executor => dropped = {}

\* Who waits for whom: for the holder of a mutex, which is not recursive, or in
\* clean for the reporter thread; and who is on its way through some code.
WaitsFor(t, u) ==
  \/ thread[t].at \in {"count", "drop"} /\ mx = u
  \/ thread[t].at = "lock" /\ mtx = u
  \/ thread[t].at = "free" /\ ~Joined /\ u = Reporter

Inside(t) == thread[t].at \notin {"idle", "none", "exited"}

\* The last holder joins the reporter thread under mx_ while others wait for
\* mx_, and the thread it joins waits for mtx_: even so no threads wait for each
\* other, nor does one wait for a thread that has left without unlocking, or for
\* itself.
NoDeadlock ==
  /\ \A t, u \in Thread : WaitsFor(t, u) => Inside(u)
  /\ \A waiting \in SUBSET Thread :
       waiting # {} => \E t \in waiting : \A u \in waiting : ~WaitsFor(t, u)

\* Every deleteConnection and destroy returns: nobody waits forever for mx_,
\* for mtx_ or for the reporter thread.
CallsReturn ==
  \A t \in App : (thread[t].at # "idle") ~> (thread[t].at = "idle" \/ crashed)

\* nccl_stats.h: "Write on local disk only" - a caller that passes this mode,
\* in an environment that says nothing, uploads nothing.
LocalDiskModeStaysLocal ==
  setting.callerMode = kWriteOnLocalDiskOnly /\ setting.env.mode = <<>>
    /\ setting.env.netMode = <<>> => handed = {}
=============================================================================
