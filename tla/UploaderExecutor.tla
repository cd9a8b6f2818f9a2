-------------------------- MODULE UploaderExecutor --------------------------
(***************************************************************************)
(* NcclStatsUploaderExecutor: the reporting path hands it one telemetry    *)
(* message at a time, which it splits into indexed chunks; a thread of its *)
(* own uploads the chunks one by one, retrying, until Shutdown or until the*)
(* uploader gives up.  During an upload the chunk is out of the queue and  *)
(* its slot at the front holds a null pointer.                             *)
(*                                                                         *)
(* There is one caller: the reporter makes its calls under its own mutex,  *)
(* and destroys the executor after the last of them.  UploadFinished and   *)
(* the split are one step: what UploadFinished found true stays true until *)
(* the caller itself fills the queue.                                      *)
(***************************************************************************)
EXTENDS NcclUploader, Integers, Sequences

CONSTANTS
  MaxBatches,  \* bound on the telemetry messages the caller hands over
  MaxChunks    \* bound on the chunks one message is split into

ASSUME BatchAssumption == MaxBatches \in Nat /\ MaxChunks \in Nat \ {0}

Null == [index |-> 0]           \* a null unique_ptr; indices start at 1 here
NoIndex == [index |-> -1]       \* a message without an upload_index

VARIABLES
  present,   \* uploader_ # nullptr
  up,        \* state of the uploader
  queue,     \* q_
  index,     \* index_: the next upload_index
  lastUploadSuccess,  \* last_upload_success_
  shutdown,  \* shutdown_
  worker,    \* where the uploader thread is
  held,      \* its local message m
  result,    \* whether its last Upload succeeded
  caller,    \* where the reporting path is
  fresh,     \* the chunks it has split and not yet queued
  batches,   \* telemetry messages handed over so far
  rejected,  \* whether UpdateQueue refused the last one
  sent,      \* what was passed to the client: <<message, shutdown entry added>>
  acked      \* chunks whose Upload returned ok, in order

uploaderVars == <<present, up>>
workerVars == <<worker, held, result>>
callerVars == <<caller, fresh, batches, rejected>>
historyVars == <<sent, acked>>
vars == <<uploaderVars, queue, index, lastUploadSuccess, shutdown, workerVars,
          callerVars, historyVars>>

Init ==
  /\ present = TRUE
  /\ up = UploaderInit
  /\ queue = <<>>
  /\ index = 1
  /\ lastUploadSuccess = TRUE /\ shutdown = FALSE
  /\ worker = "start" /\ held = Null /\ result = TRUE
  /\ caller = "idle" /\ fresh = <<>> /\ batches = 0 /\ rejected = FALSE
  /\ sent = {} /\ acked = <<>>

UploaderGone == ~present \/ up.dead

-----------------------------------------------------------------------------
(***************************************************************************)
(* The caller.                                                             *)
(***************************************************************************)
\* mutant: the caller does not ask
UploadFinishedUnasked == TRUE

UploadFinished == UploaderGone \/ shutdown \/ queue = <<>>

\* readAndReportTelemetry up to UpdateQueue, which splits the message before
\* it takes mtx_, spending an index on every chunk.  Its test for a null
\* uploader cannot fire: the uploader is dropped by the destructor only.
SplitBatch ==
  /\ caller = "idle"
  /\ UploadFinished
  /\ batches < MaxBatches
  /\ batches' = batches + 1
  /\ caller' = "enqueue"
  /\ \E n \in 1 .. MaxChunks :
       /\ fresh' = [i \in 1 .. n |-> [index |-> index + i - 1]]
       /\ index' = index + n
  /\ UNCHANGED <<uploaderVars, queue, lastUploadSuccess, shutdown, workerVars,
                 rejected, historyVars>>

\* mutant: the new chunks overwrite whatever is queued
EnqueueOver ==
  /\ caller = "enqueue"
  /\ queue' = fresh
  /\ rejected' = FALSE
  /\ fresh' = <<>>
  /\ caller' = "idle"
  /\ UNCHANGED <<uploaderVars, index, lastUploadSuccess, shutdown, workerVars,
                 batches, historyVars>>

\* the rest of UpdateQueue, under mtx_
Enqueue ==
  /\ caller = "enqueue"
  /\ queue' = IF queue = <<>> THEN fresh ELSE queue
  /\ rejected' = (queue # <<>>)
  /\ fresh' = <<>>
  /\ caller' = "idle"
  /\ UNCHANGED <<uploaderVars, index, lastUploadSuccess, shutdown, workerVars,
                 batches, historyVars>>

\* the destructor: raise the flag, wait for the thread, drop the uploader
Shutdown ==
  /\ caller = "idle"
  /\ shutdown' = TRUE
  /\ caller' = "join"
  /\ UNCHANGED <<uploaderVars, queue, index, lastUploadSuccess, workerVars, fresh,
                 batches, rejected, historyVars>>

Join ==
  /\ caller = "join"
  /\ worker = "exited"
  /\ present' = FALSE
  /\ caller' = "gone"
  /\ UNCHANGED <<up, queue, index, lastUploadSuccess, shutdown, workerVars, fresh,
                 batches, rejected, historyVars>>

-----------------------------------------------------------------------------
(***************************************************************************)
(* The uploader thread.                                                    *)
(***************************************************************************)
Goto(from, to) == worker = from /\ worker' = to

Start ==
  /\ Goto("start", IF UploaderGone THEN "wrapUp" ELSE "waitForWork")
  /\ UNCHANGED <<uploaderVars, queue, index, lastUploadSuccess, shutdown, held,
                 result, callerVars, historyVars>>

\* mutant: asleep on an empty queue, the thread does not see the shutdown
WaitForWorkOnly ==
  /\ queue # <<>>
  /\ Goto("waitForWork", IF shutdown THEN "wrapUp" ELSE "waitForTimeout")
  /\ UNCHANGED <<uploaderVars, queue, index, lastUploadSuccess, shutdown, held,
                 result, callerVars, historyVars>>

WaitForWorkOrShutdown ==
  /\ shutdown \/ queue # <<>>
  /\ Goto("waitForWork", IF shutdown THEN "wrapUp" ELSE "waitForTimeout")
  /\ UNCHANGED <<uploaderVars, queue, index, lastUploadSuccess, shutdown, held,
                 result, callerVars, historyVars>>

\* mutant: woken up by the shutdown, the thread makes its attempt first
WaitForTimeoutAnyway ==
  /\ shutdown \/ up.due = "past"
  /\ Goto("waitForTimeout", "take")
  /\ UNCHANGED <<uploaderVars, queue, index, lastUploadSuccess, shutdown, held,
                 result, callerVars, historyVars>>

WaitForTimeoutOrShutdown ==
  /\ shutdown \/ up.due = "past"
  /\ Goto("waitForTimeout", IF shutdown THEN "wrapUp" ELSE "take")
  /\ UNCHANGED <<uploaderVars, queue, index, lastUploadSuccess, shutdown, held,
                 result, callerVars, historyVars>>

\* mutant: the front is popped before its upload is known to succeed
PopFront ==
  /\ held' = Head(queue)
  /\ queue' = Tail(queue)

TakeFront ==
  /\ held' = Head(queue)
  /\ queue' = <<Null>> \o Tail(queue)

Take ==
  /\ Goto("take", "upload")
  /\ TakeFront
  /\ UNCHANGED <<uploaderVars, index, lastUploadSuccess, shutdown, result,
                 callerVars, historyVars>>

\* Upload returns: the outcomes are the uploader's, "entry" says whether the
\* shutdown log entry was added to the message
CallUpload(ignoreNextExecuteTime, entry) ==
  \E r \in Upload(up, ignoreNextExecuteTime) :
    /\ up' = r.up
    /\ result' = r.ok
    /\ sent' = IF r.sent THEN sent \cup {<<held, entry>>} ELSE sent
    /\ acked' = IF r.ok /\ held # NoIndex THEN Append(acked, held) ELSE acked

UploadFront ==
  /\ Goto("upload", "settle")
  /\ CallUpload(FALSE, FALSE)
  /\ UNCHANGED <<present, queue, index, lastUploadSuccess, shutdown, held,
                 callerVars>>

\* mutant: the slot is popped and the failed message dropped
SettleDropping ==
  /\ Goto("settle", IF ~result /\ up.dead THEN "giveUp" ELSE "waitForWork")
  /\ queue' = Tail(queue)
  /\ lastUploadSuccess' = result
  /\ held' = Null
  /\ UNCHANGED <<uploaderVars, index, shutdown, result, callerVars, historyVars>>

\* mutant: the slot of an uploaded message is not popped
SettleUnpopped ==
  /\ Goto("settle", IF ~result /\ up.dead THEN "giveUp" ELSE "waitForWork")
  /\ queue' = IF result THEN queue ELSE <<held>> \o Tail(queue)
  /\ lastUploadSuccess' = result
  /\ held' = Null
  /\ UNCHANGED <<uploaderVars, index, shutdown, result, callerVars, historyVars>>

\* mutant: a failed message is queued again behind the others
SettleRequeued ==
  /\ Goto("settle", IF ~result /\ up.dead THEN "giveUp" ELSE "waitForWork")
  /\ queue' = IF result THEN Tail(queue) ELSE Append(Tail(queue), held)
  /\ lastUploadSuccess' = result
  /\ held' = Null
  /\ UNCHANGED <<uploaderVars, index, shutdown, result, callerVars, historyVars>>

\* under mtx_: pop the slot, or put the message back
Settle ==
  /\ Goto("settle", IF ~result /\ up.dead THEN "giveUp" ELSE "waitForWork")
  /\ queue' = IF result THEN Tail(queue) ELSE <<held>> \o Tail(queue)
  /\ lastUploadSuccess' = result
  /\ held' = Null
  /\ UNCHANGED <<uploaderVars, index, shutdown, result, callerVars, historyVars>>

\* under mtx_ again: a dead uploader ends the thread
GiveUp ==
  /\ Goto("giveUp", "wrapUp")
  /\ shutdown' = TRUE
  /\ UNCHANGED <<uploaderVars, queue, index, lastUploadSuccess, held, result,
                 callerVars, historyVars>>

(***************************************************************************)
(* UploadAndCleanupRemainingTelemetryOnShutdown, on every way out of the   *)
(* thread: if the last upload succeeded, one more attempt, with the front  *)
(* chunk or with an empty message, and the queue is dropped.               *)
(***************************************************************************)
\* mutant: a last attempt even after a failed one
WrapUpAnyway ==
  /\ IF UploaderGone
     THEN Goto("wrapUp", "exited") /\ queue' = <<>>
     ELSE Goto("wrapUp", "takeLast") /\ UNCHANGED queue
  /\ UNCHANGED <<uploaderVars, index, lastUploadSuccess, shutdown, held, result,
                 callerVars, historyVars>>

WrapUp ==
  /\ IF ~lastUploadSuccess \/ UploaderGone
     THEN Goto("wrapUp", "exited") /\ queue' = <<>>
     ELSE Goto("wrapUp", "takeLast") /\ UNCHANGED queue
  /\ UNCHANGED <<uploaderVars, index, lastUploadSuccess, shutdown, held, result,
                 callerVars, historyVars>>

TakeLast ==
  /\ Goto("takeLast", "uploadLast")
  /\ IF queue # <<>> THEN TakeFront
     ELSE held' = NoIndex /\ UNCHANGED queue
  /\ UNCHANGED <<uploaderVars, index, lastUploadSuccess, shutdown, result,
                 callerVars, historyVars>>

UploadLast ==
  /\ Goto("uploadLast", "cleanUp")
  /\ CallUpload(TRUE, TRUE)
  /\ UNCHANGED <<present, queue, index, lastUploadSuccess, shutdown, held,
                 callerVars>>

CleanUp ==
  /\ Goto("cleanUp", "exited")
  /\ queue' = <<>>
  /\ held' = Null
  /\ UNCHANGED <<uploaderVars, index, lastUploadSuccess, shutdown, result,
                 callerVars, historyVars>>

-----------------------------------------------------------------------------
Elapse ==
  /\ up' = TimePasses(up)
  /\ UNCHANGED <<present, queue, index, lastUploadSuccess, shutdown, workerVars,
                 callerVars, historyVars>>

LoseClient ==
  /\ up' = ClientDies(up)
  /\ UNCHANGED <<present, queue, index, lastUploadSuccess, shutdown, workerVars,
                 callerVars, historyVars>>

Worker ==
  \/ Start \/ WaitForWorkOrShutdown \/ WaitForTimeoutOrShutdown \/ Take
  \/ UploadFront \/ Settle \/ GiveUp
  \/ WrapUp \/ TakeLast \/ UploadLast \/ CleanUp

Caller == SplitBatch \/ Enqueue \/ Shutdown \/ Join

Next == Worker \/ Caller \/ Elapse \/ LoseClient

Spec == Init /\ [][Next]_vars

(***************************************************************************)
(* The threads keep running and a blocking send returns.  The caller need  *)
(* not come back, nor ever destroy the executor, but once it has entered   *)
(* UpdateQueue or the destructor it goes on.  The server is reachable often*)
(* enough that an upload tried again and again succeeds at last.           *)
(***************************************************************************)
Fairness ==
  /\ WF_vars(Worker)
  /\ WF_vars(Enqueue \/ Join)
  /\ WF_vars(Elapse)
  /\ SF_vars(UploadFront /\ result')

FairSpec == Spec /\ Fairness

-----------------------------------------------------------------------------
\* The type invariant.
Chunk == [index : Nat \ {0}]

TypeOK ==
  /\ present \in BOOLEAN
  /\ up \in Uploader
  /\ queue \in Seq(Chunk \cup {Null})
  /\ index \in Nat \ {0}
  /\ lastUploadSuccess \in BOOLEAN /\ shutdown \in BOOLEAN
  /\ result \in BOOLEAN /\ rejected \in BOOLEAN
  /\ worker \in {"start", "waitForWork", "waitForTimeout", "take", "upload",
                 "settle", "giveUp", "wrapUp", "takeLast", "uploadLast",
                 "cleanUp", "exited"}
  /\ held \in Chunk \cup {Null, NoIndex}
  /\ caller \in {"idle", "enqueue", "join", "gone"}
  /\ fresh \in Seq(Chunk)
  /\ batches \in 0 .. MaxBatches
  /\ sent \subseteq (Chunk \cup {NoIndex}) \X BOOLEAN
  /\ acked \in Seq(Chunk)

(***************************************************************************)
(* The null slot that RunUploadExecutor leaves in q_ while mtx_ is released*)
(* for the upload is at the front, there just as long as the thread holds  *)
(* the message that belongs in it, and nowhere else: so front(), pop() and *)
(* *m never meet an empty queue or a null pointer, whatever UpdateQueue has*)
(* done to the queue in between.                                           *)
(***************************************************************************)
Uploading == worker \in {"upload", "settle"}
LastChunkOut == worker \in {"uploadLast", "cleanUp"}

FrontHole ==
  /\ Uploading => queue # <<>> /\ held \in Chunk
  /\ LastChunkOut => held # Null
  /\ worker = "take" => queue # <<>>
  /\ \A i \in DOMAIN queue :
       queue[i] = Null <=> i = 1 /\ (Uploading \/ LastChunkOut)

(***************************************************************************)
(* UpdateQueue asks the uploader for its message size without a lock, and  *)
(* the uploader is not thread-safe (it reads client_, which Upload         *)
(* replaces): the caller gets there only while no Upload is running.       *)
(***************************************************************************)
UploaderExclusive ==
  caller = "idle" /\ present /\ UploadFinished
    => worker \notin {"upload", "uploadLast"}

(***************************************************************************)
(* "source_process_identifier + upload_index would be an unique identifier *)
(* for each message" (nccl_telemetry_proto.proto:275-279): no two different*)
(* messages handed to the client carry one index.  The shutdown log entry  *)
(* is added to a chunk at the last moment, so this rests on that chunk     *)
(* never having been tried before.                                         *)
(***************************************************************************)
IndexIdentifiesContent ==
  \A m1, m2 \in sent : m1[1] = m2[1] => m1 = m2

(***************************************************************************)
(* The server acknowledges messages in the order of their indices, each    *)
(* once, over all the telemetry messages handed over: a chunk put back     *)
(* after a failed upload is not overtaken by a later one, and one that was *)
(* acknowledged is not uploaded again, although UpdateQueue leaves the     *)
(* indices of chunks it refuses unused.                                    *)
(***************************************************************************)
AckedInOrder ==
  \A i, j \in DOMAIN acked : i < j => acked[i].index < acked[j].index

(***************************************************************************)
(* A caller that asks UploadFinished first is refused only by an executor  *)
(* that is done uploading: no interval of a healthy uploader is lost in    *)
(* UpdateQueue.                                                            *)
(***************************************************************************)
RefusedOnlyWhenClosing == rejected => UploaderGone \/ shutdown

(***************************************************************************)
(* "This field will be filled iff the upload of telemetry is enabled"      *)
(* (nccl_telemetry_proto.proto:275): every message handed to the client has*)
(* an upload_index.                                                        *)
(***************************************************************************)
UploadIndexFilled == \A m \in sent : m[1] # NoIndex

(***************************************************************************)
(* The executor implements the upload queue: chunks are acknowledged in    *)
(* order, each once, and given up only at the end.  A chunk is pending     *)
(* until its Upload has succeeded, even while its slot is null.            *)
(***************************************************************************)
Pending ==
  IF queue # <<>> /\ (Uploading \/ LastChunkOut)
  THEN IF worker \in {"settle", "cleanUp"} /\ result THEN Tail(queue)
       ELSE <<held>> \o Tail(queue)
  ELSE queue

Delivery == INSTANCE UploadQueue
              WITH pending <- Pending, closing <- shutdown \/ UploaderGone

ImplementsUploadQueue == Delivery!Spec

(***************************************************************************)
(* The destructor returns, wherever the thread is: asleep for work, backing*)
(* off, or uploading.                                                      *)
(***************************************************************************)
ShutdownCompletes == caller = "join" ~> caller = "gone"

(***************************************************************************)
(* UploadFinished gates the reading of the next interval, and it never    *)
(* stays false: the queue drains if the server takes a message now and     *)
(* then, and the executor closes if the uploader gives up.                 *)
(***************************************************************************)
UploadsFinish == []<>UploadFinished

(***************************************************************************)
(* Once shutdown_ is set, by the destructor at any moment or by the thread *)
(* itself, every step of the thread brings it closer to its end: it is     *)
(* done with the upload it is at or about to make, makes at most one more, *)
(* the last one, retries nothing and never waits for another message or for*)
(* a timeout.  So the destructor waits for two uploads at most, however    *)
(* full the queue and however long the backoff.                            *)
(***************************************************************************)
StepsLeft ==
  CASE worker = "take" -> 8
    [] worker = "upload" -> 7
    [] worker \in {"start", "settle"} -> 6
    [] worker \in {"waitForWork", "waitForTimeout", "giveUp"} -> 5
    [] worker = "wrapUp" -> 4
    [] worker = "takeLast" -> 3
    [] worker = "uploadLast" -> 2
    [] worker = "cleanUp" -> 1
    [] worker = "exited" -> 0

ShutdownHastens ==
  [][shutdown => shutdown' /\ (Worker => StepsLeft' < StepsLeft)]_vars
=============================================================================
