----------------------- MODULE UploaderExecutorProofs -----------------------
(***************************************************************************)
(* Proofs about UploaderExecutor, for any number of batches and chunks and *)
(* any limits on the uploader's attempts: first its own invariants, then   *)
(* that it implements UploadQueue and that no index stands for two         *)
(* messages.                                                               *)
(***************************************************************************)
EXTENDS UploaderExecutor, SequenceTheorems, TLAPS

Slots == Chunk \cup {Null}
Message == Chunk \cup {Null, NoIndex}

-----------------------------------------------------------------------------
(***************************************************************************)
(* The uploader.                                                           *)
(***************************************************************************)

\* Whatever Upload does to an uploader, the result is an uploader; and one
\* that has just sent its message is alive.
LEMMA UploadResult ==
  ASSUME NEW u \in Uploader, NEW ignore \in BOOLEAN, NEW r \in Upload(u, ignore)
  PROVE  /\ r.up \in Uploader /\ r.ok \in BOOLEAN /\ r.sent \in BOOLEAN
         /\ r.ok => ~u.dead /\ ~r.up.dead
<1>1. ASSUME NEW v \in Uploader, ~v.dead, NEW s \in UploadMessage(v)
      PROVE  /\ s.up \in Uploader /\ s.ok \in BOOLEAN /\ s.sent \in BOOLEAN
             /\ s.ok => ~s.up.dead
  <2>1. CASE s = SendSucceeds(v)
    BY <1>1, <2>1 DEF SendSucceeds, Result, Uploader
  <2>2. ASSUME NEW client \in {"live", "none"}, s = SendFails(v, client)
        PROVE  /\ s.up \in Uploader /\ s.ok = FALSE /\ s.sent = TRUE
    <3> DEFINE n == Count(v.sendAttempts, MaxSendAttempts)
    <3>1. n \in Nat
      BY DEF Count, Uploader
    <3> QED
      BY <2>2, <3>1 DEF SendFails, GiveUpRetry, Result, Uploader
  <2> QED
    BY <1>1, <2>1, <2>2 DEF UploadMessage
<1>2. ASSUME ~u.dead, r = CreateFails(u)
      PROVE  r.up \in Uploader /\ r.ok = FALSE /\ r.sent = FALSE
  <2> DEFINE n == Count(u.createAttempts, MaxCreateAttempts)
  <2>1. n \in Nat
    BY DEF Count, Uploader
  <2> QED
    BY <1>2, <2>1 DEF CreateFails, GiveUpRetry, Result, Uploader
<1>3. LET v == [u EXCEPT !.client = "live", !.createAttempts = 0]
      IN  v \in Uploader /\ v.dead = u.dead
  BY DEF Uploader
<1>4. CASE r = Result(u, FALSE, FALSE)
  BY <1>4 DEF Result
<1>5. u.dead \in BOOLEAN
  BY DEF Uploader
<1> QED
  BY <1>1, <1>2, <1>3, <1>4, <1>5 DEF Upload, CreateClientAndUploadMessage

-----------------------------------------------------------------------------
(***************************************************************************)
(* The queue.                                                              *)
(***************************************************************************)

\* Exchanging the front slot changes nothing behind it.
LEMMA FrontExchanged ==
  ASSUME NEW S, NEW q \in Seq(S), q # <<>>, NEW e \in S
  PROVE  /\ <<e>> \o Tail(q) \in Seq(S)
         /\ <<e>> \o Tail(q) # <<>>
         /\ DOMAIN (<<e>> \o Tail(q)) = DOMAIN q
         /\ 1 \in DOMAIN q
         /\ (<<e>> \o Tail(q))[1] = e
         /\ \A i \in DOMAIN q \ {1} : (<<e>> \o Tail(q))[i] = q[i]
<1> DEFINE p == <<e>> \o Tail(q)
<1>1. <<e>> \in Seq(S) /\ Len(<<e>>) = 1 /\ <<e>>[1] = e
  OBVIOUS
<1>2. /\ Tail(q) \in Seq(S) /\ Len(Tail(q)) = Len(q) - 1
      /\ \A i \in 1 .. Len(Tail(q)) : Tail(q)[i] = q[i + 1]
  BY HeadTailProperties
<1>3. Len(q) \in Nat \ {0}
  BY EmptySeq
<1>4. /\ p \in Seq(S) /\ Len(p) = Len(q)
      /\ \A i \in 1 .. Len(q) : p[i] = IF i <= 1 THEN <<e>>[i] ELSE Tail(q)[i - 1]
  BY <1>1, <1>2, <1>3, ConcatProperties
<1>5. DOMAIN p = 1 .. Len(q) /\ DOMAIN q = 1 .. Len(q)
  BY <1>4, LenProperties
<1>6. p # <<>>
  BY <1>3, <1>4
<1>7. ASSUME NEW i \in DOMAIN q \ {1}
      PROVE  p[i] = q[i]
  <2>1. i - 1 \in 1 .. Len(Tail(q)) /\ i \in 1 .. Len(q) /\ ~(i <= 1)
    BY <1>2, <1>3, <1>5
  <2> QED
    BY <2>1, <1>2, <1>4
<1>8. p[1] = e /\ 1 \in DOMAIN q
  BY <1>1, <1>3, <1>4, <1>5
<1> QED
  BY <1>4, <1>5, <1>6, <1>7, <1>8

\* Popping the front slot moves every other slot up by one.
LEMMA FrontPopped ==
  ASSUME NEW S, NEW q \in Seq(S), q # <<>>
  PROVE  /\ Tail(q) \in Seq(S)
         /\ \A i \in DOMAIN Tail(q) : i + 1 \in DOMAIN q \ {1} /\ Tail(q)[i] = q[i + 1]
<1>1. /\ Tail(q) \in Seq(S) /\ Len(Tail(q)) = Len(q) - 1
      /\ \A i \in 1 .. Len(Tail(q)) : Tail(q)[i] = q[i + 1]
  BY HeadTailProperties
<1>2. DOMAIN q = 1 .. Len(q) /\ DOMAIN Tail(q) = 1 .. Len(Tail(q)) /\ Len(q) \in Nat
  BY <1>1, LenProperties
<1> QED
  BY <1>1, <1>2

-----------------------------------------------------------------------------
(***************************************************************************)
(* The invariant behind FrontHole, UploaderExclusive and                   *)
(* RefusedOnlyWhenClosing: who may have closed the executor, and what the  *)
(* thread and the caller rely on where they are.  In particular the thread *)
(* makes its last upload only when it was the destructor that stopped it,  *)
(* so no caller is left that could fill the queue under it.                *)
(***************************************************************************)
Alive == {"start", "waitForWork", "waitForTimeout", "take", "upload",
          "takeLast", "uploadLast"}

Closing ==
  /\ ~present => worker = "exited" /\ caller = "gone"
  /\ caller = "gone" => worker = "exited"
  /\ caller \in {"join", "gone"} => shutdown
  /\ shutdown => caller \in {"join", "gone"} \/ up.dead
  /\ worker = "giveUp" => up.dead
  /\ worker \in {"wrapUp", "exited"} => shutdown \/ UploaderGone
  /\ worker \in Alive => ~up.dead
  /\ worker = "settle" /\ result => ~up.dead
  /\ worker \in {"takeLast", "uploadLast", "cleanUp"} => caller = "join"

Queued ==
  /\ worker = "waitForTimeout" => queue # <<>>
  /\ caller = "enqueue" => queue = <<>> \/ shutdown \/ UploaderGone

ExecInv == TypeOK /\ FrontHole /\ Closing /\ Queued /\ RefusedOnlyWhenClosing

USE DEF Null, NoIndex

LEMMA ExecInvInit == Init => ExecInv
<1> SUFFICES ASSUME Init PROVE ExecInv
  OBVIOUS
<1>1. UploaderInit \in Uploader /\ ~UploaderInit.dead
  BY DEF UploaderInit, Uploader
<1>2. TypeOK
  <2>1. <<>> \in Seq(Chunk \cup {Null}) /\ <<>> \in Seq(Chunk)
    OBVIOUS
  <2>2. 0 \in 0 .. MaxBatches
    BY BatchAssumption
  <2> QED
    <3>1. /\ present \in BOOLEAN /\ up \in Uploader /\ index \in Nat \ {0}
          /\ batches \in 0 .. MaxBatches
      BY <1>1, <2>2 DEF Init
    <3>2. /\ queue \in Seq(Chunk \cup {Null}) /\ fresh \in Seq(Chunk)
          /\ acked \in Seq(Chunk) /\ sent \subseteq (Chunk \cup {NoIndex}) \X BOOLEAN
      BY <2>1 DEF Init
    <3>3. lastUploadSuccess \in BOOLEAN /\ shutdown \in BOOLEAN
      BY DEF Init
    <3>4. result \in BOOLEAN /\ rejected \in BOOLEAN
      BY DEF Init
    <3>5. held \in Chunk \cup {Null, NoIndex}
      BY DEF Init
    <3> QED
      BY <3>1, <3>2, <3>3, <3>4, <3>5 DEF Init, TypeOK
<1>3. FrontHole
  BY DEF Init, FrontHole, Uploading, LastChunkOut
<1> QED
  BY <1>1, <1>2, <1>3
  DEF Init, ExecInv, Closing, Queued, RefusedOnlyWhenClosing, UploaderGone, Alive

\* The caller's steps.
LEMMA CallerStep ==
  ASSUME ExecInv, Caller
  PROVE  ExecInv'
<1> USE DEF uploaderVars, workerVars, callerVars, historyVars
<1> TypeOK /\ FrontHole /\ Closing /\ Queued /\ RefusedOnlyWhenClosing
  BY DEF ExecInv
<1> SUFFICES TypeOK' /\ FrontHole' /\ Closing' /\ Queued' /\ RefusedOnlyWhenClosing'
  BY DEF ExecInv
<1>1. CASE SplitBatch
  <2>1. PICK n \in 1 .. MaxChunks :
          /\ fresh' = [i \in 1 .. n |-> [index |-> index + i - 1]]
          /\ index' = index + n
    BY <1>1 DEF SplitBatch
  <2>2. n \in Nat \ {0}
    BY BatchAssumption
  <2>3. \A i \in 1 .. n : [index |-> index + i - 1] \in Chunk
    BY <2>2 DEF Chunk, TypeOK
  <2>4. fresh' \in Seq(Chunk)
    BY <2>1, <2>2, <2>3
  <2>5. batches' \in 0 .. MaxBatches
    BY <1>1, BatchAssumption DEF SplitBatch, TypeOK
  <2>6. TypeOK'
    <3>1. index' \in Nat \ {0}
      BY <2>1, <2>2 DEF TypeOK
    <3> QED
      BY <1>1, <3>1, <2>4, <2>5 DEF SplitBatch, TypeOK
  <2>7. FrontHole'
    BY <1>1 DEF SplitBatch, FrontHole, Uploading, LastChunkOut
  <2> QED
    BY <1>1, <2>6, <2>7 DEF SplitBatch, UploadFinished, Closing, Queued,
       RefusedOnlyWhenClosing, UploaderGone, Alive
<1>2. CASE Enqueue
  <2>1. TypeOK'
    <3>1. queue' \in Seq(Chunk \cup {Null})
      <4>1. fresh \in Seq(Chunk \cup {Null})
        BY SeqMonotonic DEF TypeOK
      <4> QED
        BY <1>2, <4>1 DEF Enqueue, TypeOK
    <3> QED
      BY <1>2, <3>1 DEF Enqueue, TypeOK
  <2>2. FrontHole'
    <3>1. CASE queue = <<>>
      <4>1. worker \notin {"upload", "settle", "take", "takeLast", "uploadLast", "cleanUp"}
        BY <1>2, <3>1 DEF Enqueue, FrontHole, Uploading, Closing
      <4>2. \A i \in DOMAIN fresh : fresh[i] # Null
        BY LenProperties, ElementOfSeq DEF TypeOK, Chunk
      <4> QED
        BY <1>2, <3>1, <4>1, <4>2 DEF Enqueue, FrontHole, Uploading, LastChunkOut
    <3>2. CASE queue # <<>>
      BY <1>2, <3>2 DEF Enqueue, FrontHole, Uploading, LastChunkOut
    <3> QED
      BY <3>1, <3>2
  <2>3. Closing'
    BY <1>2 DEF Enqueue, Closing, UploaderGone, Alive
  <2>4. Queued' /\ RefusedOnlyWhenClosing'
    <3>1. worker = "waitForTimeout" => queue' # <<>>
      BY <1>2 DEF Enqueue, Queued
    <3> QED
      BY <1>2, <3>1 DEF Enqueue, Queued, RefusedOnlyWhenClosing, UploaderGone
  <2> QED
    BY <2>1, <2>2, <2>3, <2>4
<1>3. CASE Shutdown
  <2>1. TypeOK'
    BY <1>3 DEF Shutdown, TypeOK
  <2>2. FrontHole'
    BY <1>3 DEF Shutdown, FrontHole, Uploading, LastChunkOut
  <2> QED
    BY <1>3, <2>1, <2>2 DEF Shutdown, Closing, Queued, RefusedOnlyWhenClosing,
       UploaderGone, Alive
<1>4. CASE Join
  <2>1. TypeOK'
    BY <1>4 DEF Join, TypeOK
  <2>2. FrontHole'
    BY <1>4 DEF Join, FrontHole, Uploading, LastChunkOut
  <2> QED
    BY <1>4, <2>1, <2>2 DEF Join, Closing, Queued, RefusedOnlyWhenClosing,
       UploaderGone, Alive
<1> QED
  BY <1>1, <1>2, <1>3, <1>4 DEF Caller

\* The steps of the thread that leave the queue and the uploader alone.
LEMMA WaitingStep ==
  ASSUME ExecInv, Start \/ WaitForWorkOrShutdown \/ WaitForTimeoutOrShutdown \/ GiveUp
  PROVE  ExecInv'
<1> USE DEF uploaderVars, workerVars, callerVars, historyVars, Goto
<1> TypeOK /\ FrontHole /\ Closing /\ Queued /\ RefusedOnlyWhenClosing
  BY DEF ExecInv
<1>1. TypeOK'
  BY DEF Start, WaitForWorkOrShutdown, WaitForTimeoutOrShutdown, GiveUp, TypeOK
<1>2. FrontHole'
  BY DEF Start, WaitForWorkOrShutdown, WaitForTimeoutOrShutdown, GiveUp, FrontHole,
     Uploading, LastChunkOut, Queued
<1>3. Closing'
  BY DEF Start, WaitForWorkOrShutdown, WaitForTimeoutOrShutdown, GiveUp, Closing,
     UploaderGone, Alive
<1>4. Queued' /\ RefusedOnlyWhenClosing'
  BY DEF Start, WaitForWorkOrShutdown, WaitForTimeoutOrShutdown, GiveUp, Queued,
     RefusedOnlyWhenClosing, UploaderGone
<1> QED
  BY <1>1, <1>2, <1>3, <1>4 DEF ExecInv

\* Taking the front out of a queue of chunks leaves the hole there, and only
\* there.
LEMMA TakeFrontMakesHole ==
  ASSUME queue \in Seq(Chunk \cup {Null}), queue # <<>>, TakeFront,
         \A i \in DOMAIN queue : queue[i] # Null
  PROVE  /\ held' \in Chunk
         /\ queue' \in Seq(Chunk \cup {Null}) /\ queue' # <<>>
         /\ \A i \in DOMAIN queue' : queue'[i] = Null <=> i = 1
<1> DEFINE S == Chunk \cup {Null}
<1>1. /\ queue' \in Seq(S) /\ queue' # <<>>
      /\ DOMAIN queue' = DOMAIN queue /\ 1 \in DOMAIN queue
      /\ queue'[1] = Null
      /\ \A i \in DOMAIN queue \ {1} : queue'[i] = queue[i]
  BY FrontExchanged, Null \in S DEF TakeFront
<1>2. Head(queue) = queue[1]
  OBVIOUS
<1>3. Head(queue) \in S
  BY HeadTailProperties
<1>4. held' \in Chunk
  BY <1>1, <1>2, <1>3 DEF TakeFront
<1> QED
  BY <1>1, <1>4

\* Take, and TakeLast of a chunk.
LEMMA TakeStep ==
  ASSUME ExecInv, Take \/ TakeLast
  PROVE  ExecInv'
<1> USE DEF uploaderVars, workerVars, callerVars, historyVars, Goto
<1> TypeOK /\ FrontHole /\ Closing /\ Queued /\ RefusedOnlyWhenClosing
  BY DEF ExecInv
<1>1. \A i \in DOMAIN queue : queue[i] # Null
  BY DEF Take, TakeLast, FrontHole, Uploading, LastChunkOut
<1>2. CASE queue # <<>>
  <2>1. TakeFront
    BY <1>2 DEF Take, TakeLast
  <2>2. /\ held' \in Chunk /\ queue' # <<>>
        /\ queue' \in Seq(Chunk \cup {Null})
        /\ \A i \in DOMAIN queue' : queue'[i] = Null <=> i = 1
    BY <1>1, <1>2, <2>1, TakeFrontMakesHole DEF TypeOK
  <2>3. TypeOK'
    BY <2>2 DEF Take, TakeLast, TypeOK
  <2>4. held' # Null
    BY <2>2 DEF Chunk
  <2>5. FrontHole'
    BY <2>2, <2>4 DEF Take, TakeLast, FrontHole, Uploading, LastChunkOut
  <2> QED
    BY <1>2, <2>3, <2>5 DEF Take, TakeLast, ExecInv, Closing, Queued,
       RefusedOnlyWhenClosing, UploaderGone, Alive
<1>3. CASE queue = <<>>
  <2>1. TakeLast
    BY <1>3 DEF Take, FrontHole
  <2>2. TypeOK'
    BY <1>3, <2>1 DEF TakeLast, TypeOK
  <2>3. FrontHole'
    BY <1>3, <2>1 DEF TakeLast, FrontHole, Uploading, LastChunkOut
  <2> QED
    BY <1>3, <2>1, <2>2, <2>3 DEF TakeLast, ExecInv, Closing, Queued,
       RefusedOnlyWhenClosing, UploaderGone, Alive
<1> QED
  BY <1>2, <1>3

\* An Upload, of the front or at the end.
LEMMA UploadStep ==
  ASSUME ExecInv, UploadFront \/ UploadLast
  PROVE  ExecInv'
<1> USE DEF uploaderVars, workerVars, callerVars, historyVars, Goto
<1> TypeOK /\ FrontHole /\ Closing /\ Queued /\ RefusedOnlyWhenClosing
  BY DEF ExecInv
<1>1. PICK ignore \in BOOLEAN, entry \in BOOLEAN : CallUpload(ignore, entry)
  BY DEF UploadFront, UploadLast
<1>2. PICK r \in Upload(up, ignore) :
        /\ up' = r.up /\ result' = r.ok
        /\ sent' = IF r.sent THEN sent \cup {<<held, entry>>} ELSE sent
        /\ acked' = IF r.ok /\ held # NoIndex THEN Append(acked, held) ELSE acked
  BY <1>1 DEF CallUpload
<1>3. up' \in Uploader /\ result' \in BOOLEAN /\ (result' => ~up'.dead)
  BY <1>2, UploadResult DEF TypeOK
<1>4. held \in Chunk \cup {NoIndex}
  BY DEF UploadFront, UploadLast, TypeOK, FrontHole, Uploading, LastChunkOut
<1>5. sent' \subseteq (Chunk \cup {NoIndex}) \X BOOLEAN
  BY <1>2, <1>4 DEF TypeOK
<1>6. acked' \in Seq(Chunk)
  BY <1>2, <1>4 DEF TypeOK
<1>7. TypeOK'
  BY <1>3, <1>5, <1>6 DEF UploadFront, UploadLast, TypeOK
<1>8. FrontHole'
  BY DEF UploadFront, UploadLast, FrontHole, Uploading, LastChunkOut
<1>9. Closing'
  <2>1. up'.dead \in BOOLEAN /\ present \in BOOLEAN /\ shutdown \in BOOLEAN
    BY <1>3 DEF Uploader, TypeOK
  <2>2. CASE UploadFront
    BY <1>3, <2>1, <2>2 DEF UploadFront, Closing, UploaderGone, Alive
  <2>3. CASE UploadLast
    BY <1>3, <2>1, <2>3 DEF UploadLast, Closing, UploaderGone, Alive
  <2> QED
    BY <2>2, <2>3
<1>10. Queued' /\ RefusedOnlyWhenClosing'
  <2>1. ~up.dead /\ present
    BY DEF UploadFront, UploadLast, Closing, Alive
  <2>2. CASE UploadFront
    BY <2>1, <2>2 DEF UploadFront, Queued, RefusedOnlyWhenClosing, UploaderGone
  <2>3. CASE UploadLast
    BY <2>1, <2>3 DEF UploadLast, Queued, RefusedOnlyWhenClosing, UploaderGone
  <2> QED
    BY <2>2, <2>3
<1> QED
  BY <1>7, <1>8, <1>9, <1>10 DEF ExecInv

\* After an Upload, the slot is popped or filled again.
LEMMA SettleStep ==
  ASSUME ExecInv, Settle
  PROVE  ExecInv'
<1> USE DEF uploaderVars, workerVars, callerVars, historyVars, Goto
<1> TypeOK /\ FrontHole /\ Closing /\ Queued /\ RefusedOnlyWhenClosing
  BY DEF ExecInv
<1> DEFINE S == Chunk \cup {Null}
<1>1. /\ queue \in Seq(S) /\ queue # <<>> /\ held \in Chunk /\ held # Null
      /\ \A i \in DOMAIN queue : queue[i] = Null <=> i = 1
  BY DEF Settle, TypeOK, FrontHole, Uploading, Chunk
<1>2. queue' \in Seq(S) /\ \A i \in DOMAIN queue' : queue'[i] # Null
  <2>1. CASE result
    <3>1. queue' = Tail(queue)
      BY <2>1 DEF Settle
    <3> QED
      BY <1>1, <3>1, FrontPopped
  <2>2. CASE ~result
    <3>1. queue' = <<held>> \o Tail(queue)
      BY <2>2 DEF Settle
    <3>2. /\ queue' \in Seq(S) /\ DOMAIN queue' = DOMAIN queue /\ queue'[1] = held
          /\ \A i \in DOMAIN queue \ {1} : queue'[i] = queue[i]
      BY <1>1, <3>1, FrontExchanged
    <3> QED
      BY <1>1, <3>2
  <2> QED
    BY <2>1, <2>2
<1>3. TypeOK'
  BY <1>2 DEF Settle, TypeOK
<1>4. FrontHole'
  BY <1>2 DEF Settle, FrontHole, Uploading, LastChunkOut
<1>5. Closing'
  BY DEF Settle, Closing, UploaderGone, Alive, TypeOK
<1>6. Queued' /\ RefusedOnlyWhenClosing'
  BY <1>1 DEF Settle, Queued, RefusedOnlyWhenClosing, UploaderGone
<1> QED
  BY <1>3, <1>4, <1>5, <1>6 DEF ExecInv

\* The two ends of the thread's last method: the queue is dropped, or a last
\* upload begins.
LEMMA WrapUpStep ==
  ASSUME ExecInv, WrapUp \/ CleanUp
  PROVE  ExecInv'
<1> USE DEF uploaderVars, workerVars, callerVars, historyVars, Goto
<1> TypeOK /\ FrontHole /\ Closing /\ Queued /\ RefusedOnlyWhenClosing
  BY DEF ExecInv
<1>1. <<>> \in Seq(Chunk \cup {Null})
  OBVIOUS
<1>2. TypeOK'
  BY <1>1 DEF WrapUp, CleanUp, TypeOK
<1>3. FrontHole'
  BY DEF WrapUp, CleanUp, FrontHole, Uploading, LastChunkOut
<1>4. Closing'
  <2>1. CASE WrapUp
    BY <2>1 DEF WrapUp, Closing, UploaderGone, Alive, TypeOK
  <2>2. CASE CleanUp
    BY <2>2 DEF CleanUp, Closing, UploaderGone, Alive
  <2> QED
    BY <2>1, <2>2
<1>5. Queued' /\ RefusedOnlyWhenClosing'
  BY DEF WrapUp, CleanUp, Queued, RefusedOnlyWhenClosing, UploaderGone
<1> QED
  BY <1>2, <1>3, <1>4, <1>5 DEF ExecInv

\* What happens to the uploader from outside.
LEMMA EnvironmentStep ==
  ASSUME ExecInv, Elapse \/ LoseClient
  PROVE  ExecInv'
<1> USE DEF uploaderVars, workerVars, callerVars, historyVars
<1> TypeOK /\ FrontHole /\ Closing /\ Queued /\ RefusedOnlyWhenClosing
  BY DEF ExecInv
<1>1. up' \in Uploader /\ up'.dead = up.dead
  BY DEF Elapse, LoseClient, TimePasses, ClientDies, TypeOK, Uploader
<1>2. TypeOK'
  BY <1>1 DEF Elapse, LoseClient, TypeOK
<1>3. FrontHole'
  BY DEF Elapse, LoseClient, FrontHole, Uploading, LastChunkOut
<1> QED
  BY <1>1, <1>2, <1>3 DEF Elapse, LoseClient, ExecInv, Closing, Queued,
     RefusedOnlyWhenClosing, UploaderGone, Alive

LEMMA ExecInvStep ==
  ASSUME ExecInv, [Next]_vars
  PROVE  ExecInv'
<1>1. CASE Next
  BY <1>1, CallerStep, WaitingStep, TakeStep, UploadStep, SettleStep, WrapUpStep,
     EnvironmentStep DEF Next, Worker
<1>2. CASE UNCHANGED vars
  BY <1>2 DEF vars, uploaderVars, workerVars, callerVars, historyVars, ExecInv,
     TypeOK, FrontHole, Uploading, LastChunkOut, Closing, Queued,
     RefusedOnlyWhenClosing, UploaderGone, Alive
<1> QED
  BY <1>1, <1>2

LEMMA ExecInvHolds == Spec => []ExecInv
BY ExecInvInit, ExecInvStep, PTL DEF Spec

\* The null slot is where the thread, and only the thread, expects it: no
\* front(), pop() or dereference meets an empty queue or a null pointer.
THEOREM NullSlotAtFront == Spec => [](TypeOK /\ FrontHole)
<1>1. ExecInv => TypeOK /\ FrontHole
  BY DEF ExecInv
<1> QED
  BY <1>1, ExecInvHolds, PTL

\* The variables keep their ranges, whatever the uploader answers.
THEOREM TypeCorrect == Spec => []TypeOK
BY NullSlotAtFront, PTL

\* The caller reads the uploader only while no Upload is running: a hole in
\* the queue keeps UploadFinished false, a thread that has closed the executor
\* by itself is past its uploads, and the last upload runs in the destructor.
THEOREM CallerNeverMeetsUpload == Spec => []UploaderExclusive
<1>1. ExecInv => UploaderExclusive
  BY DEF ExecInv, FrontHole, Uploading, Closing, Alive, UploaderExclusive,
     UploadFinished, UploaderGone
<1> QED
  BY <1>1, ExecInvHolds, PTL

\* UpdateQueue refuses a caller that has asked UploadFinished only once the
\* executor is closing.
THEOREM HealthyUploaderAccepts == Spec => []RefusedOnlyWhenClosing
<1>1. ExecInv => RefusedOnlyWhenClosing
  BY DEF ExecInv
<1> QED
  BY <1>1, ExecInvHolds, PTL

\* The destructor finds the thread on its way out: once shutdown_ is set, every
\* step brings the thread nearer to its end, over two uploads at most.
THEOREM ShutdownIsShort == Spec => ShutdownHastens
<1>0. /\ worker = "take" => StepsLeft = 8
      /\ worker = "upload" => StepsLeft = 7
      /\ worker \in {"start", "settle"} => StepsLeft = 6
      /\ worker \in {"waitForWork", "waitForTimeout", "giveUp"} => StepsLeft = 5
      /\ worker = "wrapUp" => StepsLeft = 4
      /\ worker = "takeLast" => StepsLeft = 3
      /\ worker = "uploadLast" => StepsLeft = 2
      /\ worker = "cleanUp" => StepsLeft = 1
      /\ worker = "exited" => StepsLeft = 0
  BY DEF StepsLeft
<1>0a. /\ worker' = "upload" => StepsLeft' = 7
       /\ worker' = "settle" => StepsLeft' = 6
       /\ worker' \in {"waitForWork", "giveUp"} => StepsLeft' = 5
       /\ worker' = "wrapUp" => StepsLeft' = 4
       /\ worker' = "takeLast" => StepsLeft' = 3
       /\ worker' = "uploadLast" => StepsLeft' = 2
       /\ worker' = "cleanUp" => StepsLeft' = 1
       /\ worker' = "exited" => StepsLeft' = 0
  BY DEF StepsLeft
<1>1. ASSUME Worker, shutdown
      PROVE  shutdown' /\ StepsLeft' < StepsLeft
  <2> USE <1>0, <1>0a DEF Goto
  <2>1. CASE Start
    BY <1>1, <2>1 DEF Start
  <2>2. CASE WaitForWorkOrShutdown
    BY <1>1, <2>2 DEF WaitForWorkOrShutdown
  <2>3. CASE WaitForTimeoutOrShutdown
    BY <1>1, <2>3 DEF WaitForTimeoutOrShutdown
  <2>4. CASE Take
    BY <1>1, <2>4 DEF Take
  <2>5. CASE UploadFront
    BY <1>1, <2>5 DEF UploadFront
  <2>6. CASE Settle
    BY <1>1, <2>6 DEF Settle
  <2>7. CASE GiveUp
    BY <1>1, <2>7 DEF GiveUp
  <2>8. CASE WrapUp
    BY <1>1, <2>8 DEF WrapUp
  <2>9. CASE TakeLast
    BY <1>1, <2>9 DEF TakeLast
  <2>10. CASE UploadLast
    BY <1>1, <2>10 DEF UploadLast
  <2>11. CASE CleanUp
    BY <1>1, <2>11 DEF CleanUp
  <2> QED
    BY <1>1, <2>1, <2>2, <2>3, <2>4, <2>5, <2>6, <2>7, <2>8, <2>9, <2>10, <2>11 DEF Worker
<1>2. [Next]_vars => [shutdown => shutdown' /\ (Worker => StepsLeft' < StepsLeft)]_vars
  <2> SUFFICES ASSUME Next, shutdown, ~Worker
               PROVE  shutdown'
    BY <1>1
  <2> QED
    BY DEF Next, Caller, SplitBatch, Enqueue, Shutdown, Join, Elapse, LoseClient
<1> QED
  BY <1>2, PTL DEF Spec, ShutdownHastens

USE DEF Null, NoIndex

-----------------------------------------------------------------------------
(***************************************************************************)
(* The invariants, beside ExecInv.                                         *)
(***************************************************************************)

\* What is split is not empty, and the last message is a chunk exactly if
\* there was one in the queue.
LastInv ==
  /\ caller = "enqueue" => fresh # <<>>
  /\ LastChunkOut => (queue = <<>> <=> held = NoIndex)

\* Every chunk that was ever queued or sent is older than those to come.
Seen == {queue[i] : i \in DOMAIN queue} \cup {held} \cup {m[1] : m \in sent}
Older(n) == \A x \in Seen : x.index < n
Increasing(s) == \A i, j \in DOMAIN s : i < j => s[i].index < s[j].index

OrderInv ==
  /\ Older(index)
  /\ \A j \in DOMAIN fresh : Older(fresh[j].index) /\ fresh[j].index < index
  /\ Increasing(fresh) /\ Increasing(queue)
  /\ Uploading \/ LastChunkOut =>
       \A i \in DOMAIN queue \ {1} : held.index < queue[i].index

\* Only the front can have been tried, and only if its upload failed; the
\* shutdown entry is added to the last message of all.
Untried(x) == \A m \in sent : m[1] # x

TriedInv ==
  /\ \A m \in sent : m[2] => worker \in {"cleanUp", "exited"}
  /\ \A m \in sent : m[1] = NoIndex => m[2]
  /\ \A i \in DOMAIN queue \ {1} : Untried(queue[i])
  /\ lastUploadSuccess /\ queue # <<>> => Untried(queue[1])
  /\ worker = "takeLast" => lastUploadSuccess
  /\ worker = "uploadLast" => Untried(held)

-----------------------------------------------------------------------------
(***************************************************************************)
(* The refinement.                                                         *)
(***************************************************************************)
RefineInv == ExecInv /\ LastInv

AbstractStep == [Delivery!Next]_(Delivery!vars)

LEMMA LastInvStep ==
  ASSUME RefineInv, [Next]_vars
  PROVE  LastInv'
<1> USE DEF uploaderVars, workerVars, callerVars, historyVars, Goto, LastChunkOut
<1> ExecInv /\ LastInv
  BY DEF RefineInv
<1>1. CASE UNCHANGED vars
  BY <1>1 DEF vars, LastInv
<1>2. CASE SplitBatch
  <2>1. PICK n \in 1 .. MaxChunks : fresh' = [i \in 1 .. n |-> [index |-> index + i - 1]]
    BY <1>2 DEF SplitBatch
  <2>2. fresh' # <<>>
    <3>1. DOMAIN fresh' = 1 .. n /\ n \in Nat \ {0}
      BY <2>1, BatchAssumption
    <3> QED
      BY <3>1
  <2> QED
    BY <1>2, <2>2 DEF SplitBatch, LastInv
<1>3. CASE Enqueue
  BY <1>3 DEF Enqueue, LastInv, ExecInv, Closing
<1>4. CASE Shutdown \/ Join \/ Elapse \/ LoseClient
  BY <1>4 DEF Shutdown, Join, Elapse, LoseClient, LastInv
<1>5. CASE Start \/ WaitForWorkOrShutdown \/ WaitForTimeoutOrShutdown \/ Take \/ UploadFront
             \/ Settle \/ GiveUp \/ WrapUp \/ CleanUp
  BY <1>5 DEF Start, WaitForWorkOrShutdown, WaitForTimeoutOrShutdown, Take, UploadFront,
     Settle, GiveUp, WrapUp, CleanUp, LastInv
<1>6. CASE TakeLast
  <2>1. CASE queue = <<>>
    BY <1>6, <2>1 DEF TakeLast, LastInv
  <2>2. CASE queue # <<>>
    <3>1. \A i \in DOMAIN queue : queue[i] # Null
      BY <1>6 DEF TakeLast, ExecInv, FrontHole, Uploading
    <3>2. held' \in Chunk /\ queue' # <<>>
      BY <1>6, <2>2, <3>1, TakeFrontMakesHole DEF TakeLast, ExecInv, TypeOK
    <3>3. held' # NoIndex
      BY <3>2 DEF Chunk
    <3> QED
      BY <1>6, <3>2, <3>3 DEF TakeLast, LastInv
  <2> QED
    BY <2>1, <2>2
<1>7. CASE UploadLast
  BY <1>7 DEF UploadLast, LastInv
<1> QED
  BY <1>1, <1>2, <1>3, <1>4, <1>5, <1>6, <1>7 DEF Next, Caller, Worker

\* Taking the front out and putting it back is no change.
LEMMA FrontRestored ==
  ASSUME NEW S, NEW q \in Seq(S), q # <<>>, NEW e \in S
  PROVE  /\ Tail(<<e>> \o Tail(q)) = Tail(q)
         /\ Head(<<e>> \o Tail(q)) = e
         /\ <<Head(q)>> \o Tail(q) = q
<1> DEFINE p == <<e>> \o Tail(q)
<1>1. /\ p \in Seq(S) /\ p # <<>> /\ DOMAIN p = DOMAIN q /\ p[1] = e
      /\ \A i \in DOMAIN q \ {1} : p[i] = q[i]
  BY FrontExchanged
<1>2. Len(p) = Len(q)
  BY <1>1, LenProperties
<1> HIDE DEF p
<1>3. /\ Tail(q) \in Seq(S) /\ Len(Tail(q)) = Len(q) - 1
      /\ \A i \in 1 .. Len(Tail(q)) : Tail(q)[i] = q[i + 1]
  BY HeadTailProperties
<1>4. /\ Tail(p) \in Seq(S) /\ Len(Tail(p)) = Len(p) - 1
      /\ \A i \in 1 .. Len(Tail(p)) : Tail(p)[i] = p[i + 1]
  BY <1>1, HeadTailProperties
<1>5. DOMAIN q = 1 .. Len(q) /\ Len(q) \in Nat \ {0}
  BY EmptySeq, LenProperties
<1>6. Tail(p) = Tail(q)
  <2>1. \A i \in 1 .. Len(Tail(q)) : i + 1 \in DOMAIN q \ {1}
    BY <1>3, <1>5
  <2>2. \A i \in 1 .. Len(Tail(q)) : Tail(p)[i] = Tail(q)[i]
    BY <1>1, <1>2, <1>3, <1>4, <2>1
  <2> QED
    BY <1>2, <1>3, <1>4, <2>2, SeqEqual
<1>7. Head(p) = e
  BY <1>1, HeadTailProperties
<1>8. <<Head(q)>> \o Tail(q) = q
  <2> DEFINE o == <<Head(q)>> \o Tail(q)
  <2>1. Head(q) \in S /\ Head(q) = q[1]
    BY HeadTailProperties
  <2>2. /\ o \in Seq(S) /\ DOMAIN o = DOMAIN q /\ o[1] = q[1]
        /\ \A i \in DOMAIN q \ {1} : o[i] = q[i]
    BY <2>1, FrontExchanged
  <2> HIDE DEF o
  <2>3. Len(o) = Len(q) /\ \A i \in 1 .. Len(q) : o[i] = q[i]
    BY <1>5, <2>2, LenProperties
  <2>4. o = q
    BY <2>2, <2>3, SeqEqual
  <2> QED
    BY <2>4 DEF o
<1> QED
  BY <1>6, <1>7, <1>8 DEF p

\* A step of the thread or of its environment takes nothing in.
Drains == AbstractStep /\ (Pending = <<>> => Pending' = <<>>)

\* A step that leaves the chunks alone may close the executor, never reopen it.
LEMMA ClosingOnly ==
  ASSUME Pending' = Pending, acked' = acked,
         shutdown \/ UploaderGone => (shutdown \/ UploaderGone)'
  PROVE  Drains
BY DEF Drains, AbstractStep, Delivery!Next, Delivery!vars, Delivery!Close

\* The steps of the caller.
LEMMA CallerRefines ==
  ASSUME RefineInv, Caller
  PROVE  AbstractStep
<1> USE DEF uploaderVars, workerVars, callerVars, historyVars
<1> ExecInv /\ LastInv
  BY DEF RefineInv
<1>1. CASE SplitBatch \/ Shutdown \/ Join
  <2>1. Pending' = Pending /\ acked' = acked
    BY <1>1 DEF SplitBatch, Shutdown, Join, Pending, Uploading, LastChunkOut
  <2>2. shutdown \/ UploaderGone => (shutdown \/ UploaderGone)'
    BY <1>1 DEF SplitBatch, Shutdown, Join, UploaderGone
  <2> QED
    BY <2>1, <2>2, ClosingOnly DEF Drains
<1>2. CASE Enqueue
  <2>1. UNCHANGED <<present, up, shutdown, worker, held, result, acked>>
    BY <1>2 DEF Enqueue
  <2>2. CASE queue = <<>>
    <3>1. worker \notin {"upload", "settle", "uploadLast", "cleanUp"}
      BY <1>2, <2>2 DEF Enqueue, ExecInv, FrontHole, Uploading, Closing
    <3>2. Pending = <<>> /\ Pending' = fresh /\ fresh # <<>>
      BY <1>2, <2>1, <2>2, <3>1 DEF Enqueue, Pending, Uploading, LastChunkOut, LastInv
    <3> QED
      BY <2>1, <3>2 DEF AbstractStep, Delivery!Next, Delivery!Accept, UploaderGone
  <2>3. CASE queue # <<>>
    <3>1. Pending' = Pending
      BY <1>2, <2>1, <2>3 DEF Enqueue, Pending, Uploading, LastChunkOut
    <3> QED
      BY <2>1, <3>1, ClosingOnly DEF Drains, UploaderGone
  <2> QED
    BY <2>2, <2>3
<1> QED
  BY <1>1, <1>2 DEF Caller

\* The steps of the thread between two uploads.
LEMMA WaitingRefines ==
  ASSUME RefineInv, Start \/ WaitForWorkOrShutdown \/ WaitForTimeoutOrShutdown \/ GiveUp
  PROVE  Drains
<1> USE DEF uploaderVars, workerVars, callerVars, historyVars, Goto
<1>1. Pending' = Pending /\ acked' = acked
  BY DEF Start, WaitForWorkOrShutdown, WaitForTimeoutOrShutdown, GiveUp, Pending,
     Uploading, LastChunkOut
<1>2. shutdown \/ UploaderGone => (shutdown \/ UploaderGone)'
  BY DEF Start, WaitForWorkOrShutdown, WaitForTimeoutOrShutdown, GiveUp, UploaderGone
<1> QED
  BY <1>1, <1>2, ClosingOnly

LEMMA TakeRefines ==
  ASSUME RefineInv, Take \/ TakeLast
  PROVE  Drains
<1> USE DEF uploaderVars, workerVars, callerVars, historyVars, Goto
<1>1. UNCHANGED <<present, up, shutdown, acked>>
  BY DEF Take, TakeLast
<1>2. Pending = queue
  BY DEF Take, TakeLast, Pending, Uploading, LastChunkOut
<1>3. Pending' = queue
  <2>1. CASE queue = <<>>
    <3>1. queue' = <<>>
      BY <2>1 DEF Take, TakeLast, RefineInv, ExecInv, FrontHole
    <3> QED
      BY <2>1, <3>1 DEF Pending
  <2>2. CASE queue # <<>>
    <3>1. held' = Head(queue) /\ queue' = <<Null>> \o Tail(queue)
      BY <2>2 DEF Take, TakeLast, TakeFront
    <3>2. queue \in Seq(Chunk \cup {Null})
      BY DEF RefineInv, ExecInv, TypeOK
    <3>3. Null \in Chunk \cup {Null}
      OBVIOUS
    <3>4. /\ queue' # <<>> /\ Tail(queue') = Tail(queue)
          /\ <<held'>> \o Tail(queue) = queue
      BY <2>2, <3>1, <3>2, <3>3, FrontExchanged, FrontRestored
    <3>5. worker' \in {"upload", "uploadLast"}
      BY DEF Take, TakeLast
    <3> QED
      BY <3>4, <3>5 DEF Pending, Uploading, LastChunkOut
  <2> QED
    BY <2>1, <2>2
<1> QED
  BY <1>1, <1>2, <1>3, ClosingOnly DEF UploaderGone

\* An upload acknowledges the front, or none.
LEMMA UploadRefines ==
  ASSUME RefineInv, UploadFront \/ UploadLast
  PROVE  Drains
<1> USE DEF uploaderVars, workerVars, callerVars, historyVars, Goto
<1> ExecInv /\ LastInv
  BY DEF RefineInv
<1>1. UNCHANGED <<present, queue, shutdown, held>> /\ present /\ ~up.dead
  BY DEF UploadFront, UploadLast, ExecInv, Closing, Alive
<1>2. PICK ignore \in BOOLEAN, entry \in BOOLEAN : CallUpload(ignore, entry)
  BY DEF UploadFront, UploadLast
<1>3. /\ result' \in BOOLEAN /\ (result' => ~up'.dead)
      /\ acked' = IF result' /\ held # NoIndex THEN Append(acked, held) ELSE acked
  BY <1>2, UploadResult DEF CallUpload, ExecInv, TypeOK
<1>4. /\ worker \in {"upload", "uploadLast"} /\ worker' \in {"settle", "cleanUp"}
      /\ worker = "uploadLast" => shutdown
      /\ held = NoIndex <=> queue = <<>>
  <2>1. CASE UploadFront
    <3>1. held \in Chunk /\ queue # <<>>
      BY <2>1 DEF UploadFront, ExecInv, FrontHole, Uploading
    <3> QED
      BY <2>1, <3>1 DEF UploadFront, Chunk
  <2>2. CASE UploadLast
    BY <2>2 DEF UploadLast, ExecInv, Closing, LastInv, LastChunkOut
  <2> QED
    BY <2>1, <2>2
<1>5. CASE queue = <<>>
  <2>1. Pending = <<>> /\ Pending' = <<>> /\ acked' = acked
    BY <1>1, <1>3, <1>4, <1>5 DEF Pending
  <2> QED
    BY <1>1, <2>1, ClosingOnly DEF UploaderGone
<1>6. CASE queue # <<>>
  <2>1. held \in Chunk /\ queue \in Seq(Chunk \cup {Null})
    BY <1>4, <1>6 DEF ExecInv, TypeOK, FrontHole, Uploading, LastChunkOut
  <2>2. Pending = <<held>> \o Tail(queue)
    BY <1>4, <1>6 DEF Pending, Uploading, LastChunkOut
  <2>3. Pending # <<>> /\ Head(Pending) = held /\ Tail(Pending) = Tail(queue)
    BY <1>6, <2>1, <2>2, FrontExchanged, FrontRestored
  <2>4. CASE result'
    <3>1. Pending' = Tail(queue)
      BY <1>1, <1>4, <1>6, <2>4 DEF Pending, Uploading, LastChunkOut
    <3>2. acked' = Append(acked, held)
      BY <1>3, <1>4, <1>6, <2>4
    <3>3. (shutdown \/ UploaderGone)' = (shutdown \/ UploaderGone)
      BY <1>1, <1>3, <2>4 DEF UploaderGone
    <3> QED
      BY <2>3, <3>1, <3>2, <3>3 DEF Drains, AbstractStep, Delivery!Next, Delivery!Acknowledge
  <2>5. CASE ~result'
    <3>1. Pending' = Pending
      BY <1>1, <1>4, <1>6, <2>2, <2>5 DEF Pending, Uploading, LastChunkOut
    <3>2. acked' = acked
      BY <1>3, <2>5
    <3> QED
      BY <1>1, <3>1, <3>2, ClosingOnly DEF UploaderGone
  <2> QED
    BY <2>4, <2>5
<1> QED
  BY <1>5, <1>6

LEMMA SettleRefines ==
  ASSUME RefineInv, Settle
  PROVE  Drains
<1> USE DEF uploaderVars, workerVars, callerVars, historyVars, Goto
<1>1. queue # <<>> /\ UNCHANGED <<present, up, shutdown, acked>>
  BY DEF Settle, RefineInv, ExecInv, FrontHole, Uploading
<1>2. /\ Pending = IF result THEN Tail(queue) ELSE <<held>> \o Tail(queue)
      /\ Pending' = queue'
  BY <1>1 DEF Settle, Pending, Uploading, LastChunkOut
<1>3. Pending' = Pending
  BY <1>2 DEF Settle
<1> QED
  BY <1>1, <1>3, ClosingOnly DEF UploaderGone

\* What is left is given up when the thread ends.
LEMMA WrapUpRefines ==
  ASSUME RefineInv, WrapUp \/ CleanUp
  PROVE  Drains
<1> USE DEF uploaderVars, workerVars, callerVars, historyVars, Goto
<1>1. UNCHANGED <<present, up, shutdown, acked>>
  BY DEF WrapUp, CleanUp
<1>2. shutdown \/ UploaderGone
  BY DEF WrapUp, CleanUp, RefineInv, ExecInv, Closing
<1>3. CASE queue' = <<>>
  <2>1. Pending' = <<>>
    BY <1>3 DEF Pending
  <2>2. (shutdown \/ UploaderGone)' = (shutdown \/ UploaderGone)
    BY <1>1 DEF UploaderGone
  <2> QED
    BY <1>1, <1>2, <2>1, <2>2 DEF Drains, AbstractStep, Delivery!Next, Delivery!Abandon
<1>4. CASE queue' # <<>>
  <2>1. Pending' = Pending
    BY <1>4 DEF WrapUp, CleanUp, Pending, Uploading, LastChunkOut
  <2> QED
    BY <1>1, <2>1, ClosingOnly DEF UploaderGone
<1> QED
  BY <1>3, <1>4

LEMMA EnvironmentRefines ==
  ASSUME RefineInv, Elapse \/ LoseClient \/ UNCHANGED vars
  PROVE  Drains
<1> USE DEF vars, uploaderVars, workerVars, callerVars, historyVars
<1>1. Pending' = Pending /\ acked' = acked
  BY DEF Elapse, LoseClient, Pending, Uploading, LastChunkOut
<1>2. present' = present /\ shutdown' = shutdown /\ up'.dead = up.dead
  BY DEF Elapse, LoseClient, TimePasses, ClientDies, RefineInv, ExecInv, TypeOK, Uploader
<1> QED
  BY <1>1, <1>2, ClosingOnly DEF UploaderGone

\* The executor delivers: chunks are acknowledged in the order they were queued,
\* each once and none skipped, and given up only when it closes.
THEOREM Implements == Spec => ImplementsUploadQueue
<1>1. Init => RefineInv /\ Delivery!Init
  <2> SUFFICES ASSUME Init
               PROVE  RefineInv /\ Delivery!Init
    OBVIOUS
  <2>1. ExecInv
    BY ExecInvInit
  <2>2. LastInv /\ Pending = <<>> /\ acked = <<>>
    BY DEF Init, LastInv, LastChunkOut, Pending
  <2> QED
    BY <2>1, <2>2 DEF RefineInv, Delivery!Init
<1>2. RefineInv /\ [Next]_vars => RefineInv'
  BY ExecInvStep, LastInvStep DEF RefineInv
<1>3. RefineInv /\ [Next]_vars => [Delivery!Next]_(Delivery!vars)
  BY CallerRefines, WaitingRefines, TakeRefines, UploadRefines, SettleRefines,
     WrapUpRefines, EnvironmentRefines DEF Next, Worker, Drains, AbstractStep
<1> QED
  BY <1>1, <1>2, <1>3, PTL DEF Spec, ImplementsUploadQueue, Delivery!Spec

-----------------------------------------------------------------------------
(***************************************************************************)
(* Indices.                                                                *)
(***************************************************************************)

\* The messages seen are as old as ever when none is added.
LEMMA OlderKept ==
  ASSUME NEW n \in Nat \ {0}, Older(n), Seen' \subseteq Seen \cup {Null, NoIndex}
  PROVE  \A x \in Seen' : x.index < n
BY DEF Older

LEMMA OrderInvKept ==
  ASSUME ExecInv, OrderInv, Seen' \subseteq Seen \cup {Null, NoIndex},
         index' = index, fresh' = fresh
  PROVE  /\ Older(index)'
         /\ (\A j \in DOMAIN fresh : Older(fresh[j].index) /\ fresh[j].index < index)'
         /\ Increasing(fresh)'
<1>1. index \in Nat \ {0} /\ fresh \in Seq(Chunk)
  BY DEF ExecInv, TypeOK
<1>2. \A j \in DOMAIN fresh : fresh[j] \in Chunk
  BY <1>1
<1>3. \A j \in DOMAIN fresh : fresh[j].index \in Nat \ {0}
  BY <1>2 DEF Chunk
<1>4. Older(index)'
  BY <1>1, OlderKept DEF OrderInv, Older
<1>5. ASSUME NEW j \in DOMAIN fresh
      PROVE  Older(fresh[j].index)'
  BY <1>3, OlderKept DEF OrderInv, Older
<1> QED
  BY <1>4, <1>5 DEF OrderInv, Increasing

\* Every slot, the message held and every message sent have an index.
LEMMA Indexed ==
  ASSUME TypeOK
  PROVE  /\ \A i \in DOMAIN queue : queue[i] \in Chunk \cup {Null} /\ queue[i].index \in Nat
         /\ held.index \in Int
         /\ \A m \in sent : m = <<m[1], m[2]>> /\ m[1] \in Chunk \cup {NoIndex} /\ m[2] \in BOOLEAN
<1>1. queue \in Seq(Chunk \cup {Null})
  BY DEF TypeOK
<1>2. \A i \in DOMAIN queue : queue[i] \in Chunk \cup {Null}
  BY <1>1
<1>3. \A x \in Chunk \cup {Null} : x.index \in Nat
  BY DEF Chunk
<1> QED
  BY <1>2, <1>3 DEF TypeOK, Chunk

IndexInv == OrderInv /\ TriedInv /\ IndexIdentifiesContent

\* Steps that move no message.
LEMMA IndexInvKept ==
  ASSUME ExecInv, IndexInv,
         UNCHANGED <<queue, held, sent, index, fresh, lastUploadSuccess>>,
         worker' # worker => /\ worker' \notin {"upload", "settle", "uploadLast", "cleanUp"}
                             /\ worker # "cleanUp" /\ worker # "exited"
                             /\ worker' = "takeLast" => lastUploadSuccess
  PROVE  IndexInv'
<1>1. Seen' = Seen
  BY DEF Seen
<1>2. OrderInv'
  BY <1>1, OrderInvKept DEF IndexInv, OrderInv, Increasing, Uploading, LastChunkOut
<1>3. TriedInv'
  BY DEF IndexInv, TriedInv, Untried
<1> QED
  BY <1>2, <1>3 DEF IndexInv, IndexIdentifiesContent

LEMMA SplitBatchIndex ==
  ASSUME ExecInv, IndexInv, SplitBatch
  PROVE  IndexInv'
<1> USE DEF uploaderVars, workerVars, callerVars, historyVars
<1>1. PICK n \in 1 .. MaxChunks :
        /\ fresh' = [i \in 1 .. n |-> [index |-> index + i - 1]]
        /\ index' = index + n
  BY DEF SplitBatch
<1>2. n \in Nat \ {0} /\ index \in Nat \ {0}
  BY BatchAssumption DEF ExecInv, TypeOK
<1>3. UNCHANGED <<queue, held, sent, worker, lastUploadSuccess>>
  BY DEF SplitBatch
<1>4. Seen' = Seen /\ Older(index)
  BY <1>3 DEF Seen, IndexInv, OrderInv
<1>5. \A x \in Seen : x.index \in Int
  <2>1. \A x \in Chunk \cup {Null, NoIndex} : x.index \in Int
    BY DEF Chunk
  <2> QED
    BY <2>1, Indexed DEF Seen, ExecInv, TypeOK
<1>6. DOMAIN fresh' = 1 .. n /\ \A j \in 1 .. n : fresh'[j].index = index + j - 1
  BY <1>1
<1>7. Older(index)' /\ \A j \in DOMAIN fresh' : Older(fresh[j].index)' /\ fresh'[j].index < index'
  BY <1>1, <1>2, <1>4, <1>5, <1>6 DEF Older
<1>8. Increasing(fresh)'
  BY <1>2, <1>6 DEF Increasing
<1>9. OrderInv'
  BY <1>3, <1>7, <1>8 DEF IndexInv, OrderInv, Increasing, Uploading, LastChunkOut
<1>10. TriedInv' /\ IndexIdentifiesContent'
  BY <1>3 DEF IndexInv, TriedInv, Untried, IndexIdentifiesContent
<1> QED
  BY <1>9, <1>10 DEF IndexInv

LEMMA EnqueueIndex ==
  ASSUME ExecInv, IndexInv, Enqueue
  PROVE  IndexInv'
<1> USE DEF uploaderVars, workerVars, callerVars, historyVars
<1>1. UNCHANGED <<index, held, sent, worker, lastUploadSuccess>> /\ fresh' = <<>>
  BY DEF Enqueue
<1>2. index \in Nat \ {0} /\ fresh \in Seq(Chunk)
  BY DEF ExecInv, TypeOK
<1>3. \A x \in Seen' : x \in Seen \/ \E j \in DOMAIN fresh : x = fresh[j]
  BY <1>1 DEF Enqueue, Seen
<1>4. Older(index)'
  BY <1>1, <1>3 DEF Older, IndexInv, OrderInv
<1>5. DOMAIN fresh' = {}
  BY <1>1
<1>6. CASE queue = <<>>
  <2>1. queue' = fresh /\ worker \notin {"upload", "settle", "uploadLast", "cleanUp"}
    BY <1>6 DEF Enqueue, ExecInv, FrontHole, Uploading, Closing
  <2>2. OrderInv'
    BY <1>1, <1>4, <1>5, <2>1
    DEF IndexInv, OrderInv, Increasing, Uploading, LastChunkOut
  <2>3. \A j \in DOMAIN fresh : Untried(fresh[j])
    <3>1. ASSUME NEW j \in DOMAIN fresh, NEW m \in sent PROVE m[1] # fresh[j]
      <4>1. fresh[j] \in Chunk
        BY <1>2
      <4>2. m[1].index < fresh[j].index /\ fresh[j].index \in Nat
        BY <4>1 DEF IndexInv, OrderInv, Older, Seen, Chunk
      <4> QED
        BY <4>2
    <3> QED
      BY <3>1 DEF Untried
  <2>4. fresh # <<>> => 1 \in DOMAIN fresh
    BY <1>2, EmptySeq, LenProperties
  <2>5. TriedInv'
    BY <1>1, <2>1, <2>3, <2>4 DEF IndexInv, TriedInv, Untried
  <2> QED
    BY <1>1, <2>2, <2>5 DEF IndexInv, IndexIdentifiesContent
<1>7. CASE queue # <<>>
  <2>1. queue' = queue
    BY <1>7 DEF Enqueue
  <2>2. OrderInv'
    BY <1>1, <1>4, <1>5, <2>1
    DEF IndexInv, OrderInv, Increasing, Uploading, LastChunkOut
  <2>3. TriedInv' /\ IndexIdentifiesContent'
    BY <1>1, <2>1 DEF IndexInv, TriedInv, Untried, IndexIdentifiesContent
  <2> QED
    BY <2>2, <2>3 DEF IndexInv
<1> QED
  BY <1>6, <1>7

LEMMA TakeIndex ==
  ASSUME ExecInv, IndexInv, Take \/ TakeLast
  PROVE  IndexInv'
<1> USE DEF uploaderVars, workerVars, callerVars, historyVars, Goto
<1>1. /\ UNCHANGED <<index, fresh, sent, lastUploadSuccess>>
      /\ \/ worker = "take" /\ worker' = "upload"
         \/ worker = "takeLast" /\ worker' = "uploadLast"
  BY DEF Take, TakeLast
<1>2. \A m \in sent : ~m[2]
  BY <1>1 DEF IndexInv, TriedInv
<1>3. IndexIdentifiesContent'
  BY <1>1 DEF IndexInv, IndexIdentifiesContent
<1>4. CASE queue = <<>>
  <2>1. queue' = <<>> /\ held' = NoIndex /\ worker' = "uploadLast"
    BY <1>1, <1>4 DEF TakeLast, Take, ExecInv, FrontHole
  <2>2. Seen' \subseteq Seen \cup {Null, NoIndex}
    BY <1>1, <1>4, <2>1 DEF Seen
  <2>3. OrderInv'
    BY <1>1, <2>1, <2>2, OrderInvKept DEF IndexInv, OrderInv, Increasing
  <2>4. TriedInv'
    BY <1>1, <1>2, <2>1 DEF IndexInv, TriedInv, Untried
  <2> QED
    BY <1>3, <2>3, <2>4 DEF IndexInv
<1>5. CASE queue # <<>>
  <2>1. held' = Head(queue) /\ queue' = <<Null>> \o Tail(queue)
    BY <1>5 DEF Take, TakeLast, TakeFront
  <2>2. queue \in Seq(Chunk \cup {Null})
    BY DEF ExecInv, TypeOK
  <2>3. Null \in Chunk \cup {Null}
    OBVIOUS
  <2>4. /\ DOMAIN queue' = DOMAIN queue /\ 1 \in DOMAIN queue /\ queue'[1] = Null
        /\ \A i \in DOMAIN queue \ {1} : queue'[i] = queue[i]
    BY <1>5, <2>1, <2>2, <2>3, FrontExchanged
  <2>5. held' = queue[1]
    BY <1>5, <2>1, <2>2, HeadTailProperties
  <2>6. DOMAIN queue = 1 .. Len(queue) /\ Len(queue) \in Nat
    BY <2>2, LenProperties
  <2>7. Seen' \subseteq Seen \cup {Null, NoIndex}
    BY <1>1, <2>4, <2>5 DEF Seen
  <2>8. \A i \in DOMAIN queue \ {1} : queue[1].index < queue[i].index /\ queue[i] \in Chunk
    <3>1. \A i \in DOMAIN queue \ {1} : 1 < i
      BY <2>6
    <3>2. \A i \in DOMAIN queue : queue[i] # Null
      BY <1>1 DEF ExecInv, FrontHole, Uploading, LastChunkOut
    <3>4. \A i \in DOMAIN queue : queue[i] \in Chunk
      BY <3>2, Indexed DEF ExecInv
    <3> QED
      BY <2>4, <3>1, <3>4 DEF IndexInv, OrderInv, Increasing
  <2>9. Increasing(queue)'
    <3>1. ASSUME NEW i \in DOMAIN queue, NEW j \in DOMAIN queue, i < j
          PROVE  queue'[i].index < queue'[j].index
      <4>1. j \in DOMAIN queue \ {1} /\ queue'[j] = queue[j] /\ queue[j].index \in Nat \ {0}
        BY <2>4, <2>6, <2>8, <3>1 DEF Chunk
      <4>2. CASE i = 1
        BY <2>4, <4>1, <4>2
      <4>3. CASE i # 1
        BY <2>4, <3>1, <4>1, <4>3 DEF IndexInv, OrderInv, Increasing
      <4> QED
        BY <4>2, <4>3
    <3> QED
      BY <2>4, <3>1 DEF Increasing
  <2>10. OrderInv'
    <3>1. \A i \in DOMAIN queue' \ {1} : held'.index < queue'[i].index
      BY <2>4, <2>5, <2>8
    <3>2. /\ Older(index)'
          /\ (\A j \in DOMAIN fresh : Older(fresh[j].index) /\ fresh[j].index < index)'
          /\ Increasing(fresh)'
      BY <1>1, <2>7, OrderInvKept DEF IndexInv
    <3> QED
      BY <2>9, <3>1, <3>2 DEF OrderInv
  <2>11. TriedInv'
    <3>1. \A m \in sent : m[1] # Null
      BY Indexed DEF ExecInv, Chunk
    <3>2. worker' = "uploadLast" => Untried(queue[1])
      BY <1>1, <1>5 DEF IndexInv, TriedInv
    <3> QED
      BY <1>1, <1>2, <2>4, <2>5, <3>1, <3>2 DEF IndexInv, TriedInv, Untried
  <2> QED
    BY <1>3, <2>10, <2>11 DEF IndexInv
<1> QED
  BY <1>4, <1>5

LEMMA UploadIndex ==
  ASSUME ExecInv, LastInv, IndexInv, UploadFront \/ UploadLast
  PROVE  IndexInv'
<1> USE DEF uploaderVars, workerVars, callerVars, historyVars, Goto
<1>1. UNCHANGED <<queue, index, fresh, held, lastUploadSuccess>>
  BY DEF UploadFront, UploadLast
<1>2. /\ \A m \in sent : ~m[2]
      /\ \A m \in sent : m = <<m[1], m[2]>> /\ m[1] \in Chunk \cup {NoIndex} /\ m[2] \in BOOLEAN
  BY Indexed DEF UploadFront, UploadLast, IndexInv, TriedInv, ExecInv
<1>3. /\ \/ worker = "upload" /\ worker' = "settle"
         \/ worker = "uploadLast" /\ worker' = "cleanUp"
      /\ held # Null /\ held \in Chunk \cup {NoIndex}
      /\ worker = "upload" => held # NoIndex
      /\ worker = "uploadLast" => Untried(held)
  <2>1. held \in Chunk => held # Null /\ held # NoIndex
    BY DEF Chunk
  <2> QED
    BY <2>1 DEF UploadFront, UploadLast, ExecInv, TypeOK, FrontHole, Uploading, LastChunkOut,
       IndexInv, TriedInv
<1>4. \A m \in sent' : m \in sent \/ /\ m[1] = held /\ m = <<m[1], m[2]>>
                                     /\ m[2] <=> worker = "uploadLast"
                                     /\ m[2] \in BOOLEAN
  <2>1. CASE UploadFront
    <3>1. sent' = sent \/ sent' = sent \cup {<<held, FALSE>>}
      BY <2>1 DEF UploadFront, CallUpload
    <3>2. ASSUME NEW m \in sent', m \notin sent
          PROVE  m[1] = held /\ ~m[2] /\ m[2] \in BOOLEAN /\ m = <<m[1], m[2]>>
      <4>1. m = <<held, FALSE>>
        BY <3>1, <3>2
      <4>2. m[1] = held
        BY <4>1
      <4>3. ~m[2]
        BY <4>1
      <4>4. m[2] \in BOOLEAN /\ m = <<m[1], m[2]>>
        BY <4>1
      <4> QED
        BY <4>2, <4>3, <4>4
    <3>3. worker = "upload"
      BY <2>1 DEF UploadFront
    <3> QED
      BY <3>2, <3>3
  <2>2. CASE UploadLast
    <3>1. sent' = sent \/ sent' = sent \cup {<<held, TRUE>>}
      BY <2>2 DEF UploadLast, CallUpload
    <3>2. ASSUME NEW m \in sent', m \notin sent
          PROVE  m[1] = held /\ m[2] /\ m[2] \in BOOLEAN /\ m = <<m[1], m[2]>>
      <4>1. m = <<held, TRUE>>
        BY <3>1, <3>2
      <4>2. m[1] = held
        BY <4>1
      <4>3. m[2]
        BY <4>1
      <4>4. m[2] \in BOOLEAN /\ m = <<m[1], m[2]>>
        BY <4>1
      <4> QED
        BY <4>2, <4>3, <4>4
    <3>3. worker = "uploadLast"
      BY <2>2 DEF UploadLast
    <3> QED
      BY <3>2, <3>3
  <2> QED
    BY <2>1, <2>2
<1>5. Seen' \subseteq Seen
  BY <1>1, <1>4 DEF Seen
<1>6. OrderInv'
  BY <1>1, <1>3, <1>5, OrderInvKept DEF IndexInv, OrderInv, Increasing, Uploading, LastChunkOut
<1>7. /\ \A i \in DOMAIN queue \ {1} : queue[i] # held
      /\ queue # <<>> => queue[1] # held
  <2>1. \A i \in DOMAIN queue \ {1} : held.index < queue[i].index
    BY <1>3 DEF IndexInv, OrderInv, Uploading, LastChunkOut
  <2>2. queue # <<>> => queue[1] = Null
    <3>1. queue \in Seq(Chunk \cup {Null})
      BY DEF ExecInv, TypeOK
    <3>2. queue # <<>> => 1 \in DOMAIN queue
      BY <3>1, EmptySeq, LenProperties
    <3> QED
      BY <1>3, <3>2 DEF ExecInv, FrontHole, Uploading, LastChunkOut
  <2>3. held.index \in Int
    BY Indexed DEF ExecInv
  <2> QED
    BY <1>3, <2>1, <2>2, <2>3
<1>8. TriedInv'
  <2>1. \A m \in sent' : m[2] => worker' \in {"cleanUp", "exited"}
    BY <1>2, <1>3, <1>4
  <2>2. \A m \in sent' : m[1] = NoIndex => m[2]
    BY <1>3, <1>4 DEF IndexInv, TriedInv
  <2>3. \A i \in DOMAIN queue \ {1} : Untried(queue[i])'
    BY <1>1, <1>4, <1>7 DEF IndexInv, TriedInv, Untried
  <2>4. lastUploadSuccess /\ queue # <<>> => Untried(queue[1])'
    BY <1>1, <1>4, <1>7 DEF IndexInv, TriedInv, Untried
  <2> QED
    BY <1>1, <1>3, <2>1, <2>2, <2>3, <2>4 DEF TriedInv
<1>9. IndexIdentifiesContent'
  <2>1. ASSUME NEW m \in sent, m[1] = held, NEW n \in sent', n \notin sent
        PROVE  m = n
    <3>1. worker # "uploadLast"
      BY <1>3, <2>1 DEF Untried
    <3>2. ~m[2] /\ ~n[2]
      BY <1>2, <1>4, <2>1, <3>1
    <3>3. /\ m = <<m[1], m[2]>> /\ n = <<n[1], n[2]>> /\ n[1] = held
          /\ m[2] \in BOOLEAN /\ n[2] \in BOOLEAN
      BY <1>2, <1>4, <2>1
    <3> QED
      BY <2>1, <3>2, <3>3
  <2>2. ASSUME NEW m \in sent', NEW n \in sent', m \notin sent, n \notin sent
        PROVE  m = n
    <3>1. m[1] = n[1] /\ (m[2] <=> n[2])
      BY <1>4, <2>2
    <3>2. /\ m = <<m[1], m[2]>> /\ n = <<n[1], n[2]>>
          /\ m[2] \in BOOLEAN /\ n[2] \in BOOLEAN
      BY <1>4, <2>2
    <3> QED
      BY <3>1, <3>2
  <2> QED
    BY <1>4, <2>1, <2>2 DEF IndexInv, IndexIdentifiesContent
<1> QED
  BY <1>6, <1>8, <1>9 DEF IndexInv

LEMMA SettleIndex ==
  ASSUME ExecInv, IndexInv, Settle
  PROVE  IndexInv'
<1> USE DEF uploaderVars, workerVars, callerVars, historyVars, Goto
<1>1. /\ UNCHANGED <<index, fresh, sent>> /\ lastUploadSuccess' = result /\ held' = Null
      /\ worker = "settle" /\ worker' \in {"waitForWork", "giveUp"}
  BY DEF Settle
<1>2. /\ queue \in Seq(Chunk \cup {Null}) /\ queue # <<>> /\ held \in Chunk
      /\ \A i \in DOMAIN queue \ {1} : held.index < queue[i].index
  BY <1>1 DEF ExecInv, TypeOK, FrontHole, IndexInv, OrderInv, Uploading
<1>3. \A i \in DOMAIN queue \ {1} : Untried(queue[i])
  BY DEF IndexInv, TriedInv
<1>4. DOMAIN queue = 1 .. Len(queue) /\ Len(queue) \in Nat
  BY <1>2, LenProperties
<1>5. IndexIdentifiesContent'
  BY <1>1 DEF IndexInv, IndexIdentifiesContent
<1>6. CASE result
  <2>1. queue' = Tail(queue)
    BY <1>6 DEF Settle
  <2>2. /\ queue' \in Seq(Chunk \cup {Null})
        /\ \A i \in DOMAIN queue' : i + 1 \in DOMAIN queue \ {1} /\ queue'[i] = queue[i + 1]
    BY <1>2, <2>1, FrontPopped
  <2>3. DOMAIN queue' = 1 .. Len(queue')
    BY <2>2, LenProperties
  <2>4. Increasing(queue)'
    <3>1. ASSUME NEW i \in DOMAIN queue', NEW j \in DOMAIN queue', i < j
          PROVE  queue'[i].index < queue'[j].index
      <4>1. i + 1 < j + 1
        BY <2>2, <2>3, <3>1
      <4> QED
        BY <2>2, <4>1 DEF IndexInv, OrderInv, Increasing
    <3> QED
      BY <3>1 DEF Increasing
  <2>5. Seen' \subseteq Seen \cup {Null, NoIndex}
    BY <1>1, <2>2 DEF Seen
  <2>6. OrderInv'
    BY <1>1, <2>4, <2>5, OrderInvKept DEF IndexInv, OrderInv, Uploading, LastChunkOut
  <2>7. \A i \in DOMAIN queue' : Untried(queue'[i])
    BY <1>3, <2>2
  <2>8. queue' # <<>> => 1 \in DOMAIN queue'
    BY <2>2, EmptySeq, LenProperties
  <2>9. TriedInv'
    BY <1>1, <2>7, <2>8 DEF IndexInv, TriedInv, Untried
  <2> QED
    BY <1>5, <2>6, <2>9 DEF IndexInv
<1>7. CASE ~result
  <2>1. queue' = <<held>> \o Tail(queue)
    BY <1>7 DEF Settle
  <2>2. /\ DOMAIN queue' = DOMAIN queue /\ 1 \in DOMAIN queue /\ queue'[1] = held
        /\ \A i \in DOMAIN queue \ {1} : queue'[i] = queue[i]
    BY <1>2, <2>1, FrontExchanged
  <2>3. Increasing(queue)'
    <3>1. ASSUME NEW i \in DOMAIN queue, NEW j \in DOMAIN queue, i < j
          PROVE  queue'[i].index < queue'[j].index
      <4>1. j \in DOMAIN queue \ {1} /\ queue'[j] = queue[j]
        BY <1>4, <2>2, <3>1
      <4>2. CASE i = 1
        BY <1>2, <2>2, <4>1, <4>2
      <4>3. CASE i # 1
        BY <2>2, <3>1, <4>1, <4>3 DEF IndexInv, OrderInv, Increasing
      <4> QED
        BY <4>2, <4>3
    <3> QED
      BY <2>2, <3>1 DEF Increasing
  <2>4. Seen' \subseteq Seen \cup {Null, NoIndex}
    BY <1>1, <2>2 DEF Seen
  <2>5. OrderInv'
    BY <1>1, <2>3, <2>4, OrderInvKept DEF IndexInv, OrderInv, Uploading, LastChunkOut
  <2>6. TriedInv'
    BY <1>1, <1>3, <1>7, <2>2 DEF IndexInv, TriedInv, Untried
  <2> QED
    BY <1>5, <2>5, <2>6 DEF IndexInv
<1> QED
  BY <1>6, <1>7

LEMMA WrapUpIndex ==
  ASSUME ExecInv, IndexInv, WrapUp \/ CleanUp
  PROVE  IndexInv'
<1> USE DEF uploaderVars, workerVars, callerVars, historyVars, Goto
<1>1. UNCHANGED <<index, fresh, sent, lastUploadSuccess>> /\ held' \in {held, Null}
  BY DEF WrapUp, CleanUp
<1>2. IndexIdentifiesContent'
  BY <1>1 DEF IndexInv, IndexIdentifiesContent
<1>3. CASE queue' = <<>> /\ worker' = "exited"
  <2>1. Seen' \subseteq Seen \cup {Null, NoIndex}
    BY <1>1, <1>3 DEF Seen
  <2>2. OrderInv'
    BY <1>1, <1>3, <2>1, OrderInvKept DEF IndexInv, OrderInv, Increasing
  <2>3. TriedInv'
    BY <1>1, <1>3 DEF IndexInv, TriedInv, Untried
  <2> QED
    BY <1>2, <2>2, <2>3 DEF IndexInv
<1>4. CASE ~(queue' = <<>> /\ worker' = "exited")
  BY <1>4, IndexInvKept DEF WrapUp, CleanUp, ExecInv, TypeOK
<1> QED
  BY <1>3, <1>4

\* The invariants together hold of every behaviour of the executor.
LEMMA IndicesHold == Spec => [](RefineInv /\ IndexInv)
<1>1. Init => RefineInv /\ IndexInv
  <2> SUFFICES ASSUME Init
               PROVE  RefineInv /\ IndexInv
    OBVIOUS
  <2>1. ExecInv /\ LastInv
    BY ExecInvInit DEF Init, LastInv, LastChunkOut
  <2>2. Seen = {Null} /\ DOMAIN queue = {} /\ DOMAIN fresh = {}
    BY DEF Init, Seen
  <2>3. OrderInv
    BY <2>2 DEF Init, OrderInv, Older, Increasing
  <2>4. TriedInv /\ IndexIdentifiesContent
    BY <2>2 DEF Init, TriedInv, IndexIdentifiesContent
  <2> QED
    BY <2>1, <2>3, <2>4 DEF RefineInv, IndexInv
<1>2. RefineInv /\ [Next]_vars => RefineInv'
  BY ExecInvStep, LastInvStep DEF RefineInv
<1>3. RefineInv /\ IndexInv /\ [Next]_vars => IndexInv'
  <2> SUFFICES ASSUME ExecInv, LastInv, IndexInv, [Next]_vars
               PROVE  IndexInv'
    BY DEF RefineInv
  <2> USE DEF uploaderVars, workerVars, callerVars, historyVars
  <2>1. CASE Start \/ WaitForWorkOrShutdown \/ WaitForTimeoutOrShutdown \/ GiveUp
    BY <2>1, IndexInvKept
    DEF Start, WaitForWorkOrShutdown, WaitForTimeoutOrShutdown, GiveUp, Goto
  <2>2. CASE Shutdown \/ Join \/ Elapse \/ LoseClient \/ UNCHANGED vars
    BY <2>2, IndexInvKept DEF Shutdown, Join, Elapse, LoseClient, vars
  <2> QED
    BY <2>1, <2>2, SplitBatchIndex, EnqueueIndex, TakeIndex, UploadIndex, SettleIndex,
       WrapUpIndex DEF Next, Worker, Caller
<1> QED
  BY <1>1, <1>2, <1>3, PTL DEF Spec

\* No two messages handed to the client carry one index, although a chunk is
\* sent again and again and the last one gets an entry added.
THEOREM IndexIsUnique == Spec => []IndexIdentifiesContent
<1>1. IndexInv => IndexIdentifiesContent
  BY DEF IndexInv
<1> QED
  BY <1>1, IndicesHold, PTL

-----------------------------------------------------------------------------
(***************************************************************************)
(* The order of the acknowledgements.                                      *)
(***************************************************************************)

\* A sequence that what has been split, and what is to come, will follow.
Before(s) ==
  \A i \in DOMAIN s : /\ s[i].index < index
                      /\ \A j \in DOMAIN fresh : s[i].index < fresh[j].index

\* What has been acknowledged is older than all that is pending, split or still
\* to come; what is pending is in order, even while its front is out.
AckInv ==
  /\ AckedInOrder /\ Before(acked)
  /\ Pending \in Seq(Chunk) /\ Increasing(Pending) /\ Before(Pending)
  /\ \A i \in DOMAIN acked, j \in DOMAIN Pending : acked[i].index < Pending[j].index

\* The elements of the sequences have numbers for indices.
LEMMA NumberedChunks ==
  ASSUME NEW s \in Seq(Chunk)
  PROVE  \A i \in DOMAIN s : s[i] \in Chunk /\ s[i].index \in Nat \ {0}
<1>1. \A i \in DOMAIN s : s[i] \in Chunk
  OBVIOUS
<1> QED
  BY <1>1 DEF Chunk

\* The step of the caller that numbers new chunks.
LEMMA SplitBatchAcks ==
  ASSUME ExecInv, AckInv, SplitBatch
  PROVE  AckInv'
<1> USE DEF uploaderVars, workerVars, callerVars, historyVars
<1>1. Pending' = Pending /\ acked' = acked
  BY DEF SplitBatch, Pending, Uploading, LastChunkOut
<1>2. PICK n \in 1 .. MaxChunks : /\ fresh' = [i \in 1 .. n |-> [index |-> index + i - 1]]
                                 /\ index' = index + n
  BY DEF SplitBatch
<1>3. index \in Nat /\ n \in Nat \ {0}
  BY BatchAssumption DEF ExecInv, TypeOK
<1>4. ASSUME NEW s \in Seq(Chunk), Before(s)
      PROVE  \A i \in DOMAIN s : /\ s[i].index < index'
                                 /\ \A j \in DOMAIN fresh' : s[i].index < fresh'[j].index
  <2>1. \A i \in DOMAIN s : s[i].index \in Nat /\ s[i].index < index
    BY <1>4, NumberedChunks DEF Before
  <2>2. \A j \in DOMAIN fresh' : j \in 1 .. n /\ fresh'[j].index = index + j - 1
    BY <1>2
  <2> QED
    BY <1>2, <1>3, <2>1, <2>2
<1>5. Before(acked)' /\ Before(Pending)'
  BY <1>1, <1>4 DEF AckInv, ExecInv, TypeOK, Before
<1> QED
  BY <1>1, <1>5 DEF AckInv, AckedInOrder, Increasing

\* The step of the caller that queues them.
LEMMA EnqueueAcks ==
  ASSUME RefineInv, OrderInv, AckInv, Enqueue
  PROVE  AckInv'
<1> USE DEF uploaderVars, workerVars, callerVars, historyVars
<1>1. /\ UNCHANGED <<present, up, shutdown, worker, held, result, acked, index>>
      /\ fresh' = <<>> /\ fresh \in Seq(Chunk)
  BY DEF Enqueue, RefineInv, ExecInv, TypeOK
<1>2. CASE queue = <<>>
  <2>1. worker \notin {"upload", "settle", "uploadLast", "cleanUp"}
    BY <1>2 DEF Enqueue, RefineInv, ExecInv, FrontHole, Uploading, Closing
  <2>2. Pending' = fresh
    BY <1>1, <1>2, <2>1 DEF Enqueue, Pending, Uploading, LastChunkOut
  <2> QED
    BY <1>1, <2>2 DEF AckInv, AckedInOrder, OrderInv, Increasing, Before
<1>3. CASE queue # <<>>
  <2>1. Pending' = Pending
    BY <1>1, <1>3 DEF Enqueue, Pending, Uploading, LastChunkOut
  <2> QED
    BY <1>1, <2>1 DEF AckInv, AckedInOrder, Increasing, Before
<1> QED
  BY <1>2, <1>3

\* All others take the front off, give everything up, or change nothing of this.
LEMMA DrainAcks ==
  ASSUME RefineInv, AckInv, Drains, UNCHANGED <<index, fresh>>
  PROVE  AckInv'
<1>1. acked \in Seq(Chunk) /\ Pending \in Seq(Chunk)
  BY DEF RefineInv, ExecInv, TypeOK, AckInv
<1>2. CASE Delivery!Acknowledge
  <2> DEFINE front == Head(Pending)
             rest == Tail(Pending)
  <2>1. Pending # <<>> /\ acked' = Append(acked, front) /\ Pending' = rest
    BY <1>2 DEF Delivery!Acknowledge
  <2>2. /\ front \in Chunk /\ front = Pending[1] /\ 1 \in DOMAIN Pending
        /\ rest \in Seq(Chunk)
        /\ \A j \in DOMAIN rest : /\ j + 1 \in DOMAIN Pending /\ 1 < j + 1
                                  /\ rest[j] = Pending[j + 1]
    <3>1. /\ Len(Pending) \in Nat \ {0} /\ DOMAIN Pending = 1 .. Len(Pending)
      BY <1>1, <2>1, EmptySeq, LenProperties
    <3>2. /\ front \in Chunk /\ front = Pending[1] /\ rest \in Seq(Chunk)
          /\ Len(rest) = Len(Pending) - 1
          /\ \A j \in 1 .. Len(rest) : rest[j] = Pending[j + 1]
      BY <1>1, <2>1, HeadTailProperties
    <3>3. DOMAIN rest = 1 .. Len(rest)
      BY <3>2, LenProperties
    <3> HIDE DEF front, rest
    <3> QED
      BY <3>1, <3>2, <3>3
  <2> HIDE DEF front, rest
  <2>3. /\ DOMAIN acked = 1 .. Len(acked) /\ DOMAIN acked' = 1 .. Len(acked) + 1
        /\ Len(acked) \in Nat
        /\ \A i \in DOMAIN acked : acked'[i] = acked[i]
        /\ acked'[Len(acked) + 1] = front
    BY <1>1, <2>1, <2>2, AppendProperties, LenProperties
  <2>4. \A i \in DOMAIN acked : acked[i].index < front.index
    BY <2>2 DEF AckInv
  <2>5. /\ front.index < index
        /\ \A j \in DOMAIN fresh : front.index < fresh[j].index
        /\ \A j \in DOMAIN rest : front.index < rest[j].index
    BY <2>2 DEF AckInv, Before, Increasing
  <2>6. AckedInOrder'
    BY <2>3, <2>4 DEF AckInv, AckedInOrder
  <2>7. Before(acked)'
    BY <2>3, <2>5 DEF AckInv, Before
  <2>8. (Pending \in Seq(Chunk) /\ Increasing(Pending) /\ Before(Pending))'
    BY <2>1, <2>2 DEF AckInv, Increasing, Before
  <2>9. (\A i \in DOMAIN acked, j \in DOMAIN Pending : acked[i].index < Pending[j].index)'
    BY <2>1, <2>2, <2>3, <2>5 DEF AckInv
  <2> QED
    BY <2>6, <2>7, <2>8, <2>9 DEF AckInv
<1>3. CASE Pending' = <<>> /\ acked' = acked
  BY <1>3 DEF AckInv, AckedInOrder, Increasing, Before
<1>4. CASE Pending' = Pending /\ acked' = acked
  BY <1>4 DEF AckInv, AckedInOrder, Increasing, Before
<1> QED
  BY <1>2, <1>3, <1>4 DEF Drains, AbstractStep, Delivery!Next, Delivery!vars,
     Delivery!Accept, Delivery!Close, Delivery!Abandon

\* The server acknowledges each message once and in the order of their indices,
\* over all batches, whatever uploads fail and whenever the executor closes.
THEOREM AcknowledgedInOrder == Spec => []AckedInOrder
<1>1. Init => AckInv
  <2> SUFFICES ASSUME Init
               PROVE  AckInv
    OBVIOUS
  <2>1. Pending = <<>> /\ acked = <<>>
    BY DEF Init, Pending
  <2> QED
    BY <2>1 DEF AckInv, AckedInOrder, Increasing, Before
<1>2. RefineInv /\ IndexInv /\ AckInv /\ [Next]_vars => AckInv'
  <2> SUFFICES ASSUME RefineInv, OrderInv, AckInv, [Next]_vars
               PROVE  AckInv'
    BY DEF IndexInv
  <2> USE DEF uploaderVars, workerVars, callerVars, historyVars
  <2>1. CASE Worker \/ Elapse \/ LoseClient \/ UNCHANGED vars
    <3>1. Drains
      BY <2>1, WaitingRefines, TakeRefines, UploadRefines, SettleRefines, WrapUpRefines,
         EnvironmentRefines DEF Worker
    <3>2. UNCHANGED <<index, fresh>>
      BY <2>1 DEF Worker, Start, WaitForWorkOrShutdown, WaitForTimeoutOrShutdown, Take,
         UploadFront, Settle, GiveUp, WrapUp, TakeLast, UploadLast, CleanUp, Elapse,
         LoseClient, vars
    <3> QED
      BY <3>1, <3>2, DrainAcks
  <2>2. CASE Shutdown \/ Join
    <3>1. Pending' = Pending /\ UNCHANGED <<acked, index, fresh>>
      BY <2>2 DEF Shutdown, Join, Pending, Uploading, LastChunkOut
    <3> QED
      BY <3>1 DEF AckInv, AckedInOrder, Increasing, Before
  <2> QED
    BY <2>1, <2>2, SplitBatchAcks, EnqueueAcks DEF Next, Caller, RefineInv
<1>3. AckInv => AckedInOrder
  BY DEF AckInv
<1> QED
  BY <1>1, <1>2, <1>3, IndicesHold, PTL DEF Spec
=============================================================================
