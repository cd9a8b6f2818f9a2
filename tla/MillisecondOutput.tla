-------------------------- MODULE MillisecondOutput -------------------------
(***************************************************************************)
(* MillisecondBandwidthOutput as a record, with an operator for each of    *)
(* its methods: the buffer of batches that windows of bandwidth samples    *)
(* are copied to, from the batch the last window ended in, and the file    *)
(* that it is saved to.  BandwidthWindow calls it.                         *)
(*                                                                         *)
(* A NIC's samples of one direction in all batches are one function over   *)
(* positions; batch b has those from b * BatchSamples on.  The file is the *)
(* number of bytes saved; time stamps and rotation are left out.           *)
(***************************************************************************)
EXTENDS Integers, Sequences, FiniteSets, SequencesExt, FiniteSetsExt

CONSTANTS
  Nic,
  BucketTime,      \* bucket_size_in_msec_
  BatchTime,       \* batch_size_in_msec_
  OutputInterval   \* time between two calls of SaveBandwidthStats

Dir == {"Send", "Recv"}  \* tx and rx

BatchSamples == BatchTime \div BucketTime
Batches == ((OutputInterval \div BatchTime) * 3) \div 2
Position == 0 .. Batches * BatchSamples - 1

ASSUME MillisecondAssumption ==
  /\ IsFiniteSet(Nic)
  /\ BucketTime \in Nat \ {0} /\ BatchTime \in Nat \ {0}
  /\ OutputInterval \in Nat
  /\ BatchSamples > 0 /\ Batches > 0

\* once all NICs have been allocated
MillisecondInit(diff) ==
  [cells |-> [nic \in Nic |-> [d \in Dir |-> [p \in Position |-> 0]]],
   diff |-> diff,     \* time_diff_
   time |-> 0,        \* current_time_
   current |-> 0, next |-> 0,  \* current_batch_, next_batch_
   enabled |-> TRUE,
   open |-> TRUE,     \* out_
   saved |-> [d \in Dir |-> 0]]

RegisterCurrentTime(ms, now) ==
  [ms EXCEPT !.time = ms.diff + now, !.current = ms.next]

Second == 1000

OffsetWithinBatch(ms) == ((ms.time % Second) \div BucketTime) % BatchSamples

CopyOverBandwidthStats(ms, d, nic, data) ==
  LET first == ms.current * BatchSamples + OffsetWithinBatch(ms)
  IN  [ms EXCEPT
         !.cells[nic][d] = [p \in Position |->
            IF p \in first .. first + Len(data) - 1 THEN data[p - first + 1] ELSE @[p]],
         !.next = (first + Len(data)) \div BatchSamples]

Sum(f, indices) == MapThenSumSet(LAMBDA i : f[i], indices)

BytesIn(ms, d, positions) == Sum([nic \in Nic |-> Sum(ms.cells[nic][d], positions)], Nic)

\* the first batches go to the file, if it is open
Save(ms, batches) ==
  IF ms.open
  THEN [d \in Dir |-> ms.saved[d] + BytesIn(ms, d, 0 .. batches * BatchSamples - 1)]
  ELSE ms.saved

\* mutant: the batch that was copied is not zeroed
MovedToFrontKept(cells, batch) ==
  [p \in Position |->
     IF p < BatchSamples THEN cells[batch * BatchSamples + p]
     ELSE IF p \div BatchSamples < batch THEN 0
     ELSE cells[p]]

\* the batches before this one are zeroed, it is copied to the first and
\* zeroed too, which erases the first batch if that is the one
MovedToFront(cells, batch) ==
  [p \in Position |->
     IF p \div BatchSamples = batch THEN 0
     ELSE IF p < BatchSamples THEN cells[batch * BatchSamples + p]
     ELSE IF p \div BatchSamples < batch THEN 0
     ELSE cells[p]]

\* the periodic call, without the incomplete batch
SaveBandwidthStats(ms) ==
  [ms EXCEPT
     !.saved = Save(ms, ms.current),
     !.cells = [nic \in Nic |-> [d \in Dir |-> MovedToFront(ms.cells[nic][d], ms.current)]],
     !.current = 0, !.next = 0]

\* the last call, with it
CloseOutBandwidthStats(ms) ==
  IF ms.enabled
  THEN [ms EXCEPT !.saved = Save(ms, ms.current + 1), !.open = FALSE, !.enabled = FALSE]
  ELSE ms
=============================================================================
