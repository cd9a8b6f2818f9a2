---------------------------- MODULE SplitMessage ----------------------------
(***************************************************************************)
(* SplitAllStatsMessageIntoQ: a telemetry message is moved, field by field *)
(* and each field from its last element to its first, into sub-messages;   *)
(* a sub-message is put into the queue when the next element would make it *)
(* larger than the server accepts.                                         *)
(*                                                                         *)
(* An element is its position in the field, of which the model knows the   *)
(* wire size.  splitField receives a pointer to a field of the sub-message *)
(* that is current when it is called, and keeps it: "destination" is that  *)
(* sub-message, also after it has gone into the queue.                     *)
(***************************************************************************)
EXTENDS Integers, SequencesExt, FiniteSetsExt

CONSTANTS
  Sizes,           \* wire sizes of elements
  BytesPerMessage, \* bytes_per_message
  MaxElements      \* bound on the elements of a field

ASSUME SizeAssumption ==
  /\ Sizes \subseteq Nat \ {0}
  /\ BytesPerMessage \in Nat /\ MaxElements \in Nat

Field == {"events_log", "conn_stats", "events"}

\* mutant: the statistics are split before the log entries
FieldOrderStatsFirst == <<"conn_stats", "events_log", "events">>

FieldOrder == <<"events_log", "conn_stats", "events">>

VARIABLES
  msg,         \* the sizes of the message's elements
  fieldNo,     \* which call of splitField is running
  left,        \* the elements of its field still in the message
  destination, \* the sub-message its elements go to
  subs,        \* the sub-messages: all but the last, sub_m, are in the queue
  cumulative   \* current_cumulative_size

vars == <<msg, fieldNo, left, destination, subs, cumulative>>

EmptySub == [f \in Field |-> <<>>]
Current == FieldOrder[fieldNo]

Init ==
  /\ msg \in [Field -> UNION {[1 .. n -> Sizes] : n \in 0 .. MaxElements}]
  /\ fieldNo = 1
  /\ left = Len(msg[Current])
  /\ destination = 1
  /\ subs = <<EmptySub>>
  /\ cumulative = 0

\* mutant: a sub-message that would be exactly full is sealed too early
FullAtLimit(size) == cumulative # 0 /\ cumulative + size >= BytesPerMessage

Full(size) == cumulative # 0 /\ cumulative + size > BytesPerMessage

\* one turn of splitField's loop
MoveElement ==
  /\ fieldNo <= Len(FieldOrder) /\ left > 0
  /\ LET size == msg[Current][left]
         kept == IF Full(size) THEN Append(subs, EmptySub) ELSE subs
     IN  /\ subs' = [kept EXCEPT ![destination][Current] = Append(@, left)]
         /\ cumulative' = IF Full(size) THEN size ELSE cumulative + size
  /\ left' = left - 1
  /\ UNCHANGED <<msg, fieldNo, destination>>

\* mutant: the loop does not reach the first element of a field
NextFieldEarly ==
  /\ fieldNo <= Len(FieldOrder) /\ left <= 1
  /\ fieldNo' = fieldNo + 1
  /\ left' = IF fieldNo < Len(FieldOrder) THEN Len(msg[FieldOrder[fieldNo + 1]]) ELSE 0
  /\ destination' = Len(subs)
  /\ UNCHANGED <<msg, subs, cumulative>>

\* mutant: the destination is a sub-message that does not exist yet
NextFieldAhead ==
  /\ fieldNo <= Len(FieldOrder) /\ left = 0
  /\ fieldNo' = fieldNo + 1
  /\ left' = IF fieldNo < Len(FieldOrder) THEN Len(msg[FieldOrder[fieldNo + 1]]) ELSE 0
  /\ destination' = Len(subs) + 1
  /\ UNCHANGED <<msg, subs, cumulative>>

\* the next call of splitField; after the last one, sub_m goes into the queue
NextField ==
  /\ fieldNo <= Len(FieldOrder) /\ left = 0
  /\ fieldNo' = fieldNo + 1
  /\ left' = IF fieldNo < Len(FieldOrder) THEN Len(msg[FieldOrder[fieldNo + 1]]) ELSE 0
  /\ destination' = Len(subs)
  /\ UNCHANGED <<msg, subs, cumulative>>

Next == MoveElement \/ NextField

Spec == Init /\ [][Next]_vars

-----------------------------------------------------------------------------
TypeOK ==
  /\ msg \in [Field -> Seq(Sizes)]
  /\ fieldNo \in 1 .. Len(FieldOrder) + 1
  /\ left \in 0 .. MaxElements
  /\ subs \in Seq([Field -> Seq(1 .. MaxElements)])
  /\ destination \in 1 .. Len(subs)
  /\ cumulative \in Nat

Done == fieldNo > Len(FieldOrder)

Contents(f, n) ==
  LET upTo[k \in 0 .. n] == IF k = 0 THEN <<>> ELSE upTo[k - 1] \o subs[k][f]
  IN  upTo[n]

(***************************************************************************)
(* The queue holds what the message held, each element once: read in order,*)
(* the sub-messages give every field backwards                             *)
(* (nccl_stats_uploader_executor_test.cc:42-94 relies on that order).      *)
(***************************************************************************)
ContentKept ==
  Done => \A f \in Field :
            LET n == Len(msg[f])
            IN  Contents(f, Len(subs)) = [i \in 1 .. n |-> n + 1 - i]

(***************************************************************************)
(* "Prioritize on processing all the LogEntry" (cc:126-127): no log entry  *)
(* is uploaded after a statistic or an event, of which a shutdown would    *)
(* lose all but the first.                                                 *)
(***************************************************************************)
LogEntriesFirst ==
  \A i, j \in DOMAIN subs :
    i < j => subs[j]["events_log"] = <<>> \/ \A f \in Field \ {"events_log"} : subs[i][f] = <<>>

(***************************************************************************)
(* As many messages are sent as the limit makes necessary and no more: no  *)
(* division of the elements, in the order they are taken, into groups that *)
(* fit has fewer groups than there are sub-messages, and one has as many.  *)
(* A message with no elements is sent all the same, as a heart beat.       *)
(* (This counts the messages; what is in them is ChunksFit's matter.)      *)
(***************************************************************************)
Taken ==
  LET field(k) == Reverse(msg[FieldOrder[k]])
  IN  field(1) \o field(2) \o field(3)

SumOf(s, first, last) == MapThenSumSet(LAMBDA k : s[k], first .. last)

\* "ends" are the last positions of the groups
Group(ends, first, last) ==
  /\ last \in ends /\ first <= last
  /\ first - 1 \in ends \cup {0}
  /\ \A k \in first .. last - 1 : k \notin ends

Fits(s, ends) ==
  \A first, last \in 1 .. Len(s) :
    Group(ends, first, last) => first = last \/ SumOf(s, first, last) <= BytesPerMessage

Divisions(s) == {ends \in SUBSET (1 .. Len(s)) : Len(s) \in ends /\ Fits(s, ends)}

NoNeedlessMessage ==
  Done =>
    IF Taken = <<>> THEN Len(subs) = 1
    ELSE /\ \E ends \in Divisions(Taken) : Cardinality(ends) = Len(subs)
         /\ \A ends \in Divisions(Taken) : Cardinality(ends) >= Len(subs)

(***************************************************************************)
(* "each chunk having wire format size <= bytes_per_message", a single     *)
(* element larger than that excepted                                       *)
(* (nccl_stats_uploader_executor.h:62-69).                                 *)
(***************************************************************************)
SizeOf(sub) ==
  LET total(f) == SumOf([i \in 1 .. Len(sub[f]) |-> msg[f][sub[f][i]]], 1, Len(sub[f]))
  IN  total("events_log") + total("conn_stats") + total("events")

ElementsOf(sub) == Len(sub["events_log"]) + Len(sub["conn_stats"]) + Len(sub["events"])

ChunksFit ==
  \A k \in DOMAIN subs :
    ElementsOf(subs[k]) <= 1 \/ SizeOf(subs[k]) <= BytesPerMessage
=============================================================================
