---------------------------- MODULE UploadQueue ----------------------------
(***************************************************************************)
(* What the uploader executor promises its caller: the chunks of a batch   *)
(* are acknowledged in the order they were queued, each once and none      *)
(* skipped; a batch is taken in only when the one before is finished; and  *)
(* chunks are given up only once the executor is closing.                  *)
(***************************************************************************)
EXTENDS Sequences

VARIABLES
  pending,  \* chunks taken in and not yet acknowledged, in order
  acked,    \* chunks acknowledged by the server
  closing   \* the executor has been told to stop, or has stopped by itself

vars == <<pending, acked, closing>>

Init == pending = <<>> /\ acked = <<>> /\ closing \in BOOLEAN

Accept ==
  /\ pending = <<>>
  /\ pending' # <<>>
  /\ UNCHANGED <<acked, closing>>

Acknowledge ==
  /\ pending # <<>>
  /\ acked' = Append(acked, Head(pending))
  /\ pending' = Tail(pending)
  /\ UNCHANGED closing

Close ==
  /\ closing' = TRUE
  /\ UNCHANGED <<pending, acked>>

Abandon ==
  /\ closing
  /\ pending' = <<>>
  /\ UNCHANGED <<acked, closing>>

Next == Accept \/ Acknowledge \/ Close \/ Abandon

Spec == Init /\ [][Next]_vars
=============================================================================
