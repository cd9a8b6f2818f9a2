---------------------------- MODULE MCConnStats ----------------------------
(***************************************************************************)
(* Instance of ConnStats for TLC: a Send with a latency, and a Recv whose  *)
(* second latency is of a type the code rejects after the first went in.   *)
(***************************************************************************)
EXTENDS ConnStats, TLC

MCMetric ==
  {[op |-> "ChunkSend", latencies |-> <<"Software">>],
   [op |-> "ChunkRecv", latencies |-> <<"Software", "Bad">>]}

MCCollected == {"SendMessageSize", "SendLatencySW", "RecvMessageSize",
                "RecvLatencySW", "SendBandwidth", "RecvBandwidth"}

\* A smaller instance for the liveness run: Send operations only.
MCSendMetric == {[op |-> "ChunkSend", latencies |-> <<"Software">>]}
MCSendCollected == {"SendMessageSize", "SendLatencySW", "SendBandwidth",
                    "RecvBandwidth"}

\* The calls are interchangeable, and so are the threads of each kind.
MCSymmetry == Permutations(Writer) \cup Permutations(Reader) \cup Permutations(Call)
=============================================================================
