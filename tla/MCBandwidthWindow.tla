-------------------------- MODULE MCBandwidthWindow -------------------------
(***************************************************************************)
(* Instance of BandwidthWindow for TLC: buckets of a millisecond, of which *)
(* one is carried over, windows of two of them that may come one late, and *)
(* batches that a window fills and enters the next.                        *)
(***************************************************************************)
EXTENDS BandwidthWindow

CONSTANT nic

MCNicOf == [c \in Connection |-> nic]
=============================================================================
