---------------------------- MODULE MCAggregator ----------------------------
(***************************************************************************)
(* Instance of Aggregator for TLC: two connections that share a NIC, one   *)
(* of them of an unknown plugin, three events that do not all fit, one of  *)
(* which does not parse.                                                   *)
(***************************************************************************)
EXTENDS Aggregator, TLC

CONSTANTS c1, c2, m1, m2, e1, e2, e3

MCNicOf == c1 :> "nic" @@ c2 :> "nic"
MCPluginOf == c1 :> "other" @@ c2 :> "profiler"
MCSourceOf == m1 :> c1 @@ m2 :> c2 @@ e1 :> c1 @@ e2 :> c2 @@ e3 :> c1
MCLengthOf == e1 :> 1 @@ e2 :> 1 @@ e3 :> 2
=============================================================================
