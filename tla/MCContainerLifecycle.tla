------------------------ MODULE MCContainerLifecycle ------------------------
(***************************************************************************)
(* Instance of ContainerLifecycle for TLC: the environments that lead to   *)
(* each way of reporting, and every mode a caller may pass with none set.  *)
(***************************************************************************)
EXTENDS ContainerLifecycle, TLC

Switches(all) == [type \in UploadType |-> all]
Env(mode, netMode, switch) ==
  [mode |-> mode, netMode |-> netMode, upload |-> Switches(switch)]
Case(mode, netMode, switch, caller) ==
  [env |-> Env(mode, netMode, switch), callerMode |-> caller]

\* off; local disk, as every upload is switched off; upload, by a bogus value;
\* both
MCSetting ==
  {Case(<<>>, <<>>, <<>>, kOff),
   Case(<<>>, <<>>, <<0>>, kBothWriteAndUploadControlledByMds),
   Case(<<>>, <<7>>, <<>>, kOff),
   Case(<<9>>, <<4>>, <<2>>, kUploadOnlyControlledByMds)}

MCCallerMode == {Case(<<>>, <<>>, <<>>, caller) : caller \in TelemetryMode}
=============================================================================
