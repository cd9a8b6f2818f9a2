----------------------------- MODULE ReportMode -----------------------------
(***************************************************************************)
(* What the reporter does with a report, as the environment and the caller *)
(* of init decide it: params.cc reads the variables, the reporter derives  *)
(* whether it writes to the local disk and which histograms it uploads.    *)
(*                                                                         *)
(* A variable of the environment is <<>> when it is unset and <<n>> when it*)
(* is set; what is not a number is treated like a number out of range.     *)
(***************************************************************************)
EXTENDS Integers

\* ncclTelemetryMode, by the values the callers of init pass
kOff == 0
kReserved == 1
kWriteOnLocalDiskOnly == 2
kUploadOnlyControlledByMds == 3
kBothWriteAndUploadControlledByMds == 4
kUndefined == 5
TelemetryMode == kOff .. kUndefined

UploadType == {"SendLatencySW", "SendMessageSize", "LatencyVariance",
               "RecvLatencySW", "RecvMessageSize", "SendBandwidth",
               "RecvBandwidth", "BandwidthVariance"}
UploadedByDefault == {"SendLatencySW", "SendMessageSize", "LatencyVariance"}

ReadNumericFromEnv(param, env) ==
  IF env = <<>> THEN param.default_value
  ELSE IF env[1] \in param.min .. param.max THEN env[1]
  ELSE param.wrong_input_value

NetPluginTelemetryMode ==
  [min |-> 0, max |-> 5, default_value |-> 0, wrong_input_value |-> 5]

\* init_v2 stores its caller's mode, an enum value, as the default of
\* NCCL_TELEMETRY_MODE
NcclTelemetryModeParam(callerMode) ==
  [min |-> 0, max |-> 4, default_value |-> callerMode, wrong_input_value |-> 0]

MapIntToTelemetryMode(i) ==
  CASE i = 0 -> kOff
    [] i = 1 -> kWriteOnLocalDiskOnly
    [] i = 2 -> kReserved
    [] i = 3 -> kUploadOnlyControlledByMds
    [] i = 4 -> kBothWriteAndUploadControlledByMds
    [] OTHER -> kUndefined

\* env.mode is NCCL_TELEMETRY_MODE, env.netMode NCCL_NET_PLUGIN_TELEMETRY_MODE
GetPluginTelemetryMode(env, callerMode) ==
  LET mode == ReadNumericFromEnv(NcclTelemetryModeParam(callerMode), env.mode)
  IN  MapIntToTelemetryMode(
        IF mode # 0 THEN mode
        ELSE ReadNumericFromEnv(NetPluginTelemetryMode, env.netMode))

\* a mode that is reserved or undefined means upload only
WriteLocalDisk(mode) ==
  mode \notin {kReserved, kUndefined, kUploadOnlyControlledByMds}

UploadEnabled(type, switch) ==
  LET default == IF type \in UploadedByDefault THEN 1 ELSE 0
  IN  ReadNumericFromEnv([min |-> 0, max |-> 1, default_value |-> default,
                          wrong_input_value |-> default], switch) = 1

\* env.upload gives the variable of each type
DistTypesToUpload(env, mode) ==
  IF mode = kWriteOnLocalDiskOnly THEN {}
  ELSE {type \in UploadType : UploadEnabled(type, env.upload[type])}

\* off makes init fail; otherwise where the reports go
DetermineReportMode(env, callerMode) ==
  LET mode == GetPluginTelemetryMode(env, callerMode)
  IN  [off |-> mode = kOff,
       writeLocalDisk |-> WriteLocalDisk(mode),
       upload |-> DistTypesToUpload(env, mode) # {}]
=============================================================================
