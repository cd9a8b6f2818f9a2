------------------------- MODULE MCUploaderExecutor -------------------------
(***************************************************************************)
(* Instance of UploaderExecutor for TLC: the uploader gives up after two   *)
(* failed sends and never on failed creations, as it can be configured.    *)
(***************************************************************************)
EXTENDS UploaderExecutor
=============================================================================
