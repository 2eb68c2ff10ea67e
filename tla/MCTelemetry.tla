---------------------------- MODULE MCTelemetry ----------------------------
(***************************************************************************)
(* Small instances of TelemetryPipeline.                                   *)
(***************************************************************************)
EXTENDS TelemetryPipeline
=============================================================================
