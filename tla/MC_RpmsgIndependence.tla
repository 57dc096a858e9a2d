-------------------------- MODULE MC_RpmsgIndependence --------------------------
(* The start of the pipeline when the RPMsg task never leaves the processor. *)
EXTENDS AggregationRuntime
================================================================================
