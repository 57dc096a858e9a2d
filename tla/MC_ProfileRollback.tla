--------------------------- MODULE MC_ProfileRollback ---------------------------
(* The first request brings no profile, the second one does.               *)
EXTENDS MeterConfig

NothingInvalid == [simulator |-> {}, meter |-> {}]
================================================================================
