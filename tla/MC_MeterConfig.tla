----------------------------- MODULE MC_MeterConfig -----------------------------
(* Two configurations, the second of which the simulator refuses.          *)
EXTENDS MeterConfig

InvalidGenerations == [simulator |-> {2}, meter |-> {}]
================================================================================
