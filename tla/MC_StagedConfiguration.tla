------------------------- MODULE MC_StagedConfiguration -------------------------
(* Two configurations of two words, three requests, two attempts; mains is    *)
(* disabled in the second configuration.                                   *)
EXTENDS StagedConfiguration

RejectedByEngine == [flicker |-> {}, mains |-> {2}]
================================================================================
