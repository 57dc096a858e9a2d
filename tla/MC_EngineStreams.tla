--------------------------- MODULE MC_EngineStreams ---------------------------
(* Cycles of two samples and a ten-minute interval of nine: the UTC mark     *)
(* falls inside a block, at its end and at its start.  Every engine has room *)
(* for two of its longest intervals, with two disturbances in them.         *)
EXTENDS EngineStreams
===============================================================================
