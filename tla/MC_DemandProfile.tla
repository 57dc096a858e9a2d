--------------------------- MODULE MC_DemandProfile ---------------------------
(* Three profiles, generations 1 to 3, five changes: the generation wraps.  *)
EXTENDS DemandProfile
================================================================================
