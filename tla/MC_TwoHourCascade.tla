--------------------------- MODULE MC_TwoHourCascade ---------------------------
(* An undisturbed stream, and an interval that is not a whole number of      *)
(* blocks, as when the grid is a little off its nominal frequency.          *)
EXTENDS AggregationTiers
===============================================================================
