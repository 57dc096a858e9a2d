---------------------------- MODULE MC_SpscRing ----------------------------
(* Two slots and indices of six values: the indices wrap while the ring is  *)
(* partly full, as those of 32 bits do for 64 slots.                        *)
EXTENDS SpscRing
=============================================================================
