---------------------------- MODULE ProfileRegister ----------------------------
(***************************************************************************)
(* What a configuration mailbox promises: the RPMsg service stages a       *)
(* configuration, the engine adopts the one that is staged at that moment, *)
(* whole.  An engine never adopts a mixture of two configurations, nor one *)
(* that has already been replaced.                                         *)
(***************************************************************************)
CONSTANTS
  Values,          \* what can be staged
  InitialStaged,   \* what the mailbox holds at start
  InitialAdopted   \* what the engine works with at start

VARIABLES staged, adopted

vars == <<staged, adopted>>

Init == staged = InitialStaged /\ adopted = InitialAdopted

Stage(v) == staged' = v /\ UNCHANGED adopted

Adopt == adopted' = staged /\ UNCHANGED staged

Next == (\E v \in Values : Stage(v)) \/ Adopt

Spec == Init /\ [][Next]_vars
================================================================================
