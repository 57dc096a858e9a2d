-------------------------- MODULE AtomicConfiguration --------------------------
(***************************************************************************)
(* What a metrology configuration request promises Linux: it is accepted   *)
(* as a whole, or the ADC source and the metering pipeline are again what  *)
(* they were before it, or the outcome says that the rollback failed too.  *)
(* Whichever of these, the power-quality profile staged for the request is *)
(* no longer pending.  A request whose payload or whose ADC state is        *)
(* refused before anything is touched is none of these: it leaves          *)
(* everything as it was, the pending profile too.                          *)
(***************************************************************************)
CONSTANTS
  Generations,   \* the configurations, each named by its generation
  Sources,       \* the ADC sources
  Nothing,       \* no profile
  Unknown        \* a part that holds no complete configuration

VARIABLES
  adc,       \* [source, generation] the ADC path works with, or Unknown
  meter,     \* [configuration, profile] the pipeline works with, or Unknown
  pending,   \* the profile that waits for its request, or Nothing
  outcome    \* of the last request

vars == <<adc, meter, pending, outcome>>

Init == /\ adc \in {[source |-> "physical", generation |-> Nothing], Unknown}
        /\ meter = Unknown /\ pending = Nothing /\ outcome = "none"

Stage == pending' # Nothing /\ UNCHANGED <<adc, meter, outcome>>
Withdraw == pending' = Nothing /\ UNCHANGED <<adc, meter, outcome>>

(* The profile is the one that was pending, or the one already in force; in *)
(* either case it belongs to the generation that is accepted.               *)
Accept(s, g) ==
  /\ adc' = [source |-> s, generation |-> g]
  /\ \E p \in {g, Nothing} : /\ meter' = [configuration |-> g, profile |-> p]
                             /\ pending \in {p, Nothing}
  /\ pending' = Nothing
  /\ outcome' \in {"success", "rolled_back"}

RollBack ==
  /\ adc' = adc \/ adc = Unknown
  /\ meter' = meter \/ meter = Unknown
  /\ pending' = Nothing /\ outcome' = "rolled_back"

RollBackFails == pending' = Nothing /\ outcome' = "rollback_failed"

(* Between requests only the ADC path changes, and only to lose or regain  *)
(* the configuration it is recorded with.                                  *)
Disturb == (adc = Unknown \/ adc' = Unknown) /\ UNCHANGED <<meter, pending, outcome>>

Next == \/ Stage \/ Withdraw \/ RollBack \/ RollBackFails \/ Disturb
        \/ \E s \in Sources, g \in Generations : Accept(s, g)

Spec == Init /\ [][Next]_vars
================================================================================
