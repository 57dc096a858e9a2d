------------------------------ MODULE EnergyDemand ------------------------------
(***************************************************************************)
(* EnergyDemandEngine: an observer that R5AggregationEngine calls with     *)
(* every record family it has published.  Basic families are integrated    *)
(* into energy; aggregates (sliding demand) or ten-minute intervals (fixed *)
(* demand) make the demand.  The model keeps which samples went in and     *)
(* what the records say of them, not the powers.  How a demand profile is  *)
(* handed over is in DemandProfile.                                        *)
(***************************************************************************)
EXTENDS AggregationTiers, Sequences

CONSTANT WindowBuckets   \* demand_window_seconds_ / demand_bucket_seconds

ASSUME WindowAssumption == WindowBuckets \in Nat \ {0}

VARIABLES
  energy,   \* what the energy session has accepted and skipped
  demand    \* method, window of buckets, and the result of the last step

energyVars == <<energy, demand>>
allTierVars == <<tierVars, energyVars>>

InitEnergy ==
  /\ energy = [started |-> FALSE, first |-> None, firstBlock |-> None, last |-> None,
               lastSample |-> None, accepted |-> 0, skipped |-> 0, acceptedSamples |-> 0,
               incomplete |-> FALSE, discontinuity |-> FALSE]
  /\ demand = [method |-> "sliding", buckets |-> <<>>, result |-> Nothing]

--------------------------------------------------------------------------------
(* The session begins with the first family that can be integrated whole;   *)
(* from then on a family that cannot is counted as skipped and makes the   *)
(* energy incomplete.                                                      *)
EligibleAlways(r) == TRUE
Eligible(r) == ~r.afterGap

(* reject_duplicate_or_stale_basic and note_basic_gap.                      *)
Repeated(e, r) == e.last # None /\ r.sequence <= e.last
MissingBlocks(e, r) == IF e.last = None THEN 0 ELSE r.sequence - e.last - 1

Integrated(e, r) ==
  LET missing == MissingBlocks(e, r)
  IN [e EXCEPT
       !.started = TRUE,
       !.first = IF e.started THEN @ ELSE r.first,
       !.firstBlock = IF e.started THEN @ ELSE r.sequence,
       !.last = r.sequence, !.lastSample = r.last,
       !.accepted = IF Eligible(r) THEN @ + 1 ELSE @,
       !.acceptedSamples = IF Eligible(r) THEN @ + r.samples ELSE @,
       !.skipped = @ + missing + (IF Eligible(r) THEN 0 ELSE 1),
       !.incomplete = @ \/ missing # 0 \/ ~Eligible(r) \/ ~r.valid,
       !.discontinuity = @ \/ missing # 0 \/ r.afterGap]

AfterBasic(e, r) ==
  IF ~e.started /\ ~(Eligible(r) /\ r.valid) THEN e
  ELSE IF Repeated(e, r)
  THEN [e EXCEPT !.skipped = @ + 1, !.incomplete = TRUE, !.discontinuity = TRUE]
  ELSE Integrated(e, r)

--------------------------------------------------------------------------------
(* Sliding demand: a window of contiguous aggregates of one configuration;  *)
(* a break empties it and it answers again once it is full.                *)
Bucket(r) == [first |-> r.first, last |-> r.last, generation |-> r.settings[1]]
NewestBucket(d) == d.buckets[Len(d.buckets)]

Contiguous(d, r) ==
  /\ r.first = NewestBucket(d).last + 1
  /\ r.settings[1] = NewestBucket(d).generation

Kept(d, r) ==
  IF d.buckets = <<>> \/ ~Contiguous(d, r) THEN <<>>
  ELSE IF Len(d.buckets) < WindowBuckets THEN d.buckets ELSE Tail(d.buckets)

Window(d, r) == Append(Kept(d, r), Bucket(r))

AfterAggregate(d, r) ==
  IF ~r.valid
  THEN [d EXCEPT !.buckets = <<>>,
                 !.result = [tier |-> "demand", valid |-> FALSE, first |-> r.first, last |-> r.last]]
  ELSE [d EXCEPT !.buckets = Window(d, r),
                 !.result = IF Len(Window(d, r)) = WindowBuckets
                            THEN [tier |-> "demand", valid |-> TRUE,
                                  first |-> Window(d, r)[1].first, last |-> r.last]
                            ELSE Nothing]

(* Fixed demand: every ten-minute interval, valid if the interval is.       *)
AfterTenMinutes(d, r) ==
  [d EXCEPT !.result = [tier |-> "demand", valid |-> r.aligned /\ r.valid,
                        first |-> r.first, last |-> r.last]]

(* EnergyDemandEngine::observe, in the call that published the family.      *)
Observe ==
  LET r == output'
      quiet == [demand EXCEPT !.result = Nothing]
  IN /\ energy' = IF r.tier = "basic" THEN AfterBasic(energy, r) ELSE energy
     /\ demand' = CASE r.tier = "aggregate" /\ demand.method = "sliding" ->
                         AfterAggregate(quiet, r)
                    [] r.tier = "ten" /\ demand.method = "fixed" -> AfterTenMinutes(quiet, r)
                    [] OTHER -> quiet

(* configure_demand: another method begins with an empty window; the first  *)
(* profile is part of the start and costs nothing.                         *)
ApplyProfile ==
  /\ Idle
  /\ IF source.cycle = 0 /\ demand.method = "sliding" THEN UNCHANGED disturbances ELSE Disturb
  /\ \E method \in {"sliding", "fixed"} \ {demand.method} :
       demand' = [method |-> method, buckets |-> <<>>, result |-> Nothing]
  /\ UNCHANGED <<source, feed, kernel, passes, output, history, energy>>

TierNext ==
  \/ (CycleArrives \/ DeferredPass) /\ Observe
  \/ Interference /\ UNCHANGED energyVars
  \/ ApplyProfile

TierSpec == Init /\ InitEnergy /\ [][TierNext]_allTierVars
================================================================================
