----------------------------- MODULE HarmonicTiers -----------------------------
(***************************************************************************)
(* HarmonicAggregationEngine: families of harmonics are accumulated into   *)
(* 150/180-cycle spectra and, side by side, into clock-aligned ten-minute  *)
(* spectra, and complete ten-minute spectra into two-hour ones.  The model *)
(* keeps what each tier covers and what resets it; magnitudes and angles   *)
(* are left out.  A frame is one family, whose first sample may lie up to  *)
(* two ADC samples off without being a jump: such a family continues the   *)
(* one before.  What a refused record does is in AggregationOutput.        *)
(***************************************************************************)
EXTENDS FrequencyIntervals

CONSTANTS
  FamiliesPerAggregate,   \* contributors of a 150/180-cycle spectrum (15)
  FamilyInterval,         \* families in ten minutes
  IntervalsPerTwoHours,   \* contributors of a two-hour spectrum (12)
  MaxFamilies             \* bound of the model: families the PL sends

ASSUME HarmonicAssumption ==
  {FamiliesPerAggregate, FamilyInterval, IntervalsPerTwoHours, MaxFamilies} \subseteq Nat \ {0}

VARIABLE harmonic   \* HarmonicAggregationEngine: tiers, target, stream position

EmptyTier == [contributors |-> 0, generation |-> 0, first |-> 0, firstAfter |-> TRUE]

InitHarmonic ==
  harmonic = [sequence |-> NoFrame, expected |-> NoFrame, target |-> NoFrame,
              three |-> EmptyTier, ten |-> EmptyTier, two |-> EmptyTier,
              contaminated |-> TRUE, records |-> <<>>]

(* reset_all(true), and the two tiers that a new UTC mark ends.             *)
ResetLong(h) == [h EXCEPT !.ten = EmptyTier, !.two = EmptyTier, !.contaminated = TRUE]
ResetAll(h) == [ResetLong(h) EXCEPT !.three = EmptyTier]

(* A tier that has published goes on without a mark.                        *)
Renewed == [EmptyTier EXCEPT !.firstAfter = FALSE]

(* accumulate_base, begin_tier; accumulate_finalized.                       *)
Accumulated(tier, generation, first) ==
  IF tier.contributors = 0
  THEN [tier EXCEPT !.contributors = 1, !.generation = generation, !.first = first]
  ELSE [tier EXCEPT !.contributors = @ + 1]

EmitFamily(h, tier, channel, valid, last) ==
  [h EXCEPT !.records = Append(@, [channel |-> channel, kind |-> "harmonic", valid |-> valid,
                                   first |-> tier.first, last |-> last,
                                   marked |-> tier.firstAfter])]

--------------------------------------------------------------------------------
AggregateFamily(h, frame) ==
  LET three == Accumulated(h.three, frame.generation, frame.sample)
  IN IF three.contributors # FamiliesPerAggregate
     THEN [h EXCEPT !.three = three]
     ELSE [EmitFamily(h, three, "three", TRUE, frame.sample) EXCEPT !.three = Renewed]

(* Only a ten-minute spectrum that is not contaminated goes further.        *)
Cascaded(h, ten, last) ==
  LET two == Accumulated(h.two, ten.generation, ten.first)
  IN IF h.contaminated THEN h
     ELSE IF two.contributors # IntervalsPerTwoHours
     THEN [h EXCEPT !.two = two]
     ELSE [EmitFamily(h, two, "two", TRUE, last) EXCEPT !.two = Renewed]

AlignedFamily(h, frame) ==
  LET ten == Accumulated(h.ten, frame.generation, frame.sample)
      emitted == EmitFamily(h, ten, "ten", ~h.contaminated, frame.sample)
  IN IF h.target = NoFrame THEN h
     ELSE IF frame.sample + 1 < h.target THEN [h EXCEPT !.ten = ten]
     ELSE [Cascaded(emitted, ten, frame.sample)
           EXCEPT !.ten = Renewed, !.target = @ + FamilyInterval, !.contaminated = FALSE]

(* accept_sequence: an old family is ignored and leaves the pending         *)
(* discontinuity where it is.                                              *)
OldFamily(h, frame) == h.sequence # NoFrame /\ frame.sequence <= h.sequence
HarmonicGap(h, frame) ==
  h.sequence # NoFrame /\ (frame.sequence # h.sequence + 1 \/ frame.sample # h.expected)

(* The two-hour tier is not compared: it is reset with the others.          *)
Incompatible(tier, frame) == tier.contributors # 0 /\ tier.generation # frame.generation

HarmonicMeasured(h, frame) ==
  LET broken == external \/ "disc" \in frame.flags \/ HarmonicGap(h, frame)
      placed == [(IF broken THEN ResetAll(h) ELSE h)
                 EXCEPT !.sequence = frame.sequence, !.expected = frame.sample + 1]
      changed == Incompatible(placed.three, frame) \/ Incompatible(placed.ten, frame)
      ready == IF changed THEN ResetAll(placed) ELSE placed
  IN IF "invalid" \in frame.flags THEN ResetAll(placed)
     ELSE AlignedFamily(AggregateFamily(ready, frame), frame)

HarmonicProcess(frame) ==
  LET h == HarmonicMeasured(harmonic, frame)
  IN IF OldFamily(harmonic, frame)
     THEN /\ records' = <<>>
          /\ track' = [track EXCEPT !.owed = Owing]
          /\ UNCHANGED <<external, harmonic>>
     ELSE /\ external' = FALSE
          /\ harmonic' = [h EXCEPT !.records = <<>>]
          /\ records' = h.records
          /\ track' = IF "invalid" \in frame.flags THEN Unheard ELSE Heard(frame)

(* observe_timing_context: a grid cycle brings the first UTC mark, or the   *)
(* one that Linux has set instead.                                         *)
ObserveTarget ==
  /\ harmonic.target = NoFrame \/ Faulty
  /\ stream' = IF harmonic.target = NoFrame THEN stream ELSE Fault(stream)
  /\ \E target \in stream.sample + 1 .. stream.sample + FamilyInterval :
       harmonic' = [ResetLong(harmonic) EXCEPT !.target = target]
  /\ UNCHANGED <<external, records, track>>

HarmonicFlaws == SUBSET {"disc", "jump", "invalid"} \ {{}}

HarmonicNext ==
  \/ \E frame \in Arriving(MaxFamilies, HarmonicFlaws) : HarmonicProcess(frame) /\ Sent(frame)
  \/ LoseStreamFrames(MaxFamilies, {1, FamilyInterval + 1}) /\ UNCHANGED harmonic
  \/ StreamInterference /\ UNCHANGED harmonic
  \/ ObserveTarget
================================================================================
