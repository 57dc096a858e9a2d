-------------------------- MODULE EngineStreamsProofs --------------------------
(***************************************************************************)
(* Proofs about EngineStreams for every length of cycle, block, interval   *)
(* and window and every number of frames and faults.                       *)
(*                                                                         *)
(* The first part is about the aggregation tiers and what                  *)
(* EnergyDemandEngine makes of them: a frame takes the kernel from one     *)
(* sound state to another (ProcessSound, FrameCascade), a deferred pass    *)
(* publishes a sound interval and leaves the kernel sound, the observer    *)
(* keeps its account of both, and so TierInvariant is kept (TierStep).     *)
(* The second part is about the engines that follow a stream of frames of  *)
(* their own, and puts the parts together (EngineInvariant).               *)
(* The invariants themselves are in EngineInvariants.                      *)
(***************************************************************************)
EXTENDS EngineInvariants, TLAPS

--------------------------------------------------------------------------------
(* Samples of successive cycles follow each other.                         *)
LEMMA SampleTypes ==
  ASSUME NEW c \in Int
  PROVE  FirstSample(c) \in Int /\ LastSample(c) \in Int /\ CycleSamples \in Nat /\ CycleSamples > 0
  BY TierAssumption, SMT DEF FirstSample, LastSample

LEMMA SampleArithmetic ==
  ASSUME NEW c \in Int
  PROVE  /\ FirstSample(c + 1) = FirstSample(c) + CycleSamples
         /\ LastSample(c) = FirstSample(c + 1) - 1
  BY TierAssumption, SMT DEF FirstSample, LastSample

LEMMA SampleOrder ==
  ASSUME NEW a \in Int, NEW b \in Int, a <= b
  PROVE  FirstSample(a) <= FirstSample(b)
  BY TierAssumption, SMT DEF FirstSample

LEMMA EmptyTypes ==
  /\ NoBlock \in Blocks /\ NoBlock.cycles = 0 /\ NoBlock.samples = 0
  /\ NoSlot \in AggregateSlots /\ NoSlot.blocks = 0
  BY DEF NoBlock, NoSlot, Blocks, AggregateSlots, Settings, Nominals

(* What a new UTC mark and a new configuration leave of the kernel's state. *)
LEMMA AdoptMarkFields ==
  ASSUME NEW k \in Kernels, NEW x \in CyclePackets
  PROVE  LET m == AdoptMark(k, x)
         IN /\ m \in Kernels /\ m.toggle = k.toggle /\ m.generation = k.generation
            /\ m.enable = k.enable /\ m.expected = k.expected /\ m.disc = k.disc
            /\ m.sequence = k.sequence /\ m.primary = k.primary /\ m.open = k.open
            /\ m.closed = k.closed /\ m.pending \subseteq k.pending
            /\ \/ m = k
               \/ /\ m.shadow = NoBlock /\ m.openShadow = NoSlot /\ m.ten.blocks = 0
                  /\ m.ten.contaminated /\ m.two.intervals = 0
<1> DEFINE m == [k EXCEPT !.update = x.update, !.mark = x.target, !.shadow = NoBlock,
                          !.openShadow = NoSlot, !.syncSeed = FALSE,
                          !.ten = [@ EXCEPT !.blocks = 0, !.target = x.target, !.contaminated = TRUE],
                          !.two.intervals = 0, !.pending = @ \ Previews]
<1>1. m \in Kernels
  <2>1. PICK two : two = [k.two EXCEPT !.intervals = 0]
    OBVIOUS
  <2>2. two \in TwoHourSlots
    BY <2>1 DEF Kernels, TwoHourSlots
  <2>3. PICK ten : ten = [k.ten EXCEPT !.blocks = 0, !.target = x.target, !.contaminated = TRUE]
    OBVIOUS
  <2>4. ten \in TenMinuteSlots
    BY <2>3 DEF Kernels, TenMinuteSlots, CyclePackets
  <2>5. x.update \in {0, 1} /\ x.target \in Int
    BY DEF CyclePackets
  <2>6. m = [k EXCEPT !.update = x.update, !.mark = x.target, !.shadow = NoBlock,
                      !.openShadow = NoSlot, !.syncSeed = FALSE, !.ten = ten, !.two = two,
                      !.pending = @ \ Previews]
    BY <2>1, <2>3 DEF Kernels
  <2>7. PICK a : a = [k EXCEPT !.update = x.update, !.mark = x.target, !.shadow = NoBlock,
                               !.openShadow = NoSlot]
    OBVIOUS
  <2>8. a \in Kernels
    BY <2>5, <2>7, EmptyTypes DEF Kernels
  <2>9. m = [a EXCEPT !.syncSeed = FALSE, !.ten = ten, !.two = two, !.pending = @ \ Previews]
    BY <2>6, <2>7
  <2> HIDE DEF m
  <2> QED
    BY <2>2, <2>4, <2>8, <2>9 DEF Kernels
<1>2. /\ m.toggle = k.toggle /\ m.generation = k.generation /\ m.enable = k.enable
      /\ m.expected = k.expected /\ m.disc = k.disc /\ m.sequence = k.sequence
      /\ m.primary = k.primary /\ m.open = k.open /\ m.closed = k.closed
      /\ m.pending \subseteq k.pending /\ m.shadow = NoBlock /\ m.openShadow = NoSlot
      /\ m.ten.blocks = 0 /\ m.ten.contaminated /\ m.two.intervals = 0
  BY DEF Kernels, TenMinuteSlots, TwoHourSlots
<1> QED
  BY <1>1, <1>2 DEF AdoptMark

LEMMA ApplyConfigurationFields ==
  ASSUME NEW k \in Kernels, NEW x \in CyclePackets
  PROVE  LET m == ApplyConfiguration(k, x)
         IN /\ m \in Kernels /\ m.sequence = k.sequence /\ m.open = k.open
            /\ m.openShadow = k.openShadow /\ m.closed = k.closed /\ m.ten = k.ten
            /\ m.pending \subseteq k.pending
            /\ \/ m = k
               \/ /\ m.primary = NoBlock /\ m.shadow = NoBlock /\ m.expected = None
                  /\ m.disc /\ m.two.intervals = 0
<1> DEFINE m == [k EXCEPT !.toggle = Toggle(x.generation), !.generation = x.generation,
                          !.enable = x.enable, !.primary = NoBlock, !.shadow = NoBlock,
                          !.expected = None, !.disc = TRUE, !.two.intervals = 0,
                          !.pending = @ \ Previews]
<1>1. Toggle(x.generation) \in Int /\ None \in Int
  BY DEF Toggle, CyclePackets, None
<1>2. m \in Kernels
  <2>1. PICK a : a = [k EXCEPT !.toggle = Toggle(x.generation), !.generation = x.generation,
                               !.enable = x.enable, !.primary = NoBlock, !.shadow = NoBlock]
    OBVIOUS
  <2>2. a \in Kernels
    BY <1>1, <2>1, EmptyTypes DEF Kernels, CyclePackets
  <2>3. PICK two : two = [a.two EXCEPT !.intervals = 0]
    OBVIOUS
  <2>4. two \in TwoHourSlots
    BY <2>2, <2>3 DEF Kernels, TwoHourSlots
  <2>5. m = [a EXCEPT !.expected = None, !.disc = TRUE, !.two = two, !.pending = @ \ Previews]
    BY <2>1, <2>3 DEF Kernels
  <2> HIDE DEF m
  <2> QED
    BY <1>1, <2>2, <2>4, <2>5 DEF Kernels
<1>3. /\ m.sequence = k.sequence /\ m.open = k.open /\ m.openShadow = k.openShadow
      /\ m.closed = k.closed /\ m.ten = k.ten /\ m.pending \subseteq k.pending
      /\ m.primary = NoBlock /\ m.shadow = NoBlock /\ m.expected = None
      /\ m.disc /\ m.two.intervals = 0
  BY DEF Kernels, TwoHourSlots
<1> QED
  BY <1>2, <1>3 DEF ApplyConfiguration

(* A break discards both blocks and is remembered; the cycle is expected.   *)
LEMMA DiscardedFields ==
  ASSUME NEW k \in Kernels
  PROVE  LET m == Discarded(k)
         IN /\ m \in Kernels
            /\ m = [k EXCEPT !.primary = NoBlock, !.shadow = NoBlock, !.disc = TRUE]
            /\ m.primary = NoBlock /\ m.shadow = NoBlock /\ m.disc
            /\ m.sequence = k.sequence /\ m.open = k.open /\ m.openShadow = k.openShadow
            /\ m.closed = k.closed /\ m.ten = k.ten /\ m.two = k.two /\ m.pending = k.pending
            /\ m.enable = k.enable /\ m.expected = k.expected /\ m.generation = k.generation
  BY EmptyTypes DEF Discarded, Kernels

LEMMA ExpectedFields ==
  ASSUME NEW k \in Kernels, NEW n \in Int
  PROVE  LET m == [k EXCEPT !.expected = n]
         IN /\ m \in Kernels /\ m.expected = n
            /\ m.primary = k.primary /\ m.shadow = k.shadow /\ m.disc = k.disc
            /\ m.sequence = k.sequence /\ m.open = k.open /\ m.openShadow = k.openShadow
            /\ m.closed = k.closed /\ m.ten = k.ten /\ m.two = k.two /\ m.pending = k.pending
            /\ m.enable = k.enable /\ m.generation = k.generation
  BY DEF Kernels

LEMMA CheckContinuityFields ==
  ASSUME NEW k \in Kernels, NEW x \in CyclePackets
  PROVE  LET m == CheckContinuity(k, x)
         IN /\ m \in Kernels /\ m.expected = x.cycle + 1
            /\ m.sequence = k.sequence /\ m.open = k.open /\ m.openShadow = k.openShadow
            /\ m.closed = k.closed /\ m.ten = k.ten /\ m.two = k.two /\ m.pending = k.pending
            /\ m.enable = k.enable /\ m.generation = k.generation
            /\ IF Broken(k, x)
               THEN m.primary = NoBlock /\ m.shadow = NoBlock /\ m.disc
               ELSE m.primary = k.primary /\ m.shadow = k.shadow /\ m.disc = k.disc
<1>1. x.cycle + 1 \in Int
  BY DEF CyclePackets
<1>2. CASE Broken(k, x)
  <2> DEFINE d == Discarded(k)
  <2>1. /\ d \in Kernels /\ d.primary = NoBlock /\ d.shadow = NoBlock /\ d.disc
        /\ d.sequence = k.sequence /\ d.open = k.open /\ d.openShadow = k.openShadow
        /\ d.closed = k.closed /\ d.ten = k.ten /\ d.two = k.two /\ d.pending = k.pending
        /\ d.enable = k.enable /\ d.generation = k.generation
    BY DiscardedFields
  <2>2. CheckContinuity(k, x) = [d EXCEPT !.expected = x.cycle + 1]
    BY <1>2 DEF CheckContinuity
  <2> HIDE DEF d
  <2> QED
    BY <1>1, <1>2, <2>1, <2>2, ExpectedFields
<1>3. CASE ~Broken(k, x)
  BY <1>1, <1>3, ExpectedFields DEF CheckContinuity
<1> QED
  BY <1>2, <1>3

LEMMA ExtendedFields ==
  ASSUME NEW b \in Blocks, NEW x \in CyclePackets, NEW resync \in BOOLEAN
  PROVE  LET e == Extended(b, x, resync)
         IN /\ e \in Blocks /\ e.cycles = b.cycles + 1
            /\ e.locked => x.locked
            /\ IF b.cycles = 0
               THEN /\ e.first = FirstSample(x.cycle) /\ e.samples = CycleSamples
                    /\ e.nominal = x.nominal
               ELSE /\ e.first = b.first /\ e.samples = b.samples + CycleSamples
                    /\ e.nominal = b.nominal /\ (e.locked => b.locked)
<1> DEFINE begun == [NoBlock EXCEPT !.nominal = x.nominal, !.first = FirstSample(x.cycle),
                                    !.resync = resync]
           added(base) == [base EXCEPT !.cycles = @ + 1, !.samples = @ + CycleSamples,
                                       !.locked = @ /\ x.locked, !.valid = @ /\ x.valid]
<1>0. x.locked \in BOOLEAN /\ x.valid \in BOOLEAN /\ x.nominal \in Nominals /\ x.cycle \in Int
  BY DEF CyclePackets
<1>1. FirstSample(x.cycle) \in Int /\ CycleSamples \in Int
  BY <1>0, SampleTypes
<1>2. /\ begun \in Blocks /\ begun.cycles = 0 /\ begun.first = FirstSample(x.cycle)
      /\ begun.samples = 0 /\ begun.nominal = x.nominal
  BY <1>0, <1>1, EmptyTypes DEF Blocks
<1>3. ASSUME NEW base \in Blocks
      PROVE  /\ added(base) \in Blocks
             /\ added(base).cycles = base.cycles + 1 /\ added(base).first = base.first
             /\ added(base).samples = base.samples + CycleSamples
             /\ added(base).nominal = base.nominal
             /\ added(base).locked => base.locked /\ x.locked
  <2> DEFINE c == base.cycles + 1
             n == base.samples + CycleSamples
             v == base.locked /\ x.locked
             w == base.valid /\ x.valid
  <2>1. c \in Nat /\ n \in Int /\ v \in BOOLEAN /\ w \in BOOLEAN /\ (v => base.locked /\ x.locked)
    BY <1>1, <1>3 DEF Blocks
  <2>2. added(base) = [base EXCEPT !.cycles = c, !.samples = n, !.locked = v, !.valid = w]
    OBVIOUS
  <2>3. c = base.cycles + 1 /\ n = base.samples + CycleSamples
    OBVIOUS
  <2> HIDE DEF c, n, v, w, added
  <2>4. /\ added(base) \in Blocks /\ added(base).cycles = c /\ added(base).first = base.first
        /\ added(base).samples = n /\ added(base).nominal = base.nominal
        /\ added(base).locked = v
    BY <1>3, <2>1, <2>2 DEF Blocks
  <2> QED
    BY <2>1, <2>3, <2>4
<1>4. CASE b.cycles = 0
  <2>1. Extended(b, x, resync) = added(begun)
    BY <1>4 DEF Extended
  <2> HIDE DEF begun, added
  <2> QED
    BY <1>1, <1>2, <1>3, <1>4, <2>1
<1>5. CASE b.cycles # 0
  <2>1. Extended(b, x, resync) = added(b)
    BY <1>5 DEF Extended
  <2> HIDE DEF begun, added
  <2> QED
    BY <1>1, <1>3, <1>5, <2>1
<1> QED
  BY <1>4, <1>5

LEMMA NextMarkType ==
  ASSUME NEW k \in Kernels, NEW x \in CyclePackets
  PROVE  NextMark(k, x) \in Int
<1>1. k.mark \in Int /\ x.cycle \in Int
  BY DEF Kernels, CyclePackets
<1>2. FirstSample(x.cycle) \in Int
  BY <1>1, SampleTypes
<1> DEFINE d == FirstSample(x.cycle) - k.mark
<1>3. IntervalSamples \in Nat /\ IntervalSamples > 0
  BY TierAssumption
<1>4. d \in Int
  BY <1>1, <1>2
<1>5. d \div IntervalSamples \in Int
  <2> HIDE DEF d
  <2> QED
    BY <1>3, <1>4
<1> DEFINE q == d \div IntervalSamples
<1>6. IntervalSamples * (q + 1) \in Int
  <2> HIDE DEF q
  <2>1. q \in Int
    BY <1>5 DEF q
  <2> QED
    BY <1>3, <2>1
<1>7. k.mark + IntervalSamples * (q + 1) \in Int
  <2> DEFINE p == IntervalSamples * (q + 1)
  <2>1. p \in Int
    BY <1>6
  <2> HIDE DEF p
  <2>2. k.mark + p \in Int
    BY <1>1, <2>1
  <2> QED
    BY <2>2 DEF p
<1> QED
  BY <1>1, <1>7 DEF NextMark

LEMMA MergeCycleFields ==
  ASSUME NEW k \in Kernels, NEW x \in CyclePackets
  PROVE  LET m == MergeCycle(k, x)
             opensShadow == AtMark(k, x) /\ k.primary.cycles # 0
         IN /\ m \in Kernels /\ m.primary = Extended(k.primary, x, AtMark(k, x))
            /\ m.shadow = IF opensShadow THEN Extended(NoBlock, x, TRUE)
                          ELSE IF k.shadow.cycles # 0 THEN Extended(k.shadow, x, FALSE)
                          ELSE NoBlock
            /\ m.expected = k.expected /\ m.disc = k.disc
            /\ m.sequence = k.sequence /\ m.open = k.open /\ m.openShadow = k.openShadow
            /\ m.closed = k.closed /\ m.ten = k.ten /\ m.two = k.two /\ m.pending = k.pending
            /\ m.enable = k.enable /\ m.generation = k.generation
<1> DEFINE mark == NextMark(k, x)
           primary == Extended(k.primary, x, AtMark(k, x))
           shadow == IF AtMark(k, x) /\ k.primary.cycles # 0 THEN Extended(NoBlock, x, TRUE)
                     ELSE IF k.shadow.cycles # 0 THEN Extended(k.shadow, x, FALSE)
                     ELSE NoBlock
<1>1. MergeCycle(k, x) = [k EXCEPT !.mark = mark, !.primary = primary, !.shadow = shadow]
  BY DEF MergeCycle
<1>2. k.primary \in Blocks /\ k.shadow \in Blocks /\ AtMark(k, x) \in BOOLEAN
  BY DEF Kernels, AtMark
<1>3. mark \in Int /\ primary \in Blocks /\ shadow \in Blocks
  BY <1>2, NextMarkType, ExtendedFields, EmptyTypes
<1> HIDE DEF mark, primary, shadow
<1>4. MergeCycle(k, x) \in Kernels
  BY <1>1, <1>3 DEF Kernels
<1>5. LET m == MergeCycle(k, x)
      IN /\ m.primary = primary /\ m.shadow = shadow
         /\ m.expected = k.expected /\ m.disc = k.disc
         /\ m.sequence = k.sequence /\ m.open = k.open /\ m.openShadow = k.openShadow
         /\ m.closed = k.closed /\ m.ten = k.ten /\ m.two = k.two /\ m.pending = k.pending
         /\ m.enable = k.enable /\ m.generation = k.generation
  BY <1>1 DEF Kernels
<1> QED
  BY <1>4, <1>5 DEF primary, shadow

(* The result of a complete block.                                         *)
LEMMA BasicResultFields ==
  ASSUME NEW k \in Kernels, NEW x \in CyclePackets
  PROVE  LET r == BasicResult(k, x)
         IN /\ r \in BasicResults
            /\ r.sequence = k.sequence + 1 /\ r.settings[2] = k.primary.nominal
            /\ r.first = k.primary.first /\ r.last = LastSample(x.cycle)
            /\ r.samples = k.primary.samples /\ r.afterGap = k.disc
            /\ r.valid = k.primary.valid
            /\ (r.eligible <=> k.primary.locked /\ ~k.disc)
<1> DEFINE n == k.sequence + 1
           s == <<k.generation, k.primary.nominal>>
           l == LastSample(x.cycle)
           e == k.primary.locked /\ ~k.disc
<1>1. n \in Nat /\ k.primary \in Blocks /\ k.disc \in BOOLEAN /\ x.cycle \in Int
  BY DEF Kernels, CyclePackets
<1>2. s \in Settings /\ s[2] = k.primary.nominal
  BY <1>1 DEF Settings, Kernels, Blocks
<1>3. l \in Int /\ e \in BOOLEAN
  BY <1>1, SampleTypes
<1> HIDE DEF n, s, l, e
<1>4. BasicResult(k, x) =
        [tier |-> "basic", sequence |-> n, settings |-> s, first |-> k.primary.first,
         last |-> l, samples |-> k.primary.samples, eligible |-> e, afterGap |-> k.disc,
         valid |-> k.primary.valid, resync |-> k.primary.resync]
  BY DEF BasicResult, n, s, l, e
<1>5. BasicResult(k, x) \in BasicResults
  BY <1>1, <1>2, <1>3, <1>4 DEF BasicResults, Blocks
<1>6. LET r == BasicResult(k, x)
      IN /\ r.sequence = n /\ r.settings = s /\ r.first = k.primary.first /\ r.last = l
         /\ r.samples = k.primary.samples /\ r.afterGap = k.disc
         /\ r.valid = k.primary.valid /\ r.eligible = e
  BY <1>4
<1> QED
  BY <1>2, <1>5, <1>6 DEF n, l, e

--------------------------------------------------------------------------------
(* The folds of a block into the interval and the aggregates.               *)

(* The ten-minute interval with one more block in it.                      *)
Begins(t, r) == t.blocks = 0 \/ ~Follows(t, r)
TenMerged(t, r) ==
  [t EXCEPT !.blocks = IF Begins(t, r) THEN 1 ELSE @ + 1,
            !.settings = r.settings,
            !.first = IF Begins(t, r) THEN r.first ELSE @,
            !.samples = IF Begins(t, r) THEN r.samples ELSE @ + r.samples,
            !.valid = IF Begins(t, r) THEN r.valid ELSE @ /\ r.valid,
            !.last = r.last, !.nextSeq = r.sequence + 1,
            !.nextFirst = r.first + r.samples,
            !.contaminated = @ \/ (Begins(t, r) /\ t.blocks # 0)]
TenEmptied(t) == [t EXCEPT !.blocks = 0, !.contaminated = TRUE]
TenClosed(u, target) == [u EXCEPT !.closed = target, !.target = @ + IntervalSamples]

LEMMA TenMergedFields ==
  ASSUME NEW t \in TenMinuteSlots, NEW r \in BasicResults
  PROVE  LET u == TenMerged(t, r)
         IN /\ u \in TenMinuteSlots /\ u.blocks # 0 /\ u.settings = r.settings
            /\ u.first = IF Begins(t, r) THEN r.first ELSE t.first
            /\ u.samples = IF Begins(t, r) THEN r.samples ELSE t.samples + r.samples
            /\ u.last = r.last /\ u.nextFirst = r.first + r.samples
            /\ u.contaminated = (t.contaminated \/ (Begins(t, r) /\ t.blocks # 0))
            /\ u.sequence = t.sequence
<1> DEFINE blocks == IF Begins(t, r) THEN 1 ELSE t.blocks + 1
           first == IF Begins(t, r) THEN r.first ELSE t.first
           samples == IF Begins(t, r) THEN r.samples ELSE t.samples + r.samples
           valid == IF Begins(t, r) THEN r.valid ELSE t.valid /\ r.valid
           seq == r.sequence + 1
           next == r.first + r.samples
           dirty == t.contaminated \/ (Begins(t, r) /\ t.blocks # 0)
<1>1. /\ blocks \in Nat /\ blocks # 0 /\ first \in Int /\ samples \in Int /\ seq \in Int
      /\ next \in Int
  BY DEF TenMinuteSlots, BasicResults
<1>2. valid \in BOOLEAN /\ dirty \in BOOLEAN
  <2>1. t.valid \in BOOLEAN /\ r.valid \in BOOLEAN /\ t.contaminated \in BOOLEAN
    BY DEF TenMinuteSlots, BasicResults
  <2> QED
    BY <2>1
<1>3. TenMerged(t, r) =
        [t EXCEPT !.blocks = blocks, !.settings = r.settings, !.first = first,
                  !.samples = samples, !.valid = valid, !.last = r.last, !.nextSeq = seq,
                  !.nextFirst = next, !.contaminated = dirty]
  BY DEF TenMerged
<1>4. r.settings \in Settings /\ r.last \in Int
  BY DEF BasicResults
<1> HIDE DEF blocks, first, samples, valid, seq, next, dirty
<1>5. TenMerged(t, r) \in TenMinuteSlots
  <2>1. PICK a : a = [t EXCEPT !.blocks = blocks, !.settings = r.settings, !.first = first,
                               !.samples = samples, !.valid = valid]
    OBVIOUS
  <2>2. a \in TenMinuteSlots
    BY <1>1, <1>2, <1>4, <2>1 DEF TenMinuteSlots
  <2>3. TenMerged(t, r) =
          [a EXCEPT !.last = r.last, !.nextSeq = seq, !.nextFirst = next, !.contaminated = dirty]
    BY <1>3, <2>1
  <2> QED
    BY <1>1, <1>2, <1>4, <2>2, <2>3 DEF TenMinuteSlots
<1>6. LET u == TenMerged(t, r)
      IN /\ u.blocks = blocks /\ u.settings = r.settings /\ u.first = first
         /\ u.samples = samples /\ u.last = r.last /\ u.nextFirst = next
         /\ u.contaminated = dirty /\ u.sequence = t.sequence
  BY <1>3 DEF TenMinuteSlots
<1> QED
  BY <1>1, <1>5, <1>6 DEF first, samples, next, dirty

LEMMA TenEmptiedFields ==
  ASSUME NEW t \in TenMinuteSlots
  PROVE  LET u == TenEmptied(t)
         IN /\ u \in TenMinuteSlots /\ u.blocks = 0 /\ u.contaminated
            /\ u.sequence = t.sequence
  BY DEF TenEmptied, TenMinuteSlots

LEMMA TenClosedFields ==
  ASSUME NEW t \in TenMinuteSlots, NEW target \in Int
  PROVE  LET u == TenClosed(t, target)
         IN /\ u \in TenMinuteSlots /\ u.blocks = t.blocks /\ u.settings = t.settings
            /\ u.first = t.first /\ u.samples = t.samples /\ u.last = t.last
            /\ u.nextFirst = t.nextFirst /\ u.contaminated = t.contaminated
            /\ u.sequence = t.sequence
<1> DEFINE next == t.target + IntervalSamples
<1>1. next \in Int
  BY TierAssumption DEF TenMinuteSlots
<1>2. TenClosed(t, target) = [t EXCEPT !.closed = target, !.target = next]
  BY DEF TenClosed
<1> HIDE DEF next
<1> QED
  BY <1>1, <1>2 DEF TenMinuteSlots

(* Another ten-minute slot and other passes, and nothing else changed.      *)
WithTen(k, u, pending) == [k EXCEPT !.ten = u, !.pending = pending]

LEMMA WithTenFields ==
  ASSUME NEW k \in Kernels, NEW u \in TenMinuteSlots, NEW pending \in SUBSET (0 .. 4)
  PROVE  LET m == WithTen(k, u, pending)
         IN /\ m \in Kernels /\ m.ten = u /\ m.pending = pending
            /\ m.primary = k.primary /\ m.shadow = k.shadow /\ m.disc = k.disc
            /\ m.expected = k.expected /\ m.enable = k.enable
            /\ m.generation = k.generation /\ m.sequence = k.sequence
            /\ m.open = k.open /\ m.openShadow = k.openShadow /\ m.closed = k.closed
            /\ m.two = k.two
  BY DEF WithTen, Kernels

LEMMA FoldTenFields ==
  ASSUME NEW k \in Kernels, NEW r \in BasicResults
  PROVE  LET m == FoldTen(k, r)
             t == k.ten
             u == m.ten
         IN /\ m \in Kernels
            /\ m.primary = k.primary /\ m.shadow = k.shadow /\ m.disc = k.disc
            /\ m.expected = k.expected /\ m.enable = k.enable
            /\ m.generation = k.generation /\ m.sequence = k.sequence
            /\ m.open = k.open /\ m.openShadow = k.openShadow /\ m.closed = k.closed
            /\ m.two = k.two /\ u.sequence = t.sequence
            /\ \/ /\ u.blocks = 0 /\ u.contaminated /\ m.pending = k.pending \ {OpenTen}
               \/ /\ r.eligible /\ u.blocks # 0 /\ u.settings = r.settings
                  /\ u.first = IF Begins(t, r) THEN r.first ELSE t.first
                  /\ u.samples = IF Begins(t, r) THEN r.samples ELSE t.samples + r.samples
                  /\ u.last = r.last /\ u.nextFirst = r.first + r.samples
                  /\ u.contaminated = (t.contaminated \/ (Begins(t, r) /\ t.blocks # 0))
                  /\ m.pending = k.pending \/ m.pending = k.pending \cup {TenMinute}
<1> DEFINE t == k.ten
           merged == TenMerged(t, r)
<1>1. t \in TenMinuteSlots /\ t.target \in Int /\ k.pending \in SUBSET (0 .. 4)
  BY DEF Kernels, TenMinuteSlots
<1>2. merged \in TenMinuteSlots
  BY <1>1, TenMergedFields
<1>3. CASE t.target = None \/ ~r.eligible
  <2> DEFINE pending == k.pending \ {OpenTen}
  <2>1. FoldTen(k, r) = WithTen(k, TenEmptied(t), pending)
    BY <1>3 DEF FoldTen, WithTen, TenEmptied
  <2>2. pending \in SUBSET (0 .. 4)
    BY <1>1
  <2> HIDE DEF pending
  <2>3. /\ TenEmptied(t) \in TenMinuteSlots /\ TenEmptied(t).blocks = 0 /\ TenEmptied(t).contaminated
        /\ TenEmptied(t).sequence = t.sequence
    BY <1>1, TenEmptiedFields
  <2> QED
    BY <2>1, <2>2, <2>3, WithTenFields DEF pending
<1>4. CASE ~(t.target = None \/ ~r.eligible) /\ r.last < t.target
  <2>1. FoldTen(k, r) = [k EXCEPT !.ten = merged]
    BY <1>4 DEF FoldTen, TenMerged, Begins
  <2> HIDE DEF merged
  <2>2. [k EXCEPT !.ten = merged] = WithTen(k, merged, k.pending)
    BY <1>1 DEF WithTen, Kernels
  <2>3. merged = TenMerged(t, r)
    BY DEF merged
  <2> QED
    BY <1>1, <1>2, <1>4, <2>1, <2>2, <2>3, WithTenFields, TenMergedFields
<1>5. CASE ~(t.target = None \/ ~r.eligible) /\ ~(r.last < t.target)
  <2> DEFINE pending == k.pending \cup {TenMinute}
             u == TenClosed(merged, t.target)
  <2>1. FoldTen(k, r) = WithTen(k, u, pending)
    BY <1>5 DEF FoldTen, WithTen, TenMerged, TenClosed, Begins
  <2>2. pending \in SUBSET (0 .. 4)
    BY <1>1 DEF TenMinute
  <2> HIDE DEF pending, merged
  <2>3. /\ u \in TenMinuteSlots /\ u.blocks = merged.blocks /\ u.settings = merged.settings
        /\ u.first = merged.first /\ u.samples = merged.samples /\ u.last = merged.last
        /\ u.nextFirst = merged.nextFirst /\ u.contaminated = merged.contaminated
        /\ u.sequence = merged.sequence
    BY <1>1, <1>2, TenClosedFields
  <2> HIDE DEF u
  <2>4. merged = TenMerged(t, r)
    BY DEF merged
  <2>5. LET m == FoldTen(k, r)
        IN /\ m \in Kernels /\ m.ten = u /\ m.pending = pending
           /\ m.primary = k.primary /\ m.shadow = k.shadow /\ m.disc = k.disc
           /\ m.expected = k.expected /\ m.enable = k.enable
           /\ m.generation = k.generation /\ m.sequence = k.sequence
           /\ m.open = k.open /\ m.openShadow = k.openShadow /\ m.closed = k.closed
           /\ m.two = k.two
    BY <2>1, <2>2, <2>3, WithTenFields
  <2>6. /\ u.blocks # 0 /\ u.settings = r.settings
        /\ u.first = IF Begins(t, r) THEN r.first ELSE t.first
        /\ u.samples = IF Begins(t, r) THEN r.samples ELSE t.samples + r.samples
        /\ u.last = r.last /\ u.nextFirst = r.first + r.samples
        /\ u.contaminated = (t.contaminated \/ (Begins(t, r) /\ t.blocks # 0))
        /\ u.sequence = t.sequence
    BY <1>1, <2>3, <2>4, TenMergedFields
  <2> QED
    BY <1>5, <2>5, <2>6 DEF pending
<1> QED
  BY <1>3, <1>4, <1>5

(* The aggregates with one more block.  An overlapping block is flagged.    *)
Flagged(s, overlap) == [s EXCEPT !.overlap = overlap]
WithAggregates(k, open, beside, closed, sync, pending) ==
  [k EXCEPT !.open = open, !.openShadow = beside, !.closed = closed, !.syncSeed = sync,
            !.pending = pending]

LEMMA SeedFields ==
  ASSUME NEW r \in BasicResults, NEW resync \in BOOLEAN
  PROVE  LET s == Seed(r, resync)
         IN /\ s \in AggregateSlots /\ s.blocks = 1 /\ s.settings = r.settings
            /\ s.first = r.first /\ s.last = r.last /\ s.samples = r.samples
            /\ s.nextFirst = r.first + r.samples /\ ~s.overlap
<1> DEFINE seq == r.sequence + 1
           next == r.first + r.samples
<1>1. /\ seq \in Int /\ next \in Int /\ 1 \in Nat /\ r.settings \in Settings
      /\ r.first \in Int /\ r.last \in Int /\ r.samples \in Int /\ r.valid \in BOOLEAN
  BY DEF BasicResults
<1>2. Seed(r, resync) =
        [blocks |-> 1, settings |-> r.settings, first |-> r.first, last |-> r.last,
         samples |-> r.samples, nextSeq |-> seq, nextFirst |-> next,
         valid |-> r.valid, overlap |-> FALSE, resync |-> resync]
  BY DEF Seed
<1> HIDE DEF seq, next
<1>3. Seed(r, resync) \in AggregateSlots
  BY <1>1, <1>2 DEF AggregateSlots
<1>4. LET s == Seed(r, resync)
      IN /\ s.blocks = 1 /\ s.settings = r.settings
         /\ s.first = r.first /\ s.last = r.last /\ s.samples = r.samples
         /\ s.nextFirst = next /\ ~s.overlap
  BY <1>2
<1> QED
  BY <1>3, <1>4 DEF next

LEMMA AddedFields ==
  ASSUME NEW p \in AggregateSlots, NEW r \in BasicResults
  PROVE  LET s == Added(p, r)
         IN /\ s \in AggregateSlots /\ s.blocks = p.blocks + 1 /\ s.settings = p.settings
            /\ s.first = p.first /\ s.last = r.last /\ s.samples = p.samples + r.samples
            /\ s.nextFirst = r.first + r.samples /\ s.overlap = p.overlap
<1> DEFINE blocks == p.blocks + 1
           samples == p.samples + r.samples
           seq == r.sequence + 1
           next == r.first + r.samples
           valid == p.valid /\ r.valid
<1>1. blocks \in Nat /\ samples \in Int /\ seq \in Int /\ next \in Int /\ r.last \in Int
  BY DEF AggregateSlots, BasicResults
<1>2. valid \in BOOLEAN
  <2>1. p.valid \in BOOLEAN /\ r.valid \in BOOLEAN
    BY DEF AggregateSlots, BasicResults
  <2> QED
    BY <2>1
<1>3. Added(p, r) = [p EXCEPT !.blocks = blocks, !.last = r.last, !.samples = samples,
                              !.nextSeq = seq, !.nextFirst = next, !.valid = valid]
  BY DEF Added
<1> HIDE DEF blocks, samples, seq, next, valid
<1>4. Added(p, r) \in AggregateSlots
  BY <1>1, <1>2, <1>3 DEF AggregateSlots
<1>5. LET s == Added(p, r)
      IN /\ s.blocks = blocks /\ s.settings = p.settings /\ s.first = p.first
         /\ s.last = r.last /\ s.samples = samples /\ s.nextFirst = next
         /\ s.overlap = p.overlap
  BY <1>1, <1>3 DEF AggregateSlots
<1> QED
  BY <1>4, <1>5 DEF blocks, samples, next

LEMMA FlaggedFields ==
  ASSUME NEW p \in AggregateSlots, NEW overlap \in BOOLEAN
  PROVE  LET s == Flagged(p, overlap)
         IN /\ s \in AggregateSlots /\ s.blocks = p.blocks /\ s.settings = p.settings
            /\ s.first = p.first /\ s.last = p.last /\ s.samples = p.samples
            /\ s.nextFirst = p.nextFirst /\ s.overlap = overlap
  BY DEF Flagged, AggregateSlots

LEMMA WithAggregatesFields ==
  ASSUME NEW k \in Kernels, NEW open \in AggregateSlots, NEW beside \in AggregateSlots,
         NEW closed \in AggregateSlots, NEW sync \in BOOLEAN, NEW pending \in SUBSET (0 .. 4)
  PROVE  LET m == WithAggregates(k, open, beside, closed, sync, pending)
         IN /\ m \in Kernels /\ m.open = open /\ m.openShadow = beside /\ m.closed = closed
            /\ m.pending = pending
            /\ m.primary = k.primary /\ m.shadow = k.shadow /\ m.disc = k.disc
            /\ m.expected = k.expected /\ m.enable = k.enable
            /\ m.generation = k.generation /\ m.sequence = k.sequence
            /\ m.ten = k.ten /\ m.two = k.two
  BY DEF WithAggregates, Kernels

(* The slots after a block: the open aggregate and the one beside it.       *)
AggregateBegins(k, r) == k.open.blocks = 0 \/ ~Continues(k.open, r)
Splits(k, r) == r.resync /\ ~AggregateBegins(k, r)
Joined(k, r) ==
  IF AggregateBegins(k, r) THEN Seed(r, k.syncSeed \/ r.resync)
  ELSE Added(Flagged(k.open, k.open.overlap \/ Splits(k, r)), r)
Beside(k, r) ==
  IF Splits(k, r) THEN Seed(r, TRUE)
  ELSE IF AggregateBegins(k, r) \/ k.openShadow.blocks = 0 THEN NoSlot
  ELSE Added(k.openShadow, r)

LEMMA JoinedFields ==
  ASSUME NEW k \in Kernels, NEW r \in BasicResults
  PROVE  LET s == Joined(k, r)
             p == k.open
         IN /\ s \in AggregateSlots
            /\ IF AggregateBegins(k, r)
               THEN /\ s.blocks = 1 /\ s.settings = r.settings /\ s.first = r.first
                    /\ s.last = r.last /\ s.samples = r.samples
                    /\ s.nextFirst = r.first + r.samples
               ELSE /\ s.blocks = p.blocks + 1 /\ s.settings = p.settings /\ s.first = p.first
                    /\ s.last = r.last /\ s.samples = p.samples + r.samples
                    /\ s.nextFirst = r.first + r.samples
                    /\ ~s.overlap => ~p.overlap /\ ~Splits(k, r)
<1>1. /\ k.open \in AggregateSlots /\ k.syncSeed \in BOOLEAN /\ r.resync \in BOOLEAN
      /\ k.open.overlap \in BOOLEAN
  BY DEF Kernels, BasicResults, AggregateSlots
<1>2. CASE AggregateBegins(k, r)
  <2>1. PICK b \in BOOLEAN : b = (k.syncSeed \/ r.resync)
    BY <1>1, Zenon
  <2>2. Joined(k, r) = Seed(r, b)
    BY <1>2, <2>1 DEF Joined
  <2> QED
    BY <1>2, <2>2, SeedFields
<1>3. CASE ~AggregateBegins(k, r)
  <2>1. (k.open.overlap \/ Splits(k, r)) \in BOOLEAN
    BY <1>1, Zenon DEF Splits
  <2>2. PICK b \in BOOLEAN : b = (k.open.overlap \/ Splits(k, r))
    BY <2>1, Zenon
  <2>3. Joined(k, r) = Added(Flagged(k.open, b), r)
    BY <1>3, <2>2 DEF Joined
  <2>4. PICK f \in AggregateSlots : f = Flagged(k.open, b)
    BY <1>1, FlaggedFields
  <2>5. /\ f.blocks = k.open.blocks /\ f.settings = k.open.settings /\ f.first = k.open.first
        /\ f.samples = k.open.samples /\ f.overlap = b
    <3>1. PICK s \in AggregateSlots : s = k.open
      BY <1>1
    <3>2. f = Flagged(s, b)
      BY <2>4, <3>1
    <3>3. /\ f.blocks = s.blocks /\ f.settings = s.settings /\ f.first = s.first
          /\ f.samples = s.samples /\ f.overlap = b
      BY <3>2, FlaggedFields
    <3> QED
      BY <3>1, <3>3
  <2>6. /\ Added(f, r) \in AggregateSlots /\ Added(f, r).blocks = f.blocks + 1
        /\ Added(f, r).settings = f.settings /\ Added(f, r).first = f.first
        /\ Added(f, r).last = r.last /\ Added(f, r).samples = f.samples + r.samples
        /\ Added(f, r).nextFirst = r.first + r.samples /\ Added(f, r).overlap = f.overlap
    BY AddedFields
  <2>7. Joined(k, r) = Added(f, r)
    BY <2>3, <2>4
  <2>8. ~b => ~k.open.overlap /\ ~Splits(k, r)
    BY <2>2
  <2> QED
    BY <1>3, <2>5, <2>6, <2>7, <2>8
<1> QED
  BY <1>2, <1>3

LEMMA BesideFields ==
  ASSUME NEW k \in Kernels, NEW r \in BasicResults
  PROVE  LET s == Beside(k, r)
             p == k.openShadow
         IN /\ s \in AggregateSlots
            /\ \/ s.blocks = 0
               \/ /\ Splits(k, r) /\ s.blocks = 1 /\ s.settings = r.settings
                  /\ s.first = r.first /\ s.last = r.last /\ s.samples = r.samples
                  /\ s.nextFirst = r.first + r.samples
               \/ /\ ~Splits(k, r) /\ ~AggregateBegins(k, r) /\ p.blocks # 0
                  /\ s.blocks = p.blocks + 1 /\ s.settings = p.settings /\ s.first = p.first
                  /\ s.last = r.last /\ s.samples = p.samples + r.samples
                  /\ s.nextFirst = r.first + r.samples /\ s.overlap = p.overlap
<1>1. k.openShadow \in AggregateSlots /\ TRUE \in BOOLEAN
  BY DEF Kernels
<1>2. CASE Splits(k, r)
  BY <1>1, <1>2, SeedFields DEF Beside
<1>3. CASE ~Splits(k, r) /\ (AggregateBegins(k, r) \/ k.openShadow.blocks = 0)
  BY <1>3, EmptyTypes DEF Beside
<1>4. CASE ~Splits(k, r) /\ ~AggregateBegins(k, r) /\ k.openShadow.blocks # 0
  <2>1. Beside(k, r) = Added(k.openShadow, r)
    BY <1>4 DEF Beside
  <2> QED
    BY <1>1, <1>4, <2>1, AddedFields
<1> QED
  BY <1>2, <1>3, <1>4

AggregatesFolded(k, r, m) ==
  \/ /\ m.open.blocks = 0 /\ m.openShadow.blocks = 0 /\ m.pending = k.pending
     /\ m.closed = k.closed
  \/ /\ r.eligible /\ m.open = Joined(k, r) /\ m.openShadow = Beside(k, r)
     /\ m.open.blocks # BlocksPerAggregate /\ m.pending = k.pending
     /\ m.closed = k.closed
  \/ /\ r.eligible /\ m.closed = Joined(k, r) /\ m.open = Beside(k, r)
     /\ m.openShadow.blocks = 0 /\ m.closed.blocks = BlocksPerAggregate
     /\ m.pending = k.pending \cup {Aggregate}

LEMMA FoldAggregatesFields ==
  ASSUME NEW k \in Kernels, NEW r \in BasicResults
  PROVE  LET m == FoldAggregates(k, r)
         IN /\ m \in Kernels
            /\ m.primary = k.primary /\ m.shadow = k.shadow /\ m.disc = k.disc
            /\ m.expected = k.expected /\ m.enable = k.enable
            /\ m.generation = k.generation /\ m.sequence = k.sequence
            /\ m.ten = k.ten /\ m.two = k.two
            /\ AggregatesFolded(k, r, m)
<1>1. /\ k.open \in AggregateSlots /\ k.closed \in AggregateSlots /\ k.pending \in SUBSET (0 .. 4)
      /\ k.syncSeed \in BOOLEAN /\ r.resync \in BOOLEAN
  BY DEF Kernels, BasicResults
<1>2. Joined(k, r) \in AggregateSlots /\ Beside(k, r) \in AggregateSlots
  BY JoinedFields, BesideFields
<1> DEFINE sync == (k.syncSeed \/ r.resync) /\ ~AggregateBegins(k, r) /\ ~Splits(k, r)
<1>3. sync \in BOOLEAN
  BY <1>1
<1>4. CASE ~r.eligible
  <2>1. FoldAggregates(k, r) = [k EXCEPT !.open = NoSlot, !.openShadow = NoSlot, !.syncSeed = r.resync]
    BY <1>4 DEF FoldAggregates
  <2>2. FoldAggregates(k, r) = WithAggregates(k, NoSlot, NoSlot, k.closed, r.resync, k.pending)
    BY <2>1, <1>1 DEF WithAggregates, Kernels
  <2> QED
    BY <1>1, <2>2, EmptyTypes, WithAggregatesFields DEF AggregatesFolded
<1>5. CASE r.eligible /\ Joined(k, r).blocks # BlocksPerAggregate
  <2>1. FoldAggregates(k, r) =
          [k EXCEPT !.open = Joined(k, r), !.openShadow = Beside(k, r), !.syncSeed = sync]
    BY <1>5 DEF FoldAggregates, Joined, Beside, Splits, AggregateBegins, Flagged
  <2> HIDE DEF sync
  <2>2. FoldAggregates(k, r) =
          WithAggregates(k, Joined(k, r), Beside(k, r), k.closed, sync, k.pending)
    BY <1>1, <2>1 DEF WithAggregates, Kernels
  <2> QED
    BY <1>1, <1>2, <1>3, <1>5, <2>2, WithAggregatesFields DEF AggregatesFolded
<1>6. CASE r.eligible /\ Joined(k, r).blocks = BlocksPerAggregate
  <2> DEFINE pending == k.pending \cup {Aggregate}
  <2>1. FoldAggregates(k, r) =
          WithAggregates(k, Beside(k, r), NoSlot, Joined(k, r), sync, pending)
    <3>1. FoldAggregates(k, r) =
            [[k EXCEPT !.open = Joined(k, r), !.openShadow = Beside(k, r), !.syncSeed = sync]
               EXCEPT !.closed = Joined(k, r), !.open = Beside(k, r), !.openShadow = NoSlot,
                      !.pending = @ \cup {Aggregate}]
      BY <1>6 DEF FoldAggregates, Joined, Beside, Splits, AggregateBegins, Flagged
    <3> HIDE DEF sync
    <3>2. PICK joined \in AggregateSlots, beside \in AggregateSlots :
             joined = Joined(k, r) /\ beside = Beside(k, r)
      BY <1>2
    <3>3. FoldAggregates(k, r) =
            [[k EXCEPT !.open = joined, !.openShadow = beside, !.syncSeed = sync]
               EXCEPT !.closed = joined, !.open = beside, !.openShadow = NoSlot,
                      !.pending = @ \cup {Aggregate}]
      BY <3>1, <3>2
    <3>4. FoldAggregates(k, r) = WithAggregates(k, beside, NoSlot, joined, sync, pending)
      BY <3>3 DEF WithAggregates, Kernels
    <3> QED
      BY <3>2, <3>4
  <2>2. pending \in SUBSET (0 .. 4)
    BY <1>1 DEF Aggregate
  <2>3. NoSlot \in AggregateSlots /\ NoSlot.blocks = 0
    BY EmptyTypes
  <2> HIDE DEF sync, pending
  <2>4. LET m == FoldAggregates(k, r)
        IN /\ m \in Kernels /\ m.open = Beside(k, r) /\ m.openShadow = NoSlot
           /\ m.closed = Joined(k, r) /\ m.pending = pending
           /\ m.primary = k.primary /\ m.shadow = k.shadow /\ m.disc = k.disc
           /\ m.expected = k.expected /\ m.enable = k.enable
           /\ m.generation = k.generation /\ m.sequence = k.sequence
           /\ m.ten = k.ten /\ m.two = k.two
    BY <1>2, <1>3, <2>1, <2>2, <2>3, WithAggregatesFields
  <2> QED
    BY <1>6, <2>3, <2>4 DEF pending, AggregatesFolded
<1> QED
  BY <1>4, <1>5, <1>6

--------------------------------------------------------------------------------
(* What a frame does to a sound kernel.  New marks and new configurations   *)
(* leave less of it.                                                       *)
LEMMA EmptyBlockOpen == NoBlock.cycles < met_expected_cycles(NoBlock.nominal)
  BY TierAssumption DEF NoBlock, met_expected_cycles

LEMMA AdoptMarkSound ==
  ASSUME NEW k \in Kernels, NEW x \in CyclePackets, NEW now \in Int, NEW h \in Histories,
         KernelSound(k, now, h), k.pending = {}
  PROVE  LET m == AdoptMark(k, x)
         IN m \in Kernels /\ KernelSound(m, now, h) /\ m.pending = {}
<1> DEFINE m == AdoptMark(k, x)
<1>1. /\ m \in Kernels /\ m.enable = k.enable /\ m.expected = k.expected /\ m.disc = k.disc
      /\ m.primary = k.primary /\ m.open = k.open /\ m.pending = {}
      /\ \/ m = k
         \/ /\ m.shadow = NoBlock /\ m.openShadow = NoSlot /\ m.ten.blocks = 0
            /\ m.ten.contaminated /\ m.two.intervals = 0
  BY AdoptMarkFields
<1>2. CASE m = k
  BY <1>1, <1>2
<1>3. CASE m # k
  <2> HIDE DEF m
  <2>1. m.shadow.cycles = 0 /\ m.openShadow.blocks = 0
    BY <1>1, <1>3, EmptyTypes
  <2>2. BlocksSound(m, now, h) /\ BlockOpen(m) /\ Expecting(m)
    BY <1>1, <2>1 DEF KernelSound, BlocksSound, BlockOpen, Expecting
  <2>3. AggregatesSound(m, now, h)
    BY <1>1, <2>1 DEF KernelSound, AggregatesSound, SlotSound
  <2>4. TenSound(m, now, h) /\ TwoSound(m, now, h)
    BY <1>1, <1>3 DEF TenSound, TwoSound
  <2>5. PendingSound(m, now, h)
    BY <1>1, <1>3, TierAssumption DEF PendingSound
  <2>6. m \in Kernels /\ KernelSound(m, now, h) /\ m.pending = {}
    BY <1>1, <2>2, <2>3, <2>4, <2>5 DEF KernelSound
  <2> QED
    BY <2>6 DEF m
<1> QED
  BY <1>2, <1>3

LEMMA ApplyConfigurationSound ==
  ASSUME NEW k \in Kernels, NEW x \in CyclePackets, NEW now \in Int, NEW h \in Histories,
         KernelSound(k, now, h), k.pending = {}
  PROVE  LET m == ApplyConfiguration(k, x)
         IN m \in Kernels /\ KernelSound(m, now, h) /\ m.pending = {}
<1> DEFINE m == ApplyConfiguration(k, x)
<1>1. /\ m \in Kernels /\ m.open = k.open /\ m.openShadow = k.openShadow
      /\ m.ten = k.ten /\ m.pending = {}
      /\ \/ m = k
         \/ /\ m.primary = NoBlock /\ m.shadow = NoBlock /\ m.expected = None
            /\ m.disc /\ m.two.intervals = 0
  BY ApplyConfigurationFields
<1>2. CASE m = k
  BY <1>1, <1>2
<1>3. CASE m # k
  <2> HIDE DEF m
  <2>1. m.shadow.cycles = 0 /\ m.primary.cycles = 0
    BY <1>1, <1>3, EmptyTypes
  <2>2. BlocksSound(m, now, h) /\ BlockOpen(m) /\ Expecting(m)
    BY <1>1, <1>3, <2>1, EmptyBlockOpen DEF BlocksSound, BlockOpen, Expecting
  <2>3. AggregatesSound(m, now, h)
    BY <1>1, <1>3 DEF KernelSound, AggregatesSound, SlotSound
  <2>4. TenSound(m, now, h) /\ TwoSound(m, now, h)
    BY <1>1, <1>3 DEF KernelSound, TenSound, TwoSound, SlotSound
  <2>5. PendingSound(m, now, h)
    BY <1>1, <1>3, TierAssumption DEF PendingSound
  <2>6. m \in Kernels /\ KernelSound(m, now, h) /\ m.pending = {}
    BY <1>1, <2>2, <2>3, <2>4, <2>5 DEF KernelSound
  <2> QED
    BY <2>6 DEF m
<1> QED
  BY <1>2, <1>3

LEMMA ConfiguredSound ==
  ASSUME NEW k \in Kernels, NEW x \in CyclePackets, NEW now \in Int, NEW h \in Histories,
         KernelSound(k, now, h), k.pending = {}
  PROVE  LET m == Configured(k, x)
         IN /\ m \in Kernels /\ KernelSound(m, now, h) /\ m.pending = {}
            /\ m.sequence = k.sequence
            /\ m.expected \in {None, k.expected}
            /\ ~m.disc => ~k.disc /\ m.primary = k.primary
<1>1. PICK a \in Kernels : a = AdoptMark(k, x)
  BY AdoptMarkFields
<1>2. /\ KernelSound(a, now, h) /\ a.pending = {} /\ a.sequence = k.sequence
      /\ a.expected = k.expected /\ a.disc = k.disc /\ a.primary = k.primary
  BY <1>1, AdoptMarkSound, AdoptMarkFields
<1>3. PICK m \in Kernels : m = ApplyConfiguration(a, x)
  BY ApplyConfigurationFields
<1>4. KernelSound(m, now, h) /\ m.pending = {}
  BY <1>2, <1>3, ApplyConfigurationSound
<1>5. m.sequence = a.sequence /\ (m = a \/ (m.expected = None /\ m.disc))
  BY <1>3, ApplyConfigurationFields
<1>6. Configured(k, x) = m
  BY <1>1, <1>3 DEF Configured
<1> QED
  BY <1>2, <1>4, <1>5, <1>6

(* The history with one more cycle.                                         *)
Remembered(h, k, x) ==
  [cut |-> IF ~Measures(k, x) THEN FirstSample(x.cycle + 1)
           ELSE IF x.gap \/ x.cycle # k.expected THEN FirstSample(x.cycle) ELSE h.cut,
   changed |-> IF x.nominal # h.nominal THEN FirstSample(x.cycle) ELSE h.changed,
   unlocked |-> IF x.locked THEN h.unlocked ELSE FirstSample(x.cycle),
   nominal |-> x.nominal]

LEMMA RememberedFields ==
  ASSUME NEW h \in Histories, NEW k \in Kernels, NEW x \in CyclePackets
  PROVE  LET g == Remembered(h, k, x)
         IN /\ g \in Histories /\ g.nominal = x.nominal
            /\ g.cut = IF ~Measures(k, x) THEN FirstSample(x.cycle + 1)
                       ELSE IF x.gap \/ x.cycle # k.expected THEN FirstSample(x.cycle) ELSE h.cut
            /\ g.changed = IF x.nominal # h.nominal THEN FirstSample(x.cycle) ELSE h.changed
            /\ g.unlocked = IF x.locked THEN h.unlocked ELSE FirstSample(x.cycle)
<1> DEFINE cut == IF ~Measures(k, x) THEN FirstSample(x.cycle + 1)
                  ELSE IF x.gap \/ x.cycle # k.expected THEN FirstSample(x.cycle) ELSE h.cut
           changed == IF x.nominal # h.nominal THEN FirstSample(x.cycle) ELSE h.changed
           unlocked == IF x.locked THEN h.unlocked ELSE FirstSample(x.cycle)
<1>1. x.cycle \in Int /\ x.cycle + 1 \in Int /\ x.nominal \in Nominals
  BY DEF CyclePackets
<1>2. FirstSample(x.cycle) \in Int /\ FirstSample(x.cycle + 1) \in Int
  BY <1>1, SampleTypes
<1>3. cut \in Int /\ changed \in Int /\ unlocked \in Int
  BY <1>2 DEF Histories
<1>4. Remembered(h, k, x) =
        [cut |-> cut, changed |-> changed, unlocked |-> unlocked, nominal |-> x.nominal]
  BY DEF Remembered
<1> HIDE DEF cut, changed, unlocked
<1>5. LET g == Remembered(h, k, x)
      IN /\ g \in Histories /\ g.cut = cut /\ g.changed = changed /\ g.unlocked = unlocked
         /\ g.nominal = x.nominal
  BY <1>1, <1>3, <1>4 DEF Histories
<1> QED
  BY <1>5 DEF cut, changed, unlocked

(* A block stays sound when the next cycle goes into it; a new one is.      *)
Grows(h, g, x) ==
  /\ g.cut <= FirstSample(x.cycle) /\ g.changed <= FirstSample(x.cycle)
  /\ h.unlocked < FirstSample(x.cycle) /\ g.nominal = x.nominal
  /\ g.unlocked = IF x.locked THEN h.unlocked ELSE FirstSample(x.cycle)

LEMMA ExtendedSound ==
  ASSUME NEW b \in Blocks, NEW x \in CyclePackets, NEW resync \in BOOLEAN,
         NEW h \in Histories, NEW g \in Histories, Grows(h, g, x),
         b.cycles # 0 =>
           /\ b.first < FirstSample(x.cycle) /\ b.samples = FirstSample(x.cycle) - b.first
           /\ g.cut <= b.first /\ g.changed <= b.first
           /\ b.locked => h.unlocked < b.first
           /\ b.nominal = g.nominal
  PROVE  BlockSound(Extended(b, x, resync), FirstSample(x.cycle + 1), g)
<1>1. PICK e \in Blocks : e = Extended(b, x, resync)
  BY ExtendedFields
<1>2. /\ e.locked => x.locked
      /\ IF b.cycles = 0
         THEN e.first = FirstSample(x.cycle) /\ e.samples = CycleSamples /\ e.nominal = x.nominal
         ELSE /\ e.first = b.first /\ e.samples = b.samples + CycleSamples
              /\ e.nominal = b.nominal /\ (e.locked => b.locked)
  BY <1>1, ExtendedFields
<1>3. x.cycle \in Int
  BY DEF CyclePackets
<1>4. PICK n \in Int : n = FirstSample(x.cycle)
  BY <1>3, SampleTypes
<1>5. FirstSample(x.cycle + 1) = n + CycleSamples /\ CycleSamples \in Nat /\ CycleSamples > 0
  BY <1>3, <1>4, SampleArithmetic, SampleTypes
<1>6. /\ g.cut \in Int /\ g.changed \in Int /\ g.unlocked \in Int /\ h.unlocked \in Int
      /\ b.first \in Int /\ b.samples \in Int /\ e.first \in Int /\ e.samples \in Int
  BY DEF Histories, Blocks
<1>7. BlockSound(e, n + CycleSamples, g)
  BY <1>2, <1>4, <1>5, <1>6 DEF BlockSound, Grows
<1> QED
  BY <1>1, <1>5, <1>7

(* The cycle comes after everything heard.  If it is merged and there is no *)
(* break in front of it the history goes on, but for a new frequency at a   *)
(* block boundary.                                                         *)
Later(x, now, h, g) ==
  /\ h.unlocked < now /\ now <= FirstSample(x.cycle)
  /\ g.unlocked \in {h.unlocked, FirstSample(x.cycle)}
Advances(k, m, x, now, h, g) ==
  /\ Later(x, now, h, g) /\ m.primary.cycles # 0
  /\ ~m.disc => /\ ~k.disc /\ g.cut = h.cut /\ now = FirstSample(x.cycle)
                /\ \/ g.nominal = h.nominal /\ g.changed = h.changed
                   \/ /\ g.nominal # h.nominal /\ g.changed = FirstSample(x.cycle)
                      /\ k.primary.cycles = 0

LEMMA PlacedStays ==
  ASSUME NEW s, s.first \in Int, s.last \in Int, s.nextFirst \in Int,
         NEW x \in CyclePackets, NEW now \in Int, NEW h \in Histories, NEW g \in Histories,
         Later(x, now, h, g), Placed(s, now, h)
  PROVE  Placed(s, FirstSample(x.cycle + 1), g)
<1>1. x.cycle \in Int
  BY DEF CyclePackets
<1>2. PICK n \in Int : n = FirstSample(x.cycle)
  BY <1>1, SampleTypes
<1>3. FirstSample(x.cycle + 1) = n + CycleSamples /\ CycleSamples \in Nat /\ CycleSamples > 0
  BY <1>1, <1>2, SampleArithmetic, SampleTypes
<1>4. g.unlocked \in Int /\ h.unlocked \in Int
  BY DEF Histories
<1> QED
  BY <1>2, <1>3, <1>4 DEF Placed, Later

LEMMA SlotStays ==
  ASSUME NEW s, s.first \in Int, s.last \in Int, s.nextFirst \in Int,
         NEW k \in Kernels, NEW m \in Kernels, NEW x \in CyclePackets, NEW now \in Int,
         NEW h \in Histories, NEW g \in Histories,
         Advances(k, m, x, now, h, g), SlotSound(s, k, now, h)
  PROVE  SlotSound(s, m, FirstSample(x.cycle + 1), g)
<1>1. Placed(s, FirstSample(x.cycle + 1), g)
  BY PlacedStays DEF SlotSound, Advances
<1>2. ASSUME ~m.disc
      PROVE  \/ Current(s, g)
             \/ Outdated(s, g) /\ s.settings[2] # g.nominal /\ m.primary.cycles # 0
  <2>1. /\ g.cut = h.cut /\ now = FirstSample(x.cycle) /\ s.first <= s.last /\ s.last < now
        /\ m.primary.cycles # 0
        /\ \/ Current(s, h)
           \/ Outdated(s, h) /\ s.settings[2] # h.nominal /\ k.primary.cycles # 0
    BY <1>2 DEF Advances, SlotSound, Placed
  <2>2. CASE g.nominal = h.nominal /\ g.changed = h.changed
    BY <2>1, <2>2 DEF Current, Outdated
  <2>3. CASE g.nominal # h.nominal /\ g.changed = now /\ k.primary.cycles = 0
    <3>1. Current(s, h)
      BY <2>1, <2>3
    <3>2. g.cut \in Int /\ g.changed \in Int
      BY DEF Histories
    <3> QED
      BY <2>1, <2>3, <3>1, <3>2 DEF Current, Outdated
  <2> QED
    BY <1>2, <2>1, <2>2, <2>3 DEF Advances
<1> QED
  BY <1>1, <1>2 DEF SlotSound

LEMMA TwoStays ==
  ASSUME NEW k \in Kernels, NEW m \in Kernels, NEW x \in CyclePackets, NEW now \in Int,
         NEW h \in Histories, NEW g \in Histories,
         Advances(k, m, x, now, h, g), TwoSound(k, now, h), TenSound(k, now, h),
         m.two = k.two, m.ten = k.ten
  PROVE  TwoSound(m, FirstSample(x.cycle + 1), g)
<1> DEFINE w == k.two
           t == k.ten
<1>1. /\ w.first \in Int /\ w.last \in Int /\ w.nextFirst \in Int
      /\ t.first \in Int /\ t.last \in Int /\ g.cut \in Int /\ g.changed \in Int /\ h.changed \in Int
  BY DEF Kernels, TwoHourSlots, TenMinuteSlots, Histories
<1>2. CASE w.intervals = 0
  BY <1>2 DEF TwoSound
<1>3. CASE w.intervals # 0
  <2>1. Placed(w, now, h) /\ Once(w)
    BY <1>3 DEF TwoSound
  <2>2. Placed(w, FirstSample(x.cycle + 1), g)
    BY <1>1, <2>1, PlacedStays DEF Advances
  <2>3. ASSUME ~m.disc, ~t.contaminated
        PROVE  \/ Current(w, g)
               \/ /\ Outdated(w, g)
                  /\ IF t.blocks # 0
                     THEN t.first < g.changed \/ t.settings[2] # w.settings[2]
                     ELSE w.settings[2] # g.nominal /\ m.primary.cycles # 0
    <3>1. /\ ~k.disc /\ g.cut = h.cut /\ now = FirstSample(x.cycle) /\ w.first <= w.last
          /\ w.last < now /\ m.primary.cycles # 0
      BY <2>1, <2>3 DEF Advances, Placed
    <3>2. \/ Current(w, h)
          \/ /\ Outdated(w, h)
             /\ IF t.blocks # 0
                THEN t.first < h.changed \/ t.settings[2] # w.settings[2]
                ELSE w.settings[2] # h.nominal /\ k.primary.cycles # 0
      BY <1>3, <2>3, <3>1 DEF TwoSound
    <3>3. CASE g.nominal = h.nominal /\ g.changed = h.changed
      BY <3>1, <3>2, <3>3 DEF Current, Outdated
    <3>4. CASE g.nominal # h.nominal /\ g.changed = now /\ k.primary.cycles = 0
      <4>1. g.cut < w.first /\ w.first < g.changed /\ w.last < g.changed
        BY <1>1, <3>1, <3>2, <3>4 DEF Current, Outdated
      <4>2. t.blocks # 0 => t.first < g.changed
        BY <1>1, <3>4 DEF TenSound, SlotSound, Placed
      <4>3. t.blocks = 0 => w.settings[2] # g.nominal
        BY <3>2, <3>4 DEF Current
      <4> QED
        BY <3>1, <4>1, <4>2, <4>3 DEF Outdated
    <3> QED
      BY <2>3, <3>1, <3>3, <3>4 DEF Advances
  <2> QED
    BY <2>1, <2>2, <2>3 DEF TwoSound
<1> QED
  BY <1>2, <1>3

(* What the kernel is between the merge and the block's end.               *)
BlockSettled(m, x, g) ==
  /\ m.pending = {} /\ m.expected = x.cycle + 1 /\ m.enable
  /\ m.primary.cycles # 0
  /\ m.primary.cycles <= met_expected_cycles(m.primary.nominal)
  /\ BlocksSound(m, FirstSample(x.cycle + 1), g)
  /\ AggregatesSound(m, FirstSample(x.cycle + 1), g)
  /\ TenSound(m, FirstSample(x.cycle + 1), g)
  /\ TwoSound(m, FirstSample(x.cycle + 1), g)
  /\ PendingSound(m, FirstSample(x.cycle + 1), g)

LEMMA ExpectedCycles ==
  ASSUME NEW n
  PROVE  met_expected_cycles(n) \in Nat /\ met_expected_cycles(n) > 0
  BY TierAssumption DEF met_expected_cycles

LEMMA MergedSound ==
  ASSUME NEW k \in Kernels, NEW x \in CyclePackets, NEW now \in Int,
         NEW h \in Histories, NEW g \in Histories, g = Remembered(h, k, x),
         KernelSound(k, now, h), HistorySound(now, h), k.pending = {}, Measures(k, x),
         now <= FirstSample(x.cycle), k.expected # None => now = FirstSample(k.expected)
  PROVE  LET m == Merged(k, x)
         IN /\ m \in Kernels /\ m.sequence = k.sequence /\ m.generation = k.generation
            /\ BlockSettled(m, x, g)
            /\ ~m.disc => ~k.disc /\ m.primary.first = IF k.primary.cycles = 0 THEN now
                                                       ELSE k.primary.first
<1>1. PICK c \in Kernels : c = CheckContinuity(k, x)
  BY CheckContinuityFields
<1>2. /\ c.expected = x.cycle + 1 /\ c.sequence = k.sequence /\ c.open = k.open
      /\ c.openShadow = k.openShadow /\ c.closed = k.closed /\ c.ten = k.ten /\ c.two = k.two
      /\ c.pending = {} /\ c.enable = k.enable /\ c.generation = k.generation
      /\ IF Broken(k, x)
         THEN c.primary = NoBlock /\ c.shadow = NoBlock /\ c.disc
         ELSE c.primary = k.primary /\ c.shadow = k.shadow /\ c.disc = k.disc
  BY <1>1, CheckContinuityFields
<1>3. PICK m \in Kernels : m = MergeCycle(c, x)
  BY MergeCycleFields
<1>4. Merged(k, x) = m
  BY <1>1, <1>3 DEF Merged
<1>5. PICK marked \in BOOLEAN : marked = AtMark(c, x)
  BY DEF AtMark
<1>6. /\ m.primary = Extended(c.primary, x, marked)
      /\ m.shadow = IF marked /\ c.primary.cycles # 0 THEN Extended(NoBlock, x, TRUE)
                    ELSE IF c.shadow.cycles # 0 THEN Extended(c.shadow, x, FALSE)
                    ELSE NoBlock
      /\ m.expected = x.cycle + 1 /\ m.disc = c.disc /\ m.sequence = k.sequence
      /\ m.open = k.open /\ m.openShadow = k.openShadow /\ m.closed = k.closed
      /\ m.ten = k.ten /\ m.two = k.two /\ m.pending = {}
      /\ m.enable = k.enable /\ m.generation = k.generation
  <2>1. /\ m.primary = Extended(c.primary, x, marked)
        /\ m.shadow = IF marked /\ c.primary.cycles # 0 THEN Extended(NoBlock, x, TRUE)
                      ELSE IF c.shadow.cycles # 0 THEN Extended(c.shadow, x, FALSE)
                      ELSE NoBlock
    BY <1>3, <1>5, MergeCycleFields
  <2>2. /\ m.expected = c.expected /\ m.disc = c.disc /\ m.sequence = c.sequence
        /\ m.open = c.open /\ m.openShadow = c.openShadow /\ m.closed = c.closed
        /\ m.ten = c.ten /\ m.two = c.two /\ m.pending = c.pending
        /\ m.enable = c.enable /\ m.generation = c.generation
    BY <1>3, MergeCycleFields
  <2> QED
    BY <1>2, <2>1, <2>2
<1>7. x.cycle \in Int /\ x.cycle # None
  BY DEF CyclePackets, None
<1>8. PICK n \in Int : n = FirstSample(x.cycle)
  BY <1>7, SampleTypes
<1>9. /\ FirstSample(x.cycle + 1) = n + CycleSamples
      /\ CycleSamples \in Nat /\ CycleSamples > 0
  BY <1>7, <1>8, SampleArithmetic, SampleTypes
<1>10. /\ g.nominal = x.nominal
       /\ g.cut = IF x.gap \/ x.cycle # k.expected THEN n ELSE h.cut
       /\ g.changed = IF x.nominal # h.nominal THEN n ELSE h.changed
       /\ g.unlocked = IF x.locked THEN h.unlocked ELSE n
  BY <1>8, RememberedFields
<1>11. /\ h.cut \in Int /\ h.changed \in Int /\ h.unlocked \in Int
       /\ g.cut \in Int /\ g.changed \in Int /\ g.unlocked \in Int
  BY DEF Histories
<1>12. k.primary \in Blocks /\ k.shadow \in Blocks /\ c.primary \in Blocks /\ c.shadow \in Blocks
  BY DEF Kernels
<1>13. h.cut <= now /\ (h.changed < now \/ h.changed = 0) /\ h.unlocked < now /\ 0 <= n
  BY <1>8, TierAssumption DEF HistorySound, FirstSample, CyclePackets
<1>14. Grows(h, g, x)
  BY <1>8, <1>10, <1>11, <1>13 DEF Grows
(* Without a break the cycle is the one expected.                           *)
<1>15. ASSUME ~Broken(k, x), k.expected # None
       PROVE  g.cut = h.cut /\ now = n
  BY <1>8, <1>10, <1>15 DEF Broken
<1>16. ASSUME ~Broken(k, x), k.primary.cycles # 0
       PROVE  /\ k.expected # None /\ x.nominal = h.nominal /\ g.changed = h.changed
  BY <1>10, <1>16 DEF Broken, KernelSound, BlocksSound, BlockSound, Expecting
<1>17. k.shadow.cycles # 0 => k.primary.cycles # 0
  BY <1>12 DEF KernelSound, BlocksSound, Blocks
<1>18. ASSUME NEW b \in {c.primary, c.shadow}, b.cycles # 0
       PROVE  /\ ~Broken(k, x) /\ k.primary.cycles # 0
              /\ b.first < n /\ b.samples = n - b.first /\ g.cut <= b.first
              /\ g.changed <= b.first /\ (b.locked => h.unlocked < b.first)
              /\ b.nominal = g.nominal
  <2>1. ~Broken(k, x)
    BY <1>2, <1>18, EmptyTypes
  <2>2. k.primary.cycles # 0 /\ BlockSound(b, now, h)
    BY <1>2, <1>17, <1>18, <2>1 DEF KernelSound, BlocksSound
  <2> QED
    BY <1>10, <1>15, <1>16, <2>1, <2>2 DEF BlockSound
<1>19. ASSUME NEW b \in {c.primary, c.shadow}, NEW resync \in BOOLEAN
       PROVE  BlockSound(Extended(b, x, resync), FirstSample(x.cycle + 1), g)
  BY <1>8, <1>12, <1>14, <1>18, <1>19, ExtendedSound
<1>20. /\ m.primary.cycles = c.primary.cycles + 1 /\ m.primary.cycles # 0
       /\ m.primary.first = IF c.primary.cycles = 0 THEN n ELSE c.primary.first
       /\ m.primary.nominal = IF c.primary.cycles = 0 THEN x.nominal ELSE c.primary.nominal
  <2>1. c.primary.cycles \in Nat
    BY <1>12 DEF Blocks
  <2>2. /\ m.primary.cycles = c.primary.cycles + 1
        /\ m.primary.first = IF c.primary.cycles = 0 THEN n ELSE c.primary.first
        /\ m.primary.nominal = IF c.primary.cycles = 0 THEN x.nominal ELSE c.primary.nominal
    BY <1>6, <1>8, <1>12, ExtendedFields
  <2> QED
    BY <2>1, <2>2
<1>21. BlockSound(m.primary, FirstSample(x.cycle + 1), g)
  BY <1>6, <1>19
<1>22. m.primary.cycles <= met_expected_cycles(m.primary.nominal)
  <2>1. CASE c.primary.cycles = 0
    BY <1>20, <2>1, ExpectedCycles
  <2>2. CASE c.primary.cycles # 0
    <3>1. c.primary = k.primary /\ c.primary.cycles < met_expected_cycles(c.primary.nominal)
      BY <1>2, <1>18, <2>2 DEF KernelSound, BlockOpen
    <3>2. met_expected_cycles(c.primary.nominal) \in Nat /\ c.primary.cycles \in Nat
      BY <1>12, ExpectedCycles DEF Blocks
    <3> QED
      BY <1>20, <2>2, <3>1, <3>2
  <2> QED
    BY <2>1, <2>2
(* The shadow block began later than the primary one.                       *)
<1>23. ASSUME m.shadow.cycles # 0
       PROVE  /\ BlockSound(m.shadow, FirstSample(x.cycle + 1), g)
              /\ m.shadow.cycles < m.primary.cycles /\ m.primary.first < m.shadow.first
  <2>0. c.primary.cycles \in Nat /\ c.shadow.cycles \in Nat /\ c.primary.first \in Int
    BY <1>12 DEF Blocks
  <2>1. CASE marked /\ c.primary.cycles # 0
    <3>0. NoBlock \in Blocks /\ NoBlock.cycles = 0 /\ TRUE \in BOOLEAN
      BY EmptyTypes
    <3>1. m.shadow = Extended(NoBlock, x, TRUE)
      BY <1>6, <2>1
    <3>2. BlockSound(m.shadow, FirstSample(x.cycle + 1), g)
      BY <1>14, <3>0, <3>1, ExtendedSound
    <3>3. m.shadow.cycles = 0 + 1 /\ m.shadow.first = n
      <4>1. PICK b \in Blocks : b = NoBlock
        BY <3>0
      <4>2. b.cycles = 0 /\ m.shadow = Extended(b, x, TRUE)
        BY <3>0, <3>1, <4>1
      <4>3. LET e == Extended(b, x, TRUE) IN e.cycles = b.cycles + 1 /\ e.first = FirstSample(x.cycle)
        BY <3>0, <4>2, ExtendedFields
      <4> QED
        BY <1>8, <4>2, <4>3
    <3>4. c.primary.first < n
      BY <1>18, <2>1
    <3> QED
      BY <1>20, <2>0, <2>1, <3>2, <3>3, <3>4
  <2>2. CASE ~(marked /\ c.primary.cycles # 0) /\ c.shadow.cycles # 0
    <3>0. FALSE \in BOOLEAN
      OBVIOUS
    <3>1. m.shadow = Extended(c.shadow, x, FALSE)
      BY <1>6, <2>2
    <3>2. BlockSound(m.shadow, FirstSample(x.cycle + 1), g)
      BY <1>19, <3>0, <3>1
    <3>3. m.shadow.cycles = c.shadow.cycles + 1 /\ m.shadow.first = c.shadow.first
      <4>1. PICK b \in Blocks : b = c.shadow
        BY <1>12
      <4>2. b.cycles # 0 /\ m.shadow = Extended(b, x, FALSE)
        BY <2>2, <3>1, <4>1
      <4>3. LET e == Extended(b, x, FALSE) IN e.cycles = b.cycles + 1 /\ e.first = b.first
        BY <3>0, <4>2, ExtendedFields
      <4> QED
        BY <4>1, <4>2, <4>3
    <3>4. ~Broken(k, x)
      BY <1>18, <2>2
    <3>5. /\ c.shadow.cycles < c.primary.cycles /\ c.primary.first < c.shadow.first
          /\ c.primary.cycles # 0
      BY <1>2, <1>17, <2>2, <3>4 DEF KernelSound, BlocksSound
    <3> QED
      BY <1>20, <2>0, <3>2, <3>3, <3>5
  <2>3. CASE ~(marked /\ c.primary.cycles # 0) /\ c.shadow.cycles = 0
    BY <1>6, <1>23, <2>3, EmptyTypes
  <2> QED
    BY <2>1, <2>2, <2>3
<1>24. ASSUME ~m.disc
       PROVE  /\ ~Broken(k, x) /\ ~k.disc /\ g.cut = h.cut /\ now = n
              /\ m.primary.first = IF k.primary.cycles = 0 THEN now ELSE k.primary.first
              /\ g.cut < m.primary.first
  <2>1. ~Broken(k, x) /\ ~k.disc
    BY <1>2, <1>6, <1>24
  <2>2. k.expected # None
    BY <2>1 DEF KernelSound, Expecting
  <2>3. g.cut = h.cut /\ now = n
    BY <1>15, <2>1, <2>2
  <2>4. m.primary.first = IF k.primary.cycles = 0 THEN now ELSE k.primary.first
    BY <1>2, <1>20, <2>1, <2>3
  <2>5. h.cut < IF k.primary.cycles = 0 THEN now ELSE k.primary.first
    BY <2>1 DEF KernelSound, BlocksSound
  <2> QED
    BY <2>1, <2>3, <2>4, <2>5
<1>25. BlocksSound(m, FirstSample(x.cycle + 1), g)
  BY <1>20, <1>21, <1>23, <1>24 DEF BlocksSound
<1>26. Advances(k, m, x, now, h, g)
  <2>1. g.unlocked \in {h.unlocked, n}
    BY <1>10
  <2>2. ASSUME ~m.disc
        PROVE  \/ g.nominal = h.nominal /\ g.changed = h.changed
               \/ g.nominal # h.nominal /\ g.changed = n /\ k.primary.cycles = 0
    BY <1>10, <1>16, <1>24, <2>2
  <2> QED
    BY <1>8, <1>13, <1>20, <1>24, <2>1, <2>2 DEF Advances, Later
<1>27. AggregatesSound(m, FirstSample(x.cycle + 1), g)
  <2>1. /\ k.open.first \in Int /\ k.open.last \in Int /\ k.open.nextFirst \in Int
        /\ k.openShadow.first \in Int /\ k.openShadow.last \in Int
        /\ k.openShadow.nextFirst \in Int
    BY DEF Kernels, AggregateSlots
  <2>2. k.open.blocks # 0 => SlotSound(k.open, m, FirstSample(x.cycle + 1), g)
    BY <1>26, <2>1, SlotStays DEF KernelSound, AggregatesSound
  <2>3. k.openShadow.blocks # 0 => SlotSound(k.openShadow, m, FirstSample(x.cycle + 1), g)
    BY <1>26, <2>1, SlotStays DEF KernelSound, AggregatesSound
  <2> QED
    BY <1>6, <2>2, <2>3 DEF KernelSound, AggregatesSound
<1>28. TenSound(m, FirstSample(x.cycle + 1), g)
  <2>1. k.ten.first \in Int /\ k.ten.last \in Int /\ k.ten.nextFirst \in Int
    BY DEF Kernels, TenMinuteSlots
  <2>2. k.ten.blocks # 0 => SlotSound(k.ten, m, FirstSample(x.cycle + 1), g)
    BY <1>26, <2>1, SlotStays DEF KernelSound, TenSound
  <2> QED
    BY <1>6, <2>2 DEF KernelSound, TenSound
<1>29. TwoSound(m, FirstSample(x.cycle + 1), g)
  BY <1>6, <1>26, TwoStays DEF KernelSound
<1>30. PendingSound(m, FirstSample(x.cycle + 1), g)
  BY <1>6 DEF KernelSound, PendingSound
<1>31. m.enable
  BY <1>6 DEF Measures
<1>32. BlockSettled(m, x, g)
  BY <1>6, <1>20, <1>22, <1>25, <1>27, <1>28, <1>29, <1>30, <1>31 DEF BlockSettled
<1> QED
  BY <1>4, <1>6, <1>24, <1>32

--------------------------------------------------------------------------------
(* The end of a block.                                                      *)

(* An interval with integer ends.                                          *)
Spans(s) == /\ s.first \in Int /\ s.last \in Int /\ s.nextFirst \in Int /\ s.samples \in Int

(* An interval that begins with an eligible block is sound ...              *)
LEMMA IntervalBegins ==
  ASSUME NEW r \in BasicResults, NEW next \in Int, NEW g \in Histories,
         BasicSound(r, next, g), r.eligible,
         NEW u, Spans(u), u.first = r.first, u.last = r.last, u.samples = r.samples,
         u.nextFirst = r.first + r.samples, u.settings = r.settings
  PROVE  Placed(u, next, g) /\ Current(u, g) /\ Once(u)
  BY DEF BasicResults, Histories, BasicSound, Placed, Current, Once

(* ... and goes on being so with an eligible block of the same settings.    *)
LEMMA IntervalGoesOn ==
  ASSUME NEW r \in BasicResults, NEW next \in Int, NEW g \in Histories,
         BasicSound(r, next, g), r.eligible,
         NEW s, Spans(s), Placed(s, next, g),
         Current(s, g) \/ s.settings[2] # g.nominal,
         r.settings = s.settings, r.first <= s.last + 1,
         NEW u, Spans(u), u.first = s.first, u.last = r.last, u.settings = s.settings,
         u.nextFirst = r.first + r.samples, u.samples = s.samples + r.samples
  PROVE  /\ Placed(u, next, g) /\ Current(u, g)
         /\ Once(s) /\ r.first = s.nextFirst => Once(u)
<1>1. Current(s, g)
  BY DEF BasicSound
<1>2. Current(u, g)
  BY <1>1 DEF Current
<1>3. g.unlocked \in Int /\ r.first \in Int /\ r.last \in Int /\ r.samples \in Int
  BY DEF Histories, BasicResults
<1>4. Placed(u, next, g)
  BY <1>3 DEF BasicSound, Placed, Spans
<1>5. Once(s) /\ r.first = s.nextFirst => Once(u)
  BY <1>3 DEF BasicSound, Placed, Spans, Once
<1> QED
  BY <1>2, <1>4, <1>5

(* What is asked of a slot before a block is folded into it.               *)
Foldable(s, next, g) == Placed(s, next, g) /\ (Current(s, g) \/ s.settings[2] # g.nominal)

LEMMA TenFoldSound ==
  ASSUME NEW k \in Kernels, NEW r \in BasicResults, NEW next \in Int, NEW g \in Histories,
         BasicSound(r, next, g),
         r.eligible /\ k.ten.blocks # 0 => Foldable(k.ten, next, g) /\ Once(k.ten)
  PROVE  LET u == FoldTen(k, r).ten
         IN u.blocks # 0 => Placed(u, next, g) /\ Current(u, g) /\ Once(u)
<1> DEFINE t == k.ten
<1>1. PICK m \in Kernels : m = FoldTen(k, r)
  BY FoldTenFields
<1>2. PICK u \in TenMinuteSlots : u = m.ten
  BY DEF Kernels
<1>3. SUFFICES ASSUME u.blocks # 0
               PROVE  Placed(u, next, g) /\ Current(u, g) /\ Once(u)
  BY <1>1, <1>2
<1>4. /\ r.eligible /\ u.settings = r.settings
      /\ u.first = IF Begins(t, r) THEN r.first ELSE t.first
      /\ u.samples = IF Begins(t, r) THEN r.samples ELSE t.samples + r.samples
      /\ u.last = r.last /\ u.nextFirst = r.first + r.samples
  BY <1>1, <1>2, <1>3, FoldTenFields
<1>5. t \in TenMinuteSlots
  BY DEF Kernels
<1>6. Spans(t) /\ Spans(u)
  BY <1>5 DEF TenMinuteSlots, Spans
<1>7. CASE Begins(t, r)
  BY <1>4, <1>6, <1>7, IntervalBegins
<1>8. CASE ~Begins(t, r)
  <2>1. t.blocks # 0 /\ r.settings = t.settings /\ r.first = t.nextFirst
    BY <1>8 DEF Begins, Follows
  <2>2. Placed(t, next, g) /\ (Current(t, g) \/ t.settings[2] # g.nominal) /\ Once(t)
    BY <1>4, <2>1 DEF Foldable
  <2>3. r.first <= t.last + 1
    BY <1>6, <2>1, <2>2 DEF Placed, Spans
  <2> HIDE DEF t
  <2>4. u.first = t.first /\ u.samples = t.samples + r.samples /\ u.settings = t.settings
    BY <1>4, <1>8, <2>1
  <2> QED
    BY <1>4, <1>6, <2>1, <2>2, <2>3, <2>4, IntervalGoesOn
<1> QED
  BY <1>7, <1>8

LEMMA JoinedSound ==
  ASSUME NEW k \in Kernels, NEW r \in BasicResults, NEW next \in Int, NEW g \in Histories,
         BasicSound(r, next, g), r.eligible,
         k.open.blocks # 0 => /\ Foldable(k.open, next, g)
                              /\ k.open.overlap \/ Once(k.open)
  PROVE  LET s == Joined(k, r)
         IN Placed(s, next, g) /\ Current(s, g) /\ (s.overlap \/ Once(s))
<1> DEFINE p == k.open
<1>1. PICK s \in AggregateSlots : s = Joined(k, r)
  BY JoinedFields
<1>2. /\ s.last = r.last /\ s.nextFirst = r.first + r.samples
      /\ IF AggregateBegins(k, r)
         THEN s.settings = r.settings /\ s.first = r.first /\ s.samples = r.samples
         ELSE /\ s.settings = p.settings /\ s.first = p.first
              /\ s.samples = p.samples + r.samples
              /\ ~s.overlap => ~p.overlap /\ ~Splits(k, r)
  BY <1>1, JoinedFields
<1>3. p \in AggregateSlots
  BY DEF Kernels
<1>4. Spans(p) /\ Spans(s)
  BY <1>3 DEF AggregateSlots, Spans
<1>5. CASE AggregateBegins(k, r)
  BY <1>1, <1>2, <1>4, <1>5, IntervalBegins
<1>6. CASE ~AggregateBegins(k, r)
  <2>1. /\ p.blocks # 0 /\ r.settings = p.settings
        /\ r.first = p.nextFirst \/ (r.resync /\ r.first <= p.last)
    BY <1>6 DEF AggregateBegins, Continues, Follows
  <2>2. /\ Placed(p, next, g) /\ (Current(p, g) \/ p.settings[2] # g.nominal)
        /\ p.overlap \/ Once(p)
    BY <2>1 DEF Foldable
  <2>3. r.first \in Int
    BY DEF BasicResults
  <2>4. r.first <= p.last + 1
    BY <1>4, <2>1, <2>2, <2>3 DEF Placed, Spans
  <2>5. ~s.overlap => Once(p) /\ r.first = p.nextFirst
    BY <1>2, <1>6, <2>1, <2>2 DEF Splits
  <2> HIDE DEF p
  <2>6. s.settings = p.settings /\ s.first = p.first /\ s.samples = p.samples + r.samples
    BY <1>2, <1>6
  <2>7. Placed(s, next, g) /\ Current(s, g) /\ (Once(p) /\ r.first = p.nextFirst => Once(s))
    BY <1>2, <1>4, <2>1, <2>2, <2>4, <2>6, IntervalGoesOn
  <2> QED
    BY <1>1, <2>5, <2>7
<1> QED
  BY <1>5, <1>6

LEMMA BesideSound ==
  ASSUME NEW k \in Kernels, NEW r \in BasicResults, NEW next \in Int, NEW g \in Histories,
         BasicSound(r, next, g), r.eligible,
         k.openShadow.blocks # 0 =>
           /\ Foldable(k.openShadow, next, g)
           /\ k.openShadow.overlap \/ Once(k.openShadow)
           /\ k.openShadow.blocks < k.open.blocks
           /\ k.openShadow.last = k.open.last /\ k.openShadow.settings = k.open.settings,
         k.open.blocks # 0 => Foldable(k.open, next, g)
  PROVE  LET s == Beside(k, r)
             o == Joined(k, r)
         IN s.blocks # 0 =>
              /\ Placed(s, next, g) /\ Current(s, g) /\ (s.overlap \/ Once(s))
              /\ s.blocks < o.blocks /\ s.last = o.last /\ s.settings = o.settings
<1> DEFINE p == k.openShadow
<1>1. PICK s \in AggregateSlots : s = Beside(k, r)
  BY BesideFields
<1>2. PICK o \in AggregateSlots : o = Joined(k, r)
  BY JoinedFields
<1>3. SUFFICES ASSUME s.blocks # 0
               PROVE  /\ Placed(s, next, g) /\ Current(s, g) /\ (s.overlap \/ Once(s))
                      /\ s.blocks < o.blocks /\ s.last = o.last /\ s.settings = o.settings
  BY <1>1, <1>2
<1>4. \/ /\ Splits(k, r) /\ s.blocks = 1 /\ s.settings = r.settings
         /\ s.first = r.first /\ s.last = r.last /\ s.samples = r.samples
         /\ s.nextFirst = r.first + r.samples
      \/ /\ ~Splits(k, r) /\ ~AggregateBegins(k, r) /\ p.blocks # 0
         /\ s.blocks = p.blocks + 1 /\ s.settings = p.settings /\ s.first = p.first
         /\ s.last = r.last /\ s.samples = p.samples + r.samples
         /\ s.nextFirst = r.first + r.samples /\ s.overlap = p.overlap
  BY <1>1, <1>3, BesideFields
<1>5. p \in AggregateSlots /\ k.open \in AggregateSlots
  BY DEF Kernels
<1>6. Spans(p) /\ Spans(s) /\ Spans(k.open)
  BY <1>5 DEF AggregateSlots, Spans
<1>7. ~AggregateBegins(k, r)
  BY <1>4 DEF Splits
<1>8. o.blocks = k.open.blocks + 1 /\ o.settings = k.open.settings /\ o.last = r.last
  BY <1>2, <1>7, JoinedFields
<1>9. /\ k.open.blocks # 0 /\ r.settings = k.open.settings
      /\ r.first = k.open.nextFirst \/ (r.resync /\ r.first <= k.open.last)
  BY <1>7 DEF AggregateBegins, Continues, Follows
<1>10. p.blocks \in Nat /\ k.open.blocks \in Nat /\ r.first \in Int
  BY <1>5 DEF AggregateSlots, BasicResults
<1>11. CASE Splits(k, r)
  <2>1. /\ s.blocks = 1 /\ s.settings = r.settings
        /\ s.first = r.first /\ s.last = r.last /\ s.samples = r.samples
        /\ s.nextFirst = r.first + r.samples
    BY <1>4, <1>11
  <2>2. Placed(s, next, g) /\ Current(s, g) /\ Once(s)
    BY <1>6, <2>1, IntervalBegins
  <2> QED
    BY <1>8, <1>9, <1>10, <2>1, <2>2
<1>12. CASE ~Splits(k, r)
  <2>1. /\ p.blocks # 0
        /\ s.blocks = p.blocks + 1 /\ s.settings = p.settings /\ s.first = p.first
        /\ s.last = r.last /\ s.samples = p.samples + r.samples
        /\ s.nextFirst = r.first + r.samples /\ s.overlap = p.overlap
    BY <1>4, <1>12
  <2>2. /\ Placed(p, next, g) /\ (Current(p, g) \/ p.settings[2] # g.nominal)
        /\ p.overlap \/ Once(p)
        /\ p.blocks < k.open.blocks /\ p.last = k.open.last /\ p.settings = k.open.settings
    BY <2>1 DEF Foldable
  <2>3. r.first = k.open.nextFirst
    BY <1>7, <1>9, <1>12 DEF Splits
  <2>4. k.open.nextFirst = k.open.last + 1 /\ p.nextFirst = p.last + 1
    BY <1>9, <2>2 DEF Foldable, Placed
  <2>5. r.first = p.nextFirst /\ r.first <= p.last + 1 /\ r.settings = p.settings
    BY <1>6, <1>9, <2>2, <2>3, <2>4 DEF Spans
  <2> HIDE DEF p
  <2>6. Placed(s, next, g) /\ Current(s, g) /\ (Once(p) /\ r.first = p.nextFirst => Once(s))
    BY <1>6, <2>1, <2>2, <2>5, IntervalGoesOn
  <2>7. s.overlap \/ Once(s)
    BY <2>1, <2>2, <2>5, <2>6
  <2>8. s.blocks < o.blocks /\ s.settings = o.settings
    BY <1>8, <1>10, <2>1, <2>2
  <2> QED
    BY <1>8, <2>1, <2>6, <2>7, <2>8
<1> QED
  BY <1>11, <1>12

(* The block that closes, as a result.                                     *)
LEMMA BasicResultSound ==
  ASSUME NEW m \in Kernels, NEW x \in CyclePackets, NEW g \in Histories, BlockSettled(m, x, g)
  PROVE  LET r == BasicResult(m, x)
         IN /\ BasicSound(r, FirstSample(x.cycle + 1), g)
            /\ r.eligible => ~m.disc
<1>1. PICK r \in BasicResults : r = BasicResult(m, x)
  BY BasicResultFields
<1>2. /\ r.settings[2] = m.primary.nominal
      /\ r.first = m.primary.first /\ r.last = LastSample(x.cycle)
      /\ r.samples = m.primary.samples /\ r.afterGap = m.disc
      /\ (r.eligible <=> m.primary.locked /\ ~m.disc)
  BY <1>1, BasicResultFields
<1>3. x.cycle \in Int /\ x.cycle + 1 \in Int
  BY DEF CyclePackets
<1>4. PICK next \in Int : next = FirstSample(x.cycle + 1)
  BY <1>3, SampleTypes
<1>5. r.last = next - 1
  BY <1>2, <1>3, <1>4, SampleArithmetic
<1>6. /\ BlockSound(m.primary, next, g)
      /\ ~m.disc => g.cut < m.primary.first
  BY <1>4 DEF BlockSettled, BlocksSound
<1>7. r.first \in Int /\ r.last \in Int
  BY DEF BasicResults
<1>8. BasicSound(r, next, g)
  BY <1>2, <1>5, <1>6, <1>7 DEF BasicSound, BlockSound
<1> QED
  BY <1>1, <1>2, <1>4, <1>8

(* The shadow block takes the primary one's place.                          *)
Promoted(k) == [k EXCEPT !.primary = k.shadow, !.shadow = NoBlock,
                         !.sequence = @ + 1, !.disc = FALSE]

LEMMA PromotedFields ==
  ASSUME NEW k \in Kernels
  PROVE  LET m == Promoted(k)
         IN /\ m \in Kernels /\ m.primary = k.shadow /\ m.shadow = NoBlock /\ ~m.disc
            /\ m.sequence = k.sequence + 1
            /\ m.expected = k.expected /\ m.enable = k.enable
            /\ m.generation = k.generation /\ m.pending = k.pending
            /\ m.open = k.open /\ m.openShadow = k.openShadow /\ m.closed = k.closed
            /\ m.ten = k.ten /\ m.two = k.two
<1> DEFINE sequence == k.sequence + 1
<1>1. sequence \in Nat /\ k.shadow \in Blocks /\ FALSE \in BOOLEAN
  BY DEF Kernels
<1>2. Promoted(k) = [k EXCEPT !.primary = k.shadow, !.shadow = NoBlock,
                              !.sequence = sequence, !.disc = FALSE]
  BY DEF Promoted
<1> HIDE DEF sequence
<1>3. LET m == Promoted(k)
      IN /\ m \in Kernels /\ m.primary = k.shadow /\ m.shadow = NoBlock /\ ~m.disc
         /\ m.sequence = sequence
         /\ m.expected = k.expected /\ m.enable = k.enable
         /\ m.generation = k.generation /\ m.pending = k.pending
         /\ m.open = k.open /\ m.openShadow = k.openShadow /\ m.closed = k.closed
         /\ m.ten = k.ten /\ m.two = k.two
  BY <1>1, <1>2, EmptyTypes DEF Kernels
<1> QED
  BY <1>3 DEF sequence

LEMMA CloseBlockFields ==
  ASSUME NEW k \in Kernels, NEW x \in CyclePackets, NEW r \in BasicResults, r = BasicResult(k, x)
  PROVE  \E p \in Kernels, f \in Kernels, e \in Kernels :
           p = Promoted(k) /\ f = FoldTen(p, r) /\ e = FoldAggregates(f, r) /\ e = CloseBlock(k, x)
<1>1. PICK p \in Kernels : p = Promoted(k)
  BY PromotedFields
<1>2. PICK f \in Kernels : f = FoldTen(p, r)
  BY FoldTenFields
<1>3. PICK e \in Kernels : e = FoldAggregates(f, r)
  BY FoldAggregatesFields
<1>4. CloseBlock(k, x) = FoldAggregates(FoldTen(Promoted(k), r), r)
  BY DEF CloseBlock, Promoted
<1> QED
  BY <1>1, <1>2, <1>3, <1>4

LEMMA CloseBlockSound ==
  ASSUME NEW k \in Kernels, NEW x \in CyclePackets, NEW g \in Histories, BlockSettled(k, x, g)
  PROVE  LET e == CloseBlock(k, x)
         IN /\ e \in Kernels /\ KernelSound(e, FirstSample(x.cycle + 1), g)
            /\ e.expected = x.cycle + 1 /\ e.sequence = k.sequence + 1
            /\ ~e.disc /\ e.primary = k.shadow
<1>0. x.cycle \in Int /\ x.cycle + 1 \in Int
  BY DEF CyclePackets
<1>1. PICK next \in Int : next = FirstSample(x.cycle + 1)
  BY <1>0, SampleTypes
<1>2. PICK r \in BasicResults : r = BasicResult(k, x)
  BY BasicResultFields
<1>3. BasicSound(r, next, g) /\ (r.eligible => ~k.disc)
  BY <1>1, <1>2, BasicResultSound
<1>4. PICK p \in Kernels, f \in Kernels, e \in Kernels :
         p = Promoted(k) /\ f = FoldTen(p, r) /\ e = FoldAggregates(f, r) /\ e = CloseBlock(k, x)
  BY <1>2, CloseBlockFields
<1>5. /\ p.primary = k.shadow /\ p.shadow = NoBlock /\ ~p.disc /\ p.sequence = k.sequence + 1
      /\ p.expected = x.cycle + 1 /\ p.enable /\ p.pending = {}
      /\ p.open = k.open /\ p.openShadow = k.openShadow /\ p.ten = k.ten /\ p.two = k.two
  BY <1>4, PromotedFields DEF BlockSettled
<1>6. /\ f.primary = p.primary /\ f.shadow = p.shadow /\ f.disc = p.disc
      /\ f.expected = p.expected /\ f.enable = p.enable /\ f.sequence = p.sequence
      /\ f.open = p.open /\ f.openShadow = p.openShadow /\ f.two = p.two
  BY <1>4, FoldTenFields
<1>7. \/ /\ f.ten.blocks = 0 /\ f.ten.contaminated /\ f.pending = p.pending \ {OpenTen}
      \/ /\ r.eligible /\ f.ten.blocks # 0 /\ f.ten.settings = r.settings
         /\ f.ten.first = IF Begins(p.ten, r) THEN r.first ELSE p.ten.first
         /\ f.ten.contaminated = (p.ten.contaminated \/ (Begins(p.ten, r) /\ p.ten.blocks # 0))
         /\ f.pending = p.pending \/ f.pending = p.pending \cup {TenMinute}
  <2>1. f = FoldTen(p, r)
    BY <1>4
  <2> QED
    BY <2>1, FoldTenFields
<1>8. /\ e.primary = f.primary /\ e.shadow = f.shadow /\ e.disc = f.disc
      /\ e.expected = f.expected /\ e.enable = f.enable /\ e.sequence = f.sequence
      /\ e.ten = f.ten /\ e.two = f.two
  <2>1. LET m == FoldAggregates(f, r)
        IN /\ m.primary = f.primary /\ m.shadow = f.shadow /\ m.disc = f.disc
           /\ m.expected = f.expected /\ m.enable = f.enable /\ m.sequence = f.sequence
           /\ m.ten = f.ten /\ m.two = f.two
    BY FoldAggregatesFields
  <2> QED
    BY <1>4, <2>1
<1>9. \/ /\ e.open.blocks = 0 /\ e.openShadow.blocks = 0 /\ e.pending = f.pending
      \/ /\ r.eligible /\ e.open = Joined(f, r) /\ e.openShadow = Beside(f, r)
         /\ e.open.blocks # BlocksPerAggregate /\ e.pending = f.pending
      \/ /\ r.eligible /\ e.closed = Joined(f, r) /\ e.open = Beside(f, r)
         /\ e.openShadow.blocks = 0 /\ e.closed.blocks = BlocksPerAggregate
         /\ e.pending = f.pending \cup {Aggregate}
  <2>1. AggregatesFolded(f, r, e)
    BY <1>4, FoldAggregatesFields
  <2> QED
    BY <2>1 DEF AggregatesFolded
<1>10. k.primary \in Blocks /\ k.shadow \in Blocks /\ r.first \in Int /\ r.eligible \in BOOLEAN
  BY DEF Kernels, BasicResults
(* The blocks.                                                             *)
<1>11. /\ BlockSound(k.primary, next, g)
       /\ k.shadow.cycles # 0 => /\ BlockSound(k.shadow, next, g)
                                 /\ k.shadow.cycles < k.primary.cycles
                                 /\ k.primary.first < k.shadow.first
  BY <1>1 DEF BlockSettled, BlocksSound
<1>12. BlocksSound(e, next, g)
  <2>1. e.primary = k.shadow /\ e.shadow.cycles = 0
    BY <1>5, <1>6, <1>8, EmptyTypes
  <2>2. g.cut < IF k.shadow.cycles = 0 THEN next ELSE k.shadow.first
    <3>1. g.cut \in Int /\ k.primary.first \in Int /\ k.shadow.first \in Int
      BY <1>10 DEF Histories, Blocks
    <3> QED
      BY <1>11, <3>1 DEF BlockSound
  <2> QED
    BY <1>11, <2>1, <2>2 DEF BlocksSound
<1>13. BlockOpen(e)
  <2>1. e.primary = k.shadow /\ k.shadow.cycles \in Nat /\ k.primary.cycles \in Nat
    BY <1>5, <1>6, <1>8, <1>10 DEF Blocks
  <2>2. PICK cycles \in Nat : cycles = met_expected_cycles(k.shadow.nominal)
    BY ExpectedCycles
  <2>3. cycles > 0
    BY <2>2, ExpectedCycles
  <2>4. k.shadow.cycles # 0 => k.primary.cycles <= cycles
    BY <1>11, <2>2 DEF BlockSettled, BlockSound
  <2>5. k.shadow.cycles < cycles
    BY <1>11, <2>1, <2>2, <2>3, <2>4
  <2> QED
    BY <2>1, <2>2, <2>5 DEF BlockOpen
<1>14. Expecting(e)
  <2>1. e.expected # None
    BY <1>5, <1>6, <1>8 DEF CyclePackets, None
  <2> QED
    BY <1>5, <1>6, <1>8, <2>1 DEF Expecting
(* The ten-minute interval.                                                *)
<1>15. ASSUME r.eligible, NEW s, SlotSound(s, k, next, g)
       PROVE  Foldable(s, next, g)
  BY <1>3, <1>15 DEF SlotSound, Foldable
<1>16. e.ten.blocks # 0 => Placed(e.ten, next, g) /\ Current(e.ten, g) /\ Once(e.ten)
  <2>1. r.eligible /\ p.ten.blocks # 0 => Foldable(p.ten, next, g) /\ Once(p.ten)
    BY <1>1, <1>5, <1>15 DEF BlockSettled, TenSound
  <2> QED
    BY <1>3, <1>4, <1>8, <2>1, TenFoldSound
<1>17. TenSound(e, next, g)
  BY <1>16 DEF TenSound, SlotSound
(* The two-hour chain.                                                     *)
<1>18. TwoSound(k, next, g) /\ e.two = k.two
  BY <1>1, <1>5, <1>6, <1>8 DEF BlockSettled
<1>19. TwoSound(e, next, g)
  <2>1. SUFFICES ASSUME k.two.intervals # 0, ~e.ten.contaminated
                 PROVE  \/ Current(k.two, g)
                        \/ /\ Outdated(k.two, g)
                           /\ IF e.ten.blocks # 0
                              THEN e.ten.first < g.changed \/ e.ten.settings[2] # k.two.settings[2]
                              ELSE k.two.settings[2] # g.nominal /\ e.primary.cycles # 0
    BY <1>18 DEF TwoSound
  <2>2. /\ r.eligible /\ e.ten.blocks # 0 /\ e.ten.settings = r.settings
        /\ e.ten.first = IF Begins(k.ten, r) THEN r.first ELSE k.ten.first
        /\ ~k.ten.contaminated /\ ~(Begins(k.ten, r) /\ k.ten.blocks # 0)
    BY <1>5, <1>7, <1>8, <2>1
  <2>3. ~k.disc /\ r.settings[2] = g.nominal
    BY <1>3, <2>2 DEF BasicSound
  <2>4. \/ Current(k.two, g)
        \/ /\ Outdated(k.two, g)
           /\ IF k.ten.blocks # 0
              THEN k.ten.first < g.changed \/ k.ten.settings[2] # k.two.settings[2]
              ELSE k.two.settings[2] # g.nominal /\ k.primary.cycles # 0
    BY <1>18, <2>1, <2>2, <2>3 DEF TwoSound
  <2>5. CASE k.ten.blocks = 0
    BY <2>2, <2>3, <2>4, <2>5
  <2>6. CASE k.ten.blocks # 0
    <3>1. ~Begins(k.ten, r) /\ r.settings = k.ten.settings
      BY <2>2, <2>6 DEF Begins, Follows
    <3> QED
      BY <2>2, <2>4, <2>6, <3>1
  <2> QED
    BY <2>5, <2>6
(* The aggregates.                                                         *)
<1>20. ASSUME r.eligible
       PROVE  LET s == Joined(f, r)
                  b == Beside(f, r)
              IN /\ Placed(s, next, g) /\ Current(s, g) /\ (s.overlap \/ Once(s))
                 /\ b.blocks # 0 =>
                      /\ Placed(b, next, g) /\ Current(b, g) /\ (b.overlap \/ Once(b))
                      /\ b.blocks < s.blocks /\ b.last = s.last /\ b.settings = s.settings
  <2>0. AggregatesSound(k, next, g) /\ f.open = k.open /\ f.openShadow = k.openShadow
    BY <1>1, <1>5, <1>6 DEF BlockSettled
  <2>1. f.open.blocks # 0 => Foldable(f.open, next, g) /\ (f.open.overlap \/ Once(f.open))
    BY <1>15, <1>20, <2>0 DEF AggregatesSound
  <2>2. f.openShadow.blocks # 0 =>
           /\ Foldable(f.openShadow, next, g)
           /\ f.openShadow.overlap \/ Once(f.openShadow)
           /\ f.openShadow.blocks < f.open.blocks
           /\ f.openShadow.last = f.open.last /\ f.openShadow.settings = f.open.settings
    BY <1>15, <1>20, <2>0 DEF AggregatesSound
  <2>3. LET s == Joined(f, r)
        IN Placed(s, next, g) /\ Current(s, g) /\ (s.overlap \/ Once(s))
    BY <1>3, <1>20, <2>1, JoinedSound
  <2>4. LET b == Beside(f, r)
            s == Joined(f, r)
        IN b.blocks # 0 =>
             /\ Placed(b, next, g) /\ Current(b, g) /\ (b.overlap \/ Once(b))
             /\ b.blocks < s.blocks /\ b.last = s.last /\ b.settings = s.settings
    BY <1>3, <1>20, <2>1, <2>2, BesideSound
  <2> QED
    BY <2>3, <2>4
<1>21. Joined(f, r).blocks \in Nat /\ Joined(f, r).blocks <= BlocksPerAggregate
  <2>1. Joined(f, r) \in AggregateSlots /\ f.open \in AggregateSlots
    BY JoinedFields DEF Kernels
  <2>2. Joined(f, r).blocks \in Nat /\ f.open.blocks \in Nat
    BY <2>1 DEF AggregateSlots
  <2>3. Joined(f, r).blocks = 1 \/ Joined(f, r).blocks = f.open.blocks + 1
    BY JoinedFields
  <2>4. f.open.blocks < BlocksPerAggregate /\ BlocksPerAggregate \in Nat
    BY <1>5, <1>6, TierAssumption DEF BlockSettled, AggregatesSound
  <2> QED
    BY <2>2, <2>3, <2>4
<1>22. ~e.disc
  BY <1>5, <1>6, <1>8
<1>23. AggregatesSound(e, next, g)
  <2>1. CASE e.open.blocks = 0 /\ e.openShadow.blocks = 0
    BY <2>1, TierAssumption DEF AggregatesSound
  <2>2. CASE /\ r.eligible /\ e.open = Joined(f, r) /\ e.openShadow = Beside(f, r)
             /\ e.open.blocks # BlocksPerAggregate
    <3>1. e.open.blocks < BlocksPerAggregate
      BY <1>21, <2>2, TierAssumption
    <3> QED
      BY <1>20, <1>22, <2>2, <3>1 DEF AggregatesSound, SlotSound
  <2>3. CASE /\ r.eligible /\ e.closed = Joined(f, r) /\ e.open = Beside(f, r)
             /\ e.openShadow.blocks = 0
    <3>0. Beside(f, r) \in AggregateSlots
      BY BesideFields
    <3>1. e.open.blocks < BlocksPerAggregate
      BY <1>20, <1>21, <2>3, <3>0, TierAssumption DEF AggregateSlots
    <3> QED
      BY <1>20, <1>22, <2>3, <3>1 DEF AggregatesSound, SlotSound
  <2> QED
    BY <1>9, <2>1, <2>2, <2>3
(* The passes.                                                             *)
<1>24. PendingSound(e, next, g)
  <2>1. f.pending \subseteq {TenMinute} /\ (TenMinute \in f.pending => e.ten.blocks # 0)
    BY <1>5, <1>7, <1>8
  <2>2. e.pending \subseteq {TenMinute, Aggregate} /\ (TenMinute \in e.pending => e.ten.blocks # 0)
    BY <1>9, <2>1 DEF Aggregate, TenMinute
  <2>3. Aggregate \in e.pending => r.eligible /\ e.closed = Joined(f, r)
    BY <1>9, <2>1 DEF Aggregate, TenMinute
  <2>4. Aggregate \in e.pending => /\ Placed(e.closed, next, g) /\ Current(e.closed, g)
                                   /\ e.closed.overlap \/ Once(e.closed)
    BY <1>20, <2>3
  <2>5. /\ TwoHour \notin e.pending /\ OpenTen \notin e.pending /\ OpenTwo \notin e.pending
    BY <2>2 DEF TenMinute, Aggregate, TwoHour, OpenTen, OpenTwo
  <2>6. e.two.intervals # IntervalsPerTwoHour /\ e.two.intervals <= IntervalsPerTwoHour
    BY <1>18 DEF BlockSettled, PendingSound
  <2> QED
    BY <1>16, <1>22, <2>2, <2>4, <2>5, <2>6 DEF PendingSound
<1>25. KernelSound(e, next, g)
  BY <1>12, <1>13, <1>14, <1>17, <1>19, <1>23, <1>24 DEF KernelSound
<1> QED
  BY <1>1, <1>4, <1>5, <1>6, <1>8, <1>22, <1>25

--------------------------------------------------------------------------------
(* One frame.                                                               *)

LEMMA HeardType ==
  ASSUME NEW k \in Kernels, NEW h \in Histories
  PROVE  HeardUpTo(k, h) \in Int
  BY SampleTypes DEF HeardUpTo, Kernels, Histories

(* A cycle that is not measured leaves the intervals, and a hole.           *)
LEMMA UnmeasuredSound ==
  ASSUME NEW k \in Kernels, NEW e \in Kernels, NEW x \in CyclePackets, NEW now \in Int,
         NEW h \in Histories, NEW g \in Histories,
         KernelSound(k, now, h), k.pending = {}, Later(x, now, h, g),
         e.disc, e.primary.cycles = 0, e.shadow.cycles = 0, BlockOpen(e), e.expected = None,
         e.open = k.open, e.openShadow = k.openShadow, e.ten = k.ten, e.two = k.two, e.pending = {}
  PROVE  KernelSound(e, FirstSample(x.cycle + 1), g)
<1>1. BlocksSound(e, FirstSample(x.cycle + 1), g) /\ Expecting(e)
  BY DEF BlocksSound, Expecting
<1>2. /\ e.open.first \in Int /\ e.open.last \in Int /\ e.open.nextFirst \in Int
      /\ e.openShadow.first \in Int /\ e.openShadow.last \in Int /\ e.openShadow.nextFirst \in Int
      /\ e.ten.first \in Int /\ e.ten.last \in Int /\ e.ten.nextFirst \in Int
      /\ e.two.first \in Int /\ e.two.last \in Int /\ e.two.nextFirst \in Int
  BY DEF Kernels, AggregateSlots, TenMinuteSlots, TwoHourSlots
<1>3. AggregatesSound(e, FirstSample(x.cycle + 1), g)
  <2>1. e.open.blocks # 0 => SlotSound(e.open, e, FirstSample(x.cycle + 1), g)
    BY <1>2, PlacedStays DEF KernelSound, AggregatesSound, SlotSound
  <2>2. e.openShadow.blocks # 0 => SlotSound(e.openShadow, e, FirstSample(x.cycle + 1), g)
    BY <1>2, PlacedStays DEF KernelSound, AggregatesSound, SlotSound
  <2> QED
    BY <2>1, <2>2 DEF KernelSound, AggregatesSound
<1>4. TenSound(e, FirstSample(x.cycle + 1), g)
  BY <1>2, PlacedStays DEF KernelSound, TenSound, SlotSound
<1>5. TwoSound(e, FirstSample(x.cycle + 1), g)
  BY <1>2, PlacedStays DEF KernelSound, TwoSound
<1>6. PendingSound(e, FirstSample(x.cycle + 1), g)
  BY DEF KernelSound, PendingSound
<1> QED
  BY <1>1, <1>3, <1>4, <1>5, <1>6 DEF KernelSound

(* What a frame does: the kernel before it, after it, and what is published.*)
FrameSound(k, e, p, now, next, g) ==
  /\ KernelSound(e, next, g) /\ HistorySound(next, g) /\ HeardUpTo(e, g) = next
  /\ \/ /\ p = Nothing /\ e.sequence = k.sequence
        /\ ~e.disc => ~k.disc /\ NextFirst(e, next) = NextFirst(k, now)
     \/ /\ p \in BasicResults /\ BasicSound(p, next, g)
        /\ p.sequence = k.sequence + 1 /\ e.sequence = k.sequence + 1
        /\ ~p.afterGap => ~k.disc /\ p.first = NextFirst(k, now)
        /\ NextFirst(e, next) <= next

LEMMA ProcessSound ==
  ASSUME NEW k \in Kernels, NEW x \in CyclePackets, NEW now \in Int, NEW h \in Histories,
         NEW c \in Kernels, c = Configured(k, x),
         NEW g \in Histories, g = Remembered(h, c, x), now = HeardUpTo(k, h),
         KernelSound(k, now, h), HistorySound(now, h), k.pending = {},
         now <= FirstSample(x.cycle)
  PROVE  /\ Invoke(c, x) \in Kernels
         /\ FrameSound(k, Invoke(c, x), Published(c, x), now, FirstSample(x.cycle + 1), g)
<1>1. /\ KernelSound(c, now, h) /\ c.pending = {} /\ c.sequence = k.sequence
      /\ c.expected \in {None, k.expected}
      /\ ~c.disc => ~k.disc /\ c.primary = k.primary
  BY ConfiguredSound
<1>2. x.cycle \in Int /\ x.cycle # None /\ x.cycle + 1 \in Int /\ x.cycle + 1 # None /\ 0 <= x.cycle
  BY DEF CyclePackets, None
<1>3. PICK n \in Int : n = FirstSample(x.cycle)
  BY <1>2, SampleTypes
<1>4. PICK next \in Int : next = FirstSample(x.cycle + 1)
  BY <1>2, SampleTypes
<1>5. next = n + CycleSamples /\ CycleSamples \in Nat /\ CycleSamples > 0
  BY <1>2, <1>3, <1>4, SampleArithmetic, SampleTypes
<1>6. n >= 0
  BY <1>2, <1>3, TierAssumption DEF FirstSample
<1>7. /\ g.cut = IF ~Measures(c, x) THEN next
                 ELSE IF x.gap \/ x.cycle # c.expected THEN n ELSE h.cut
      /\ g.changed \in {n, h.changed} /\ g.unlocked \in {n, h.unlocked}
  BY <1>3, <1>4, RememberedFields
<1>8. /\ h.cut \in Int /\ h.changed \in Int /\ h.unlocked \in Int
      /\ h.cut <= now /\ (h.changed < now \/ h.changed = 0) /\ h.unlocked < now /\ now <= n
  BY <1>3 DEF Histories, HistorySound
<1>9. HistorySound(next, g)
  BY <1>5, <1>6, <1>7, <1>8 DEF HistorySound
<1>10. Later(x, now, h, g)
  BY <1>3, <1>7, <1>8 DEF Later
<1>11. CASE ~Measures(c, x)
  <2>1. Published(c, x) = Nothing /\ g.cut = next
    BY <1>7, <1>11 DEF Published
  <2>2. ASSUME NEW e \in Kernels, e = Invoke(c, x), e.disc, e.primary.cycles = 0,
               e.shadow.cycles = 0, BlockOpen(e), e.expected = None, e.sequence = c.sequence,
               e.open = c.open, e.openShadow = c.openShadow, e.ten = c.ten, e.two = c.two,
               e.pending = {}
        PROVE  /\ Invoke(c, x) \in Kernels
               /\ FrameSound(k, Invoke(c, x), Published(c, x), now, next, g)
    <3>1. KernelSound(e, next, g)
      BY <1>1, <1>4, <1>10, <2>2, UnmeasuredSound
    <3>2. HeardUpTo(e, g) = next
      BY <2>1, <2>2 DEF HeardUpTo
    <3> QED
      BY <1>1, <1>9, <2>1, <2>2, <3>1, <3>2 DEF FrameSound
  <2>3. CASE ~c.enable
    <3>1. Invoke(c, x) = c
      BY <2>3 DEF Invoke
    <3>2. /\ c.expected = None /\ c.disc /\ c.primary.cycles = 0 /\ c.shadow.cycles = 0
          /\ BlockOpen(c)
      BY <1>1, <2>3 DEF KernelSound, Expecting
    <3> QED
      BY <1>1, <1>4, <2>2, <3>1, <3>2
  <2>4. CASE c.enable
    <3>1. PICK d \in Kernels : d = Discarded(c)
      BY DiscardedFields
    <3>2. /\ d.primary = NoBlock /\ d.shadow = NoBlock /\ d.disc /\ d.sequence = c.sequence
          /\ d.open = c.open /\ d.openShadow = c.openShadow /\ d.ten = c.ten /\ d.two = c.two
          /\ d.pending = c.pending
      BY <3>1, DiscardedFields
    <3>3. Invoke(c, x) = [d EXCEPT !.expected = None] /\ None \in Int
      BY <1>11, <2>4, <3>1 DEF Invoke, None
    <3>4. PICK e : e = [d EXCEPT !.expected = None]
      OBVIOUS
    <3>5. /\ e \in Kernels /\ e.expected = None /\ e.primary = d.primary /\ e.shadow = d.shadow
          /\ e.disc = d.disc /\ e.sequence = d.sequence /\ e.open = d.open
          /\ e.openShadow = d.openShadow /\ e.ten = d.ten /\ e.two = d.two
          /\ e.pending = d.pending
      BY <3>3, <3>4, ExpectedFields
    <3>6. e.primary.cycles = 0 /\ e.shadow.cycles = 0 /\ BlockOpen(e)
      BY <3>2, <3>5, EmptyTypes, EmptyBlockOpen DEF BlockOpen
    <3>7. /\ e = Invoke(c, x) /\ e.disc /\ e.shadow.cycles = 0 /\ e.sequence = c.sequence
          /\ e.open = c.open /\ e.openShadow = c.openShadow /\ e.ten = c.ten /\ e.two = c.two
      BY <3>2, <3>3, <3>4, <3>5, <3>6
    <3>8. e.pending = {}
      BY <1>1, <3>2, <3>5
    <3> QED
      BY <1>4, <2>2, <3>5, <3>6, <3>7, <3>8
  <2> QED
    BY <2>3, <2>4
<1>12. CASE Measures(c, x)
  <2>1. c.expected # None => now = FirstSample(c.expected)
    BY <1>1 DEF HeardUpTo
  <2>2. PICK m : m = Merged(c, x)
    OBVIOUS
  <2>3. /\ m \in Kernels /\ m.sequence = k.sequence /\ BlockSettled(m, x, g)
        /\ ~m.disc => ~c.disc /\ m.primary.first = NextFirst(c, now)
    BY <1>1, <1>12, <2>1, <2>2, MergedSound DEF NextFirst
  <2>4. ~m.disc => ~k.disc /\ m.primary.first = NextFirst(k, now)
    BY <1>1, <2>3 DEF NextFirst
  <2>5. m.enable /\ m.expected = x.cycle + 1 /\ m.primary.cycles # 0
    BY <2>3 DEF BlockSettled
  <2>6. CASE ~BlockComplete(m)
    <3>1. Invoke(c, x) = m /\ Published(c, x) = Nothing
      BY <1>12, <2>2, <2>6 DEF Invoke, Published, Measures
    <3>2. BlockOpen(m)
      <4>1. m.primary \in Blocks
        BY <2>3 DEF Kernels
      <4>2. m.primary.cycles \in Nat /\ met_expected_cycles(m.primary.nominal) \in Nat
        BY <4>1, ExpectedCycles DEF Blocks
      <4> QED
        BY <2>6, <4>2 DEF BlockOpen, BlockComplete
    <3>3. Expecting(m)
      BY <1>2, <2>5 DEF Expecting
    <3>4. KernelSound(m, next, g)
      BY <1>4, <2>3, <3>2, <3>3 DEF KernelSound, BlockSettled
    <3>5. HeardUpTo(m, g) = next
      BY <1>2, <1>4, <2>5 DEF HeardUpTo
    <3>6. NextFirst(m, next) = m.primary.first
      BY <2>5 DEF NextFirst
    <3> QED
      BY <1>4, <1>9, <2>3, <2>4, <3>1, <3>4, <3>5, <3>6 DEF FrameSound
  <2>7. CASE BlockComplete(m)
    <3>1. PICK p \in BasicResults : p = BasicResult(m, x)
      BY <2>3, BasicResultFields
    <3>2. PICK e : e = CloseBlock(m, x)
      OBVIOUS
    <3>3. Invoke(c, x) = e /\ Published(c, x) = p
      BY <1>12, <2>2, <2>7, <3>1, <3>2 DEF Invoke, Published, Measures
    <3>4. /\ e \in Kernels /\ KernelSound(e, next, g) /\ e.expected = x.cycle + 1
          /\ e.sequence = m.sequence + 1 /\ e.primary = m.shadow
      BY <1>4, <2>3, <3>2, CloseBlockSound
    <3>5. BasicSound(p, next, g)
      BY <1>4, <2>3, <3>1, BasicResultSound
    <3>6. p.sequence = m.sequence + 1 /\ p.first = m.primary.first /\ p.afterGap = m.disc
      BY <2>3, <3>1, BasicResultFields
    <3>7. HeardUpTo(e, g) = next
      BY <1>2, <1>4, <3>4 DEF HeardUpTo
    <3>8. NextFirst(e, next) <= next
      <4>1. e.primary \in Blocks
        BY <3>4 DEF Kernels
      <4>2. e.primary.cycles # 0 => e.primary.first < next
        BY <3>4 DEF KernelSound, BlocksSound, BlockSound
      <4> QED
        BY <4>1, <4>2 DEF NextFirst, Blocks
    <3> QED
      BY <1>4, <1>9, <2>3, <2>4, <3>1, <3>3, <3>4, <3>5, <3>6, <3>7, <3>8 DEF FrameSound
  <2> QED
    BY <2>6, <2>7
<1> QED
  BY <1>4, <1>11, <1>12

--------------------------------------------------------------------------------
(* The numbers of the passes and the parts of the kernel.                   *)
LEMMA PassNumbers ==
  /\ Aggregate = 0 /\ TenMinute = 1 /\ TwoHour = 2 /\ OpenTen = 3 /\ OpenTwo = 4
  /\ Aggregate \in 0 .. 4 /\ TenMinute \in 0 .. 4 /\ TwoHour \in 0 .. 4
  /\ OpenTen \in 0 .. 4 /\ OpenTwo \in 0 .. 4
  BY DEF Aggregate, TenMinute, TwoHour, OpenTen, OpenTwo

LEMMA KernelParts ==
  ASSUME NEW k \in Kernels
  PROVE  /\ k.primary \in Blocks /\ k.shadow \in Blocks /\ k.open \in AggregateSlots
         /\ k.openShadow \in AggregateSlots /\ k.closed \in AggregateSlots
         /\ k.ten \in TenMinuteSlots /\ k.two \in TwoHourSlots
         /\ k.pending \in SUBSET (0 .. 4) /\ k.disc \in BOOLEAN
         /\ Spans(k.closed) /\ Spans(k.ten) /\ Spans(k.two)
<1>1. /\ k.primary \in Blocks /\ k.shadow \in Blocks /\ k.open \in AggregateSlots
      /\ k.openShadow \in AggregateSlots /\ k.closed \in AggregateSlots
      /\ k.ten \in TenMinuteSlots /\ k.two \in TwoHourSlots
      /\ k.pending \in SUBSET (0 .. 4) /\ k.disc \in BOOLEAN
  BY DEF Kernels
<1>2. Spans(k.closed) /\ Spans(k.ten) /\ Spans(k.two)
  BY <1>1 DEF Spans, AggregateSlots, TenMinuteSlots, TwoHourSlots
<1> QED
  BY <1>1, <1>2

--------------------------------------------------------------------------------
(* The two-hour chain over one frame.                                       *)

(* A new mark and a new configuration end the chain.                        *)
LEMMA ConfiguredCascade ==
  ASSUME NEW k \in Kernels, NEW x \in CyclePackets, NEW now \in Int,
         CascadeSound(k, now), k.pending = {}
  PROVE  CascadeSound(Configured(k, x), now)
<1>1. PICK a \in Kernels : a = AdoptMark(k, x)
  BY AdoptMarkFields
<1>2. a.pending = {} /\ (a = k \/ a.two.intervals = 0)
  <2>1. a.pending \subseteq k.pending /\ (a = k \/ a.two.intervals = 0)
    BY <1>1, AdoptMarkFields
  <2> QED
    BY <2>1
<1>3. PICK m \in Kernels : m = ApplyConfiguration(a, x)
  BY ApplyConfigurationFields
<1>4. m.pending = {} /\ (m = a \/ m.two.intervals = 0)
  <2>1. m.pending \subseteq a.pending /\ (m = a \/ m.two.intervals = 0)
    BY <1>3, ApplyConfigurationFields
  <2> QED
    BY <1>2, <2>1
<1>5. Configured(k, x) = m
  BY <1>1, <1>3 DEF Configured
<1>6. CASE m.two.intervals = 0
  BY <1>4, <1>5, <1>6 DEF CascadeSound
<1>7. CASE m.two.intervals # 0
  BY <1>2, <1>4, <1>5, <1>7
<1> QED
  BY <1>6, <1>7

(* What the merge leaves of the intervals.                                  *)
LEMMA MergedIntervals ==
  ASSUME NEW k \in Kernels, NEW x \in CyclePackets
  PROVE  LET m == Merged(k, x)
         IN m \in Kernels /\ m.ten = k.ten /\ m.two = k.two /\ m.pending = k.pending
<1>1. PICK c \in Kernels : c = CheckContinuity(k, x)
  BY CheckContinuityFields
<1>2. c.ten = k.ten /\ c.two = k.two /\ c.pending = k.pending
  BY <1>1, CheckContinuityFields
<1> QED
  BY <1>1, <1>2, MergeCycleFields DEF Merged

(* The end of a block: the interval it begins begins where the kernel went  *)
(* on, and one that it contaminates no longer matters to the chain.         *)
LEMMA ClosedCascade ==
  ASSUME NEW m \in Kernels, NEW x \in CyclePackets, NEW g \in Histories, BlockSettled(m, x, g),
         NEW next \in Int, next = FirstSample(x.cycle + 1), CascadeSound(m, next),
         NEW e \in Kernels, e = CloseBlock(m, x), NextFirst(e, next) <= next
  PROVE  CascadeSound(e, next)
<1>1. PICK r \in BasicResults : r = BasicResult(m, x)
  BY BasicResultFields
<1>2. /\ r.first = m.primary.first /\ r.first \in Int /\ r.samples \in Int
      /\ (r.eligible => ~m.disc)
  BY <1>1, BasicResultFields DEF BasicResults
<1>3. r.first + r.samples = next
  BY <1>1, <1>2, BasicResultSound DEF BasicSound
<1>4. PICK p \in Kernels, f \in Kernels, a \in Kernels :
         p = Promoted(m) /\ f = FoldTen(p, r) /\ a = FoldAggregates(f, r) /\ a = CloseBlock(m, x)
  BY <1>1, CloseBlockFields
<1>5. p.ten = m.ten /\ p.two = m.two /\ p.pending = {}
  BY <1>4, PromotedFields DEF BlockSettled
<1>6. PICK t \in TenMinuteSlots : t = m.ten
  BY KernelParts
<1>7. PICK u \in TenMinuteSlots : u = f.ten
  BY KernelParts
<1>8. /\ f.two = m.two /\ u.sequence = t.sequence
      /\ \/ /\ u.contaminated /\ TenMinute \notin f.pending
         \/ /\ r.eligible /\ u.blocks # 0 /\ u.nextFirst = r.first + r.samples
            /\ u.first = IF Begins(t, r) THEN r.first ELSE t.first
            /\ u.contaminated = (t.contaminated \/ (Begins(t, r) /\ t.blocks # 0))
  <2>1. p.ten = t /\ f.ten = u
    BY <1>5, <1>6, <1>7
  <2>2. f = FoldTen(p, r)
    BY <1>4
  <2>3. f.two = p.two /\ f.ten.sequence = p.ten.sequence
    BY <2>2, FoldTenFields
  <2>4. \/ f.ten.contaminated /\ f.pending = p.pending \ {OpenTen}
        \/ /\ r.eligible /\ f.ten.blocks # 0 /\ f.ten.nextFirst = r.first + r.samples
           /\ f.ten.first = IF Begins(p.ten, r) THEN r.first ELSE p.ten.first
           /\ f.ten.contaminated = (p.ten.contaminated \/ (Begins(p.ten, r) /\ p.ten.blocks # 0))
    BY <2>2, FoldTenFields
  <2>5. TenMinute \notin p.pending \ {OpenTen}
    BY <1>5
  <2> QED
    BY <1>5, <2>1, <2>3, <2>4, <2>5
<1>9. e.ten = u /\ e.two = m.two /\ (TenMinute \in e.pending => TenMinute \in f.pending)
  <2>1. LET n == FoldAggregates(f, r) IN n.ten = f.ten /\ n.two = f.two
    BY FoldAggregatesFields
  <2>2. AggregatesFolded(f, r, a)
    BY <1>4, FoldAggregatesFields
  <2>3. e.pending = f.pending \/ e.pending = f.pending \cup {Aggregate}
    BY <1>4, <2>2 DEF AggregatesFolded
  <2>4. TenMinute # Aggregate
    BY PassNumbers
  <2> QED
    BY <1>4, <1>7, <1>8, <2>1, <2>3, <2>4
<1>10. TenMinute \in e.pending => NextFirst(e, next) <= e.ten.nextFirst
  BY <1>3, <1>8, <1>9
<1>11. ASSUME m.two.intervals # 0, ~u.contaminated
       PROVE  u.blocks # 0 /\ u.first <= m.two.nextFirst
  <2>1. ~t.contaminated /\ r.eligible /\ u.blocks # 0
    BY <1>8, <1>11 DEF TenMinuteSlots
  <2>2. ChainReaches(m, next)
    BY <1>6, <1>11, <2>1 DEF CascadeSound
  <2>3. CASE Begins(t, r)
    <3>1. t.blocks = 0 /\ u.first = r.first
      BY <1>8, <1>11, <2>1, <2>3 DEF TenMinuteSlots
    <3>2. NextFirst(m, next) = m.primary.first
      BY DEF NextFirst, BlockSettled
    <3> QED
      BY <1>2, <1>6, <2>1, <2>2, <3>1, <3>2 DEF ChainReaches
  <2>4. CASE ~Begins(t, r)
    <3>1. t.blocks # 0 /\ u.first = t.first
      BY <1>8, <2>1, <2>4, <1>11 DEF Begins
    <3> QED
      BY <1>6, <2>1, <2>2, <3>1 DEF ChainReaches
  <2> QED
    BY <2>3, <2>4
<1>12. m.two.intervals # 0 => m.two.nextSeq = t.sequence + 1
  BY <1>6 DEF CascadeSound
<1> QED
  BY <1>8, <1>9, <1>10, <1>11, <1>12 DEF CascadeSound, ChainReaches

(* One frame.                                                              *)
LEMMA FrameCascade ==
  ASSUME NEW k \in Kernels, NEW x \in CyclePackets, NEW now \in Int, NEW h \in Histories,
         NEW c \in Kernels, c = Configured(k, x),
         NEW g \in Histories, g = Remembered(h, c, x), now = HeardUpTo(k, h),
         KernelSound(k, now, h), HistorySound(now, h), k.pending = {},
         now <= FirstSample(x.cycle), CascadeSound(k, now)
  PROVE  CascadeSound(Invoke(c, x), FirstSample(x.cycle + 1))
<1>1. KernelSound(c, now, h) /\ c.pending = {} /\ c.expected \in {None, k.expected}
  BY ConfiguredSound
<1>2. CascadeSound(c, now)
  BY ConfiguredCascade
<1>3. x.cycle + 1 \in Int
  BY DEF CyclePackets
<1>4. PICK next \in Int : next = FirstSample(x.cycle + 1)
  BY <1>3, SampleTypes
<1>5. ASSUME NEW e \in Kernels, e.disc, e.ten = c.ten, e.two = c.two, e.pending = {}
      PROVE  CascadeSound(e, next)
  BY <1>2, <1>5 DEF CascadeSound, ChainReaches
<1>6. CASE ~c.enable
  <2>1. Invoke(c, x) = c /\ c.disc
    BY <1>1, <1>6 DEF Invoke, KernelSound, Expecting
  <2> QED
    BY <1>1, <1>4, <1>5, <2>1
<1>7. CASE c.enable /\ ~Measures(c, x)
  <2>1. PICK d \in Kernels : d = Discarded(c)
    BY DiscardedFields
  <2>2. d.disc /\ d.ten = c.ten /\ d.two = c.two /\ d.pending = c.pending
    BY <2>1, DiscardedFields
  <2>3. PICK e : e = [d EXCEPT !.expected = None]
    OBVIOUS
  <2>4. e \in Kernels /\ e.disc = d.disc /\ e.ten = d.ten /\ e.two = d.two /\ e.pending = d.pending
    BY <2>3, ExpectedFields DEF None
  <2>5. Invoke(c, x) = e
    BY <1>7, <2>1, <2>3 DEF Invoke
  <2> QED
    BY <1>1, <1>4, <1>5, <2>2, <2>4, <2>5
<1>8. CASE Measures(c, x)
  <2>1. c.expected # None => now = FirstSample(c.expected)
    BY <1>1 DEF HeardUpTo
  <2>2. PICK m \in Kernels : m = Merged(c, x)
    BY MergedIntervals
  <2>3. m.ten = c.ten /\ m.two = c.two /\ m.pending = {}
    BY <1>1, <2>2, MergedIntervals
  <2>4. /\ BlockSettled(m, x, g)
        /\ ~m.disc => ~c.disc /\ m.primary.first = NextFirst(c, now)
    BY <1>1, <1>8, <2>1, <2>2, MergedSound DEF NextFirst
  <2>5. NextFirst(m, next) = m.primary.first
    BY <2>4 DEF BlockSettled, NextFirst
  <2>6. CascadeSound(m, next)
    BY <1>2, <2>3, <2>4, <2>5 DEF CascadeSound, ChainReaches
  <2>7. CASE ~BlockComplete(m)
    BY <1>4, <1>8, <2>2, <2>6, <2>7 DEF Invoke, Measures
  <2>8. CASE BlockComplete(m)
    <3>1. PICK e \in Kernels : e = CloseBlock(m, x)
      BY <2>4, CloseBlockSound
    <3>2. KernelSound(e, next, g)
      BY <1>4, <2>4, <3>1, CloseBlockSound
    <3>3. NextFirst(e, next) <= next
      <4>1. e.primary \in Blocks
        BY KernelParts
      <4>2. e.primary.cycles # 0 => e.primary.first < next
        BY <3>2 DEF KernelSound, BlocksSound, BlockSound
      <4> QED
        BY <4>1, <4>2 DEF NextFirst, Blocks
    <3>4. CascadeSound(e, next)
      BY <1>4, <2>4, <2>6, <3>1, <3>3, ClosedCascade
    <3>5. Invoke(c, x) = e
      BY <1>8, <2>2, <2>8, <3>1 DEF Invoke, Measures
    <3> QED
      BY <1>4, <3>4, <3>5
  <2> QED
    BY <2>7, <2>8
<1> QED
  BY <1>6, <1>7, <1>8

--------------------------------------------------------------------------------
(* The deferred passes.                                                     *)

AfterPass(k, closed, ten, two, pending) ==
  [k EXCEPT !.closed = closed, !.ten = ten, !.two = two, !.pending = pending]

LEMMA AfterPassFields ==
  ASSUME NEW k \in Kernels, NEW closed \in AggregateSlots, NEW ten \in TenMinuteSlots,
         NEW two \in TwoHourSlots, NEW pending \in SUBSET (0 .. 4)
  PROVE  LET m == AfterPass(k, closed, ten, two, pending)
         IN /\ m \in Kernels /\ m.closed = closed /\ m.ten = ten /\ m.two = two
            /\ m.pending = pending
            /\ m.primary = k.primary /\ m.shadow = k.shadow /\ m.disc = k.disc
            /\ m.expected = k.expected /\ m.enable = k.enable
            /\ m.generation = k.generation /\ m.sequence = k.sequence
            /\ m.open = k.open /\ m.openShadow = k.openShadow
  BY DEF AfterPass, Kernels

(* A pass leaves the blocks and the open aggregates, so only what it        *)
(* touches is to be shown.                                                 *)
LEMMA PassKeeps ==
  ASSUME NEW k \in Kernels, NEW e \in Kernels, NEW now \in Int, NEW h \in Histories,
         KernelSound(k, now, h),
         e.primary = k.primary, e.shadow = k.shadow, e.disc = k.disc,
         e.expected = k.expected, e.enable = k.enable,
         e.open = k.open, e.openShadow = k.openShadow
  PROVE  /\ BlocksSound(e, now, h) /\ BlockOpen(e) /\ Expecting(e)
         /\ AggregatesSound(e, now, h)
  BY DEF KernelSound, BlocksSound, BlockOpen, Expecting, AggregatesSound, SlotSound

(* The interval a pass publishes.                                          *)
LEMMA PublishedInterval ==
  ASSUME NEW s, NEW r, NEW now \in Int, NEW h \in Histories, Spans(s),
         Placed(s, now, h), Current(s, h), r.first = s.first, r.last = s.last
  PROVE  IntervalResult(r, now, h)
  BY DEF Spans, Placed, Current, IntervalResult, Histories

PassSound(now, h) ==
  /\ kernel' \in Kernels /\ KernelSound(kernel', now, h) /\ OutputSound(output', now, h)
  /\ kernel'.primary = kernel.primary /\ kernel'.disc = kernel.disc
  /\ kernel'.expected = kernel.expected /\ kernel'.sequence = kernel.sequence
  /\ output' # Nothing /\ output'.tier # "basic"

(* Pass 1.                                                                 *)
LEMMA AggregatePass ==
  ASSUME kernel \in Kernels, NEW now \in Int, NEW h \in Histories,
         KernelSound(kernel, now, h), FinishAggregate
  PROVE  /\ PassSound(now, h) /\ kernel'.pending \subseteq 1 .. 4
         /\ kernel'.ten = kernel.ten /\ kernel'.two = kernel.two
         /\ TenMinute \in kernel'.pending => TenMinute \in kernel.pending
<1> DEFINE left == kernel.pending \ {Aggregate}
           pending == IF kernel.ten.blocks # 0 /\ TenMinute \notin left
                      THEN left \cup {OpenTen} ELSE left
<1>1. /\ kernel.closed \in AggregateSlots /\ Spans(kernel.closed)
      /\ kernel.ten \in TenMinuteSlots /\ kernel.two \in TwoHourSlots
      /\ kernel.pending \in SUBSET (0 .. 4) /\ Aggregate \in kernel.pending
  BY KernelParts DEF FinishAggregate, Turn
<1>2. pending \in SUBSET (0 .. 4) /\ pending \subseteq 1 .. 4
  BY <1>1, PassNumbers
<1>3. kernel' = AfterPass(kernel, NoSlot, kernel.ten, kernel.two, pending)
  BY <1>1 DEF FinishAggregate, Served, AfterPass, Kernels
<1>4. PICK k \in Kernels : k = kernel
  OBVIOUS
<1>5. PICK e \in Kernels : e = AfterPass(k, NoSlot, k.ten, k.two, pending)
  <2> HIDE DEF pending
  <2> QED
    BY <1>1, <1>2, <1>4, EmptyTypes, AfterPassFields
<1>6. /\ e.primary = k.primary /\ e.shadow = k.shadow /\ e.disc = k.disc
      /\ e.expected = k.expected /\ e.enable = k.enable /\ e.sequence = k.sequence
      /\ e.open = k.open /\ e.openShadow = k.openShadow
      /\ e.ten = k.ten /\ e.two = k.two /\ e.pending = pending
  <2> HIDE DEF pending
  <2> QED
    BY <1>1, <1>2, <1>4, <1>5, EmptyTypes, AfterPassFields
<1>7. KernelSound(k, now, h) /\ PendingSound(k, now, h)
  BY <1>4 DEF KernelSound
<1>8. TenSound(e, now, h) /\ TwoSound(e, now, h)
  BY <1>6, <1>7 DEF KernelSound, TenSound, TwoSound, SlotSound
<1>9. PendingSound(e, now, h)
  <2>1. k.pending # {} /\ Aggregate \notin pending
    BY <1>1, <1>4, PassNumbers
  <2>2. /\ TenMinute \in pending <=> TenMinute \in k.pending
        /\ TwoHour \in pending <=> TwoHour \in k.pending
        /\ OpenTwo \in pending <=> OpenTwo \in k.pending
        /\ OpenTen \in pending =>
             OpenTen \in k.pending \/ (k.ten.blocks # 0 /\ TenMinute \notin k.pending)
    BY <1>4, PassNumbers
  <2> HIDE DEF pending
  <2> QED
    BY <1>6, <1>7, <2>1, <2>2 DEF PendingSound
<1>10. KernelSound(e, now, h)
  BY <1>6, <1>7, <1>8, <1>9, PassKeeps DEF KernelSound
<1>11. OutputSound(output', now, h) /\ output' # Nothing /\ output'.tier # "basic"
  <2>1. /\ Placed(k.closed, now, h) /\ Current(k.closed, h)
        /\ k.closed.overlap \/ Once(k.closed)
    BY <1>1, <1>4, <1>7 DEF PendingSound
  <2>2. PICK s \in AggregateSlots : s = k.closed
    BY <1>1, <1>4
  <2>3. PICK r : r = output'
    OBVIOUS
  <2>4. /\ r.tier = "aggregate" /\ r.settings = s.settings /\ r.first = s.first
        /\ r.last = s.last /\ r.samples = s.samples /\ r.valid = s.valid
        /\ r.overlap = s.overlap
    BY <1>4, <2>2, <2>3 DEF FinishAggregate
  <2>5. IntervalResult(r, now, h)
    BY <1>1, <1>4, <2>1, <2>2, <2>4, PublishedInterval
  <2>6. r.settings \in Settings /\ r.valid \in BOOLEAN
    BY <2>4 DEF AggregateSlots
  <2>7. r.overlap \/ Once(r)
    BY <2>1, <2>2, <2>4 DEF Once
  <2>8. r # Nothing
    BY <2>4 DEF Nothing
  <2> QED
    BY <2>3, <2>4, <2>5, <2>6, <2>7, <2>8 DEF OutputSound
<1>12. kernel' = e
  BY <1>3, <1>4, <1>5
<1> QED
  BY <1>2, <1>4, <1>6, <1>10, <1>11, <1>12, PassNumbers DEF PassSound

(* Pass 2.  An interval that is whole goes on in the chain or begins one;   *)
(* either way the chain is as sound as the interval.                        *)
TwoMerged(w, t) ==
  [w EXCEPT !.intervals = IF w.intervals = 0 \/ ~Chains(w, t) THEN 1 ELSE @ + 1,
            !.settings = t.settings,
            !.first = IF w.intervals = 0 \/ ~Chains(w, t) THEN t.first ELSE @, !.last = t.last,
            !.samples = IF w.intervals = 0 \/ ~Chains(w, t) THEN t.samples ELSE @ + t.samples,
            !.nextSeq = Sequence + 1, !.nextFirst = t.first + t.samples, !.closed = t.closed]
TwoEnded(w) == [w EXCEPT !.intervals = 0]
TenPublished(t) == [t EXCEPT !.sequence = Sequence, !.blocks = 0, !.contaminated = FALSE]

LEMMA TwoMergedFields ==
  ASSUME kernel \in Kernels, NEW w \in TwoHourSlots, NEW t \in TenMinuteSlots
  PROVE  LET m == TwoMerged(w, t)
             begins == w.intervals = 0 \/ ~Chains(w, t)
         IN /\ m \in TwoHourSlots /\ m.settings = t.settings /\ m.last = t.last
            /\ m.nextFirst = t.first + t.samples /\ m.nextSeq = Sequence + 1
            /\ m.intervals = IF begins THEN 1 ELSE w.intervals + 1
            /\ m.first = IF begins THEN t.first ELSE w.first
            /\ m.samples = IF begins THEN t.samples ELSE w.samples + t.samples
<1> DEFINE begins == w.intervals = 0 \/ ~Chains(w, t)
           intervals == IF begins THEN 1 ELSE w.intervals + 1
           first == IF begins THEN t.first ELSE w.first
           samples == IF begins THEN t.samples ELSE w.samples + t.samples
           seq == Sequence + 1
           next == t.first + t.samples
<1>1. Sequence \in Nat
  BY KernelParts DEF Sequence, TenMinuteSlots
<1>2. /\ intervals \in Nat /\ first \in Int /\ samples \in Int /\ seq \in Int /\ next \in Int
      /\ t.settings \in Settings /\ t.last \in Int /\ t.closed \in Int
  BY <1>1 DEF TwoHourSlots, TenMinuteSlots
<1>3. TwoMerged(w, t) =
        [w EXCEPT !.intervals = intervals, !.settings = t.settings, !.first = first,
                  !.last = t.last, !.samples = samples, !.nextSeq = seq, !.nextFirst = next,
                  !.closed = t.closed]
  BY DEF TwoMerged
<1> HIDE DEF intervals, first, samples, seq, next
<1>4. TwoMerged(w, t) \in TwoHourSlots
  BY <1>2, <1>3 DEF TwoHourSlots
<1>5. LET m == TwoMerged(w, t)
      IN /\ m.settings = t.settings /\ m.last = t.last /\ m.nextFirst = next
         /\ m.nextSeq = seq
         /\ m.intervals = intervals /\ m.first = first /\ m.samples = samples
  BY <1>3 DEF TwoHourSlots
<1> QED
  BY <1>4, <1>5 DEF intervals, first, samples, seq, next

LEMMA TwoEndedFields ==
  ASSUME NEW w \in TwoHourSlots
  PROVE  TwoEnded(w) \in TwoHourSlots /\ TwoEnded(w).intervals = 0
  BY DEF TwoEnded, TwoHourSlots

LEMMA TenPublishedFields ==
  ASSUME kernel \in Kernels, NEW t \in TenMinuteSlots
  PROVE  LET u == TenPublished(t)
         IN /\ u \in TenMinuteSlots /\ u.blocks = 0 /\ ~u.contaminated
            /\ u.sequence = Sequence
<1>1. PICK n \in Nat : n = Sequence
  BY KernelParts DEF Sequence, TenMinuteSlots
<1>2. PICK clean \in BOOLEAN : clean = FALSE
  OBVIOUS
<1>3. PICK zero \in Nat : zero = 0
  OBVIOUS
<1>4. TenPublished(t) = [t EXCEPT !.sequence = n, !.blocks = zero, !.contaminated = clean]
  BY <1>1, <1>2, <1>3 DEF TenPublished
<1>5. TenPublished(t) \in TenMinuteSlots
  BY <1>4 DEF TenMinuteSlots
<1>6. /\ TenPublished(t).blocks = zero /\ TenPublished(t).contaminated = clean
      /\ TenPublished(t).sequence = n
  BY <1>4 DEF TenMinuteSlots
<1> QED
  BY <1>1, <1>2, <1>3, <1>5, <1>6

LEMMA ChainGoesOn ==
  ASSUME NEW t, NEW w, NEW m, NEW now \in Int, NEW h \in Histories, Spans(t), Spans(w), Spans(m),
         Placed(t, now, h), Current(t, h), Once(t), m.settings = t.settings, m.last = t.last,
         m.nextFirst = t.first + t.samples
  PROVE  /\ m.first = t.first /\ m.samples = t.samples
              => Placed(m, now, h) /\ Current(m, h) /\ Once(m)
         /\ Placed(w, now, h) /\ Current(w, h) /\ Once(w) /\ t.first = w.nextFirst /\ m.first = w.first
            /\ m.samples = w.samples + t.samples
              => Placed(m, now, h) /\ Current(m, h) /\ Once(m)
<1>1. /\ t.first \in Int /\ t.last \in Int /\ t.samples \in Int /\ t.nextFirst \in Int
      /\ w.first \in Int /\ w.last \in Int /\ w.samples \in Int /\ w.nextFirst \in Int
      /\ m.first \in Int /\ m.last \in Int /\ m.samples \in Int /\ m.nextFirst \in Int
      /\ h.cut \in Int /\ h.changed \in Int /\ h.unlocked \in Int
  BY DEF Spans, Histories
<1>2. /\ t.first <= t.last /\ t.last < now /\ t.nextFirst = t.last + 1
      /\ t.first <= h.unlocked => t.last < h.unlocked
  BY DEF Placed
<1>3. h.cut < t.first /\ h.changed <= t.first /\ t.settings[2] = h.nominal
  BY DEF Current
<1>4. t.samples = t.last - t.first + 1
  BY DEF Once
<1>5. ASSUME m.first = t.first, m.samples = t.samples
      PROVE  Placed(m, now, h) /\ Current(m, h) /\ Once(m)
  <2>1. Placed(m, now, h)
    BY <1>1, <1>2, <1>4, <1>5 DEF Placed
  <2>2. Current(m, h)
    BY <1>3, <1>5 DEF Current
  <2>3. Once(m)
    BY <1>4, <1>5 DEF Once
  <2> QED
    BY <2>1, <2>2, <2>3
<1>6. ASSUME Placed(w, now, h), Current(w, h), Once(w), t.first = w.nextFirst,
             m.first = w.first, m.samples = w.samples + t.samples
      PROVE  Placed(m, now, h) /\ Current(m, h) /\ Once(m)
  <2>1. /\ w.first <= w.last /\ w.last < now /\ w.nextFirst = w.last + 1
        /\ w.first <= h.unlocked => w.last < h.unlocked
    BY <1>6 DEF Placed
  <2>2. h.cut < w.first /\ h.changed <= w.first
    BY <1>6 DEF Current
  <2>3. w.samples = w.last - w.first + 1
    BY <1>6 DEF Once
  <2>4. m.first <= m.last /\ m.last < now /\ m.nextFirst = m.last + 1
    BY <1>1, <1>2, <1>4, <1>6, <2>1
  <2>5. m.first <= h.unlocked => m.last < h.unlocked
    BY <1>1, <1>2, <1>6, <2>1
  <2>6. Placed(m, now, h)
    BY <2>4, <2>5 DEF Placed
  <2>7. Current(m, h)
    BY <1>3, <1>6, <2>2 DEF Current
  <2>8. Once(m)
    BY <1>1, <1>4, <1>6, <2>1, <2>3 DEF Once
  <2> QED
    BY <2>6, <2>7, <2>8
<1> QED
  BY <1>5, <1>6

(* With a whole ten-minute interval at hand, the chain it continues contains *)
(* no change of frequency either.                                          *)
LEMMA ChainIsCurrent ==
  ASSUME NEW k \in Kernels, NEW now \in Int, NEW h \in Histories,
         TwoSound(k, now, h), ~k.disc, ~k.ten.contaminated, k.ten.blocks # 0, Current(k.ten, h),
         k.two.intervals # 0, k.ten.settings = k.two.settings
  PROVE  Current(k.two, h)
<1>1. k.ten.first \in Int /\ h.changed \in Int
  BY KernelParts DEF Spans, Histories
<1>2. \/ Current(k.two, h)
      \/ k.ten.first < h.changed \/ k.ten.settings[2] # k.two.settings[2]
  BY DEF TwoSound
<1> QED
  BY <1>1, <1>2 DEF Current

WithPending(k, pending) == [k EXCEPT !.pending = pending]

Written(k, l, two, pending, ten) ==
  [[WithPending(k, l) EXCEPT !.two = two, !.pending = pending] EXCEPT !.ten = ten]

LEMMA AfterPassWritten ==
  ASSUME NEW k \in Kernels, NEW ten \in TenMinuteSlots, NEW two \in TwoHourSlots,
         NEW l \in SUBSET (0 .. 4), NEW pending \in SUBSET (0 .. 4)
  PROVE  Written(k, l, two, pending, ten) = AfterPass(k, k.closed, ten, two, pending)
  BY DEF WithPending, Written, AfterPass, Kernels

LEMMA TenMinutePass ==
  ASSUME kernel \in Kernels, NEW now \in Int, NEW h \in Histories,
         KernelSound(kernel, now, h), FinishTenMinutes
  PROVE  /\ PassSound(now, h) /\ kernel'.pending \subseteq 2 .. 4
         /\ kernel'.ten = TenPublished(kernel.ten)
         /\ kernel'.two = IF kernel.ten.contaminated THEN TwoEnded(kernel.two)
                          ELSE TwoMerged(kernel.two, kernel.ten)
         /\ kernel.ten.blocks # 0 /\ Placed(kernel.ten, now, h) /\ Once(kernel.ten)
<1>1. PICK k \in Kernels : k = kernel
  OBVIOUS
<1>2. PICK t \in TenMinuteSlots : t = k.ten
  BY KernelParts
<1>3. PICK w \in TwoHourSlots : w = k.two
  BY KernelParts
<1>4. PICK m \in TwoHourSlots : m = TwoMerged(w, t)
  BY TwoMergedFields
<1> DEFINE left == k.pending \ {TenMinute}
           pending == IF t.contaminated THEN left \ {OpenTwo}
                      ELSE IF m.intervals = IntervalsPerTwoHour
                      THEN (left \ {OpenTwo}) \cup {TwoHour} ELSE left \cup {OpenTwo}
           two == IF t.contaminated THEN TwoEnded(w) ELSE m
<1>5. /\ TenMinute \in k.pending /\ Aggregate \notin k.pending /\ k.pending \in SUBSET (0 .. 4)
      /\ k.closed \in AggregateSlots
  BY <1>1, PassNumbers, KernelParts DEF FinishTenMinutes, Turn
<1>6. two \in TwoHourSlots
  BY <1>4, TwoEndedFields
<1>7. pending \in SUBSET (0 .. 4) /\ pending \subseteq 2 .. 4
  BY <1>5, PassNumbers
<1>8. kernel' = AfterPass(k, k.closed, TenPublished(t), two, pending)
  <2>1. PICK s : s = Served(TenMinute)
    OBVIOUS
  <2>2. PICK l \in SUBSET (0 .. 4) : l = left
    BY <1>5
  <2>3. s = WithPending(k, l)
    BY <1>1, <2>1, <2>2 DEF Served, WithPending
  <2>4. s.pending = l /\ s.two = w
    BY <1>3, <2>3 DEF WithPending, Kernels
  <2>5. kernel' = [FoldTwo(s, t) EXCEPT !.ten = TenPublished(t)]
    <3>1. kernel' = [FoldTwo(s, t) EXCEPT !.ten = TenPublished(@)]
      BY <1>1, <1>2, <2>1 DEF FinishTenMinutes, TenPublished
    <3>2. FoldTwo(s, t).ten = t
      <4>1. s.ten = t
        BY <1>2, <2>3 DEF WithPending, Kernels
      <4>2. CASE t.contaminated
        <5>1. FoldTwo(s, t) = [s EXCEPT !.two.intervals = 0, !.pending = @ \ {OpenTwo}]
          BY <4>2 DEF FoldTwo
        <5> QED
          BY <2>3, <4>1, <5>1 DEF WithPending, Kernels
      <4>3. CASE ~t.contaminated
        <5>1. PICK x, y : FoldTwo(s, t) = [s EXCEPT !.two = x, !.pending = y]
          BY <4>3 DEF FoldTwo
        <5> QED
          BY <2>3, <4>1, <5>1 DEF WithPending, Kernels
      <4> QED
        BY <4>2, <4>3
    <3> QED
      BY <3>1, <3>2
  <2>6. PICK a \in TwoHourSlots : a = two
    BY <1>6
  <2>7. PICK b \in SUBSET (0 .. 4) : b = pending
    BY <1>7
  <2>8. FoldTwo(s, t) = [s EXCEPT !.two = a, !.pending = b]
    <3>1. CASE t.contaminated
      <4>1. FoldTwo(s, t) = [s EXCEPT !.two.intervals = 0, !.pending = @ \ {OpenTwo}]
        BY <3>1 DEF FoldTwo
      <4>2. a = TwoEnded(s.two) /\ b = s.pending \ {OpenTwo}
        BY <2>2, <2>4, <2>6, <2>7, <3>1
      <4> QED
        BY <4>1, <4>2 DEF TwoEnded
    <3>2. CASE ~t.contaminated
      <4>1. FoldTwo(s, t) = [s EXCEPT !.two = m,
                 !.pending = IF m.intervals = IntervalsPerTwoHour
                             THEN (@ \ {OpenTwo}) \cup {TwoHour} ELSE @ \cup {OpenTwo}]
        BY <1>4, <2>4, <3>2 DEF FoldTwo, TwoMerged
      <4>2. a = m /\ b = IF m.intervals = IntervalsPerTwoHour
                        THEN (s.pending \ {OpenTwo}) \cup {TwoHour} ELSE s.pending \cup {OpenTwo}
        BY <2>2, <2>4, <2>6, <2>7, <3>2
      <4> QED
        BY <4>1, <4>2
    <3> QED
      BY <3>1, <3>2
  <2>9. kernel' = [[WithPending(k, l) EXCEPT !.two = a, !.pending = b] EXCEPT !.ten = TenPublished(t)]
    BY <2>3, <2>5, <2>8
  <2>10. PICK u \in TenMinuteSlots : u = TenPublished(t)
    BY TenPublishedFields
  <2> HIDE DEF pending, two
  <2>11. kernel' = Written(k, l, a, b, u)
    BY <2>9, <2>10 DEF Written
  <2>12. kernel' = AfterPass(k, k.closed, u, a, b)
    BY <2>11, AfterPassWritten
  <2> QED
    BY <2>6, <2>7, <2>10, <2>12
<1>9. PICK e \in Kernels : e = AfterPass(k, k.closed, TenPublished(t), two, pending)
  <2> HIDE DEF pending, two
  <2> QED
    BY <1>5, <1>6, <1>7, TenPublishedFields, AfterPassFields
<1>10. /\ e.primary = k.primary /\ e.shadow = k.shadow /\ e.disc = k.disc
       /\ e.expected = k.expected /\ e.enable = k.enable /\ e.sequence = k.sequence
       /\ e.open = k.open /\ e.openShadow = k.openShadow
       /\ e.ten = TenPublished(t) /\ e.two = two /\ e.pending = pending
  <2> HIDE DEF pending, two
  <2> QED
    BY <1>5, <1>6, <1>7, <1>9, TenPublishedFields, AfterPassFields
<1>11. /\ KernelSound(k, now, h) /\ PendingSound(k, now, h) /\ TenSound(k, now, h)
       /\ TwoSound(k, now, h)
  BY <1>1 DEF KernelSound
<1>12. /\ ~k.disc /\ t.blocks # 0 /\ Current(t, h) /\ Placed(t, now, h) /\ Once(t)
       /\ TwoHour \notin k.pending /\ OpenTen \notin k.pending
       /\ w.intervals # IntervalsPerTwoHour /\ w.intervals <= IntervalsPerTwoHour
  BY <1>2, <1>3, <1>5, <1>11 DEF PendingSound, TenSound, SlotSound
<1>13. e.ten.blocks = 0 /\ ~e.ten.contaminated
  BY <1>10, TenPublishedFields
<1>14. ASSUME ~t.contaminated
       PROVE  /\ Placed(m, now, h) /\ Current(m, h) /\ Once(m)
              /\ m.intervals \in Nat /\ m.intervals # 0 /\ m.intervals <= IntervalsPerTwoHour
  <2>1. /\ m.settings = t.settings /\ m.last = t.last /\ m.nextFirst = t.first + t.samples
        /\ m.intervals = IF w.intervals = 0 \/ ~Chains(w, t) THEN 1 ELSE w.intervals + 1
        /\ m.first = IF w.intervals = 0 \/ ~Chains(w, t) THEN t.first ELSE w.first
        /\ m.samples = IF w.intervals = 0 \/ ~Chains(w, t) THEN t.samples ELSE w.samples + t.samples
    BY <1>4, TwoMergedFields
  <2>2. Spans(t) /\ Spans(w) /\ Spans(m) /\ w.intervals \in Nat /\ m.intervals \in Nat
    BY DEF TenMinuteSlots, TwoHourSlots, Spans
  <2>3. m.intervals # 0 /\ m.intervals <= IntervalsPerTwoHour
    BY <1>12, <2>1, <2>2, TierAssumption
  <2>4. CASE w.intervals = 0 \/ ~Chains(w, t)
    <3>1. m.first = t.first /\ m.samples = t.samples
      BY <2>1, <2>4
    <3> QED
      BY <1>12, <2>1, <2>2, <2>3, <3>1, ChainGoesOn
  <2>5. CASE ~(w.intervals = 0 \/ ~Chains(w, t))
    <3>1. m.first = w.first /\ m.samples = w.samples + t.samples
      BY <2>1, <2>5
    <3>2. t.settings = w.settings /\ t.first = w.nextFirst /\ w.intervals # 0
      BY <2>5 DEF Chains
    <3>3. Current(w, h)
      BY <1>2, <1>3, <1>11, <1>12, <1>14, <3>2, ChainIsCurrent
    <3>4. Placed(w, now, h) /\ Once(w)
      BY <1>3, <1>11, <3>2 DEF TwoSound
    <3> QED
      BY <1>12, <2>1, <2>2, <2>3, <3>1, <3>2, <3>3, <3>4, ChainGoesOn
  <2> QED
    BY <2>4, <2>5
<1>15. two.intervals # 0 => ~t.contaminated /\ two = m
  BY TwoEndedFields
<1>16. TenSound(e, now, h)
  BY <1>13 DEF TenSound
<1>17. TwoSound(e, now, h)
  <2> HIDE DEF two
  <2> QED
    BY <1>10, <1>14, <1>15 DEF TwoSound
<1>18. PendingSound(e, now, h)
  <2>1. /\ Aggregate \notin pending /\ TenMinute \notin pending /\ OpenTen \notin pending
    BY <1>5, <1>12, PassNumbers
  <2>2. /\ TwoHour \in pending <=> ~t.contaminated /\ m.intervals = IntervalsPerTwoHour
        /\ TwoHour \in pending => OpenTwo \notin pending
        /\ OpenTwo \in pending => ~t.contaminated
    BY <1>5, <1>12, PassNumbers
  <2>3. two.intervals = IF t.contaminated THEN 0 ELSE m.intervals
    BY TwoEndedFields
  <2>4. /\ TwoHour \in pending <=> two.intervals = IntervalsPerTwoHour
        /\ two.intervals <= IntervalsPerTwoHour
    <3> HIDE DEF two, pending
    <3> QED
      BY <1>14, <2>2, <2>3, TierAssumption
  <2>5. TwoHour \in pending \/ OpenTwo \in pending => two.intervals # 0 /\ Current(two, h)
    <3>1. TwoHour \in pending \/ OpenTwo \in pending => ~t.contaminated
      <4> HIDE DEF pending, two
      <4> QED
        BY <2>2
    <3>2. ~t.contaminated => two = m
      OBVIOUS
    <3> HIDE DEF pending, two
    <3> QED
      BY <1>14, <3>1, <3>2
  <2> HIDE DEF two, pending
  <2> QED
    BY <1>10, <1>12, <1>13, <2>1, <2>2, <2>4, <2>5 DEF PendingSound
<1>19. KernelSound(e, now, h)
  BY <1>10, <1>11, <1>16, <1>17, <1>18, PassKeeps DEF KernelSound
<1>20. OutputSound(output', now, h) /\ output' # Nothing /\ output'.tier # "basic"
  <2>1. PICK r : r = output'
    OBVIOUS
  <2>2. /\ r.tier = "ten" /\ r.first = t.first
        /\ r.last = t.last /\ r.samples = t.samples /\ r.valid = t.valid
        /\ r.aligned = ~t.contaminated
    BY <1>1, <1>2, <2>1 DEF FinishTenMinutes
  <2>3. Spans(t)
    BY DEF TenMinuteSlots, Spans
  <2>4. IntervalResult(r, now, h)
    BY <1>12, <2>2, <2>3, PublishedInterval
  <2>5. r.valid \in BOOLEAN /\ r.aligned \in BOOLEAN
    BY <2>2 DEF TenMinuteSlots
  <2>6. Once(r)
    BY <1>12, <2>2 DEF Once
  <2>7. r # Nothing
    BY <2>2 DEF Nothing
  <2> QED
    BY <2>1, <2>2, <2>4, <2>5, <2>6, <2>7 DEF OutputSound
<1>21. kernel' = e
  BY <1>8, <1>9
<1>22. /\ PassSound(now, h) /\ kernel'.pending \subseteq 2 .. 4
  BY <1>1, <1>7, <1>10, <1>19, <1>20, <1>21 DEF PassSound
<1> QED
  BY <1>1, <1>2, <1>3, <1>4, <1>10, <1>12, <1>21, <1>22

(* Pass 3.                                                                 *)
LEMMA TwoHourPass ==
  ASSUME kernel \in Kernels, NEW now \in Int, NEW h \in Histories,
         KernelSound(kernel, now, h), FinishTwoHours
  PROVE  /\ PassSound(now, h) /\ kernel'.pending \subseteq 3 .. 4
         /\ kernel'.ten = kernel.ten /\ kernel'.two.intervals = 0
<1>1. PICK k \in Kernels : k = kernel
  OBVIOUS
<1>2. PICK w \in TwoHourSlots : w = k.two
  BY KernelParts
<1>3. PICK v \in TwoHourSlots : v = TwoEnded(w)
  BY TwoEndedFields
<1>4. /\ TwoHour \in k.pending /\ Aggregate \notin k.pending /\ TenMinute \notin k.pending
      /\ k.pending \in SUBSET (0 .. 4)
      /\ k.closed \in AggregateSlots /\ k.ten \in TenMinuteSlots
  BY <1>1, PassNumbers, KernelParts DEF FinishTwoHours, Turn
<1>5. PICK pending \in SUBSET (0 .. 4) : pending = k.pending \ {TwoHour}
  BY <1>4
<1>6. pending \subseteq 3 .. 4
  <2>1. ASSUME NEW p \in pending
        PROVE  p \in 3 .. 4
    <3>1. p \in 0 .. 4 /\ p \in k.pending /\ p # 2
      BY <1>5, <2>1, PassNumbers
    <3>2. p # 0 /\ p # 1
      BY <1>4, <3>1, PassNumbers
    <3> QED
      BY <3>1, <3>2
  <2> QED
    BY <2>1
<1>7. kernel' = AfterPass(k, k.closed, k.ten, v, pending)
  <2>1. kernel' = [[k EXCEPT !.pending = @ \ {TwoHour}] EXCEPT !.two.intervals = 0]
    BY <1>1 DEF FinishTwoHours, Served
  <2>2. PICK s : s = WithPending(k, pending)
    OBVIOUS
  <2>3. kernel' = [s EXCEPT !.two.intervals = 0]
    BY <1>5, <2>1, <2>2 DEF WithPending
  <2>4. s.two = w
    BY <1>2, <2>2 DEF WithPending, Kernels
  <2>5. kernel' = [s EXCEPT !.two = v]
    BY <1>3, <2>3, <2>4 DEF TwoEnded
  <2> QED
    BY <2>2, <2>5 DEF WithPending, AfterPass, Kernels
<1>8. PICK e \in Kernels : e = AfterPass(k, k.closed, k.ten, v, pending)
  BY <1>4, AfterPassFields
<1>9. /\ e.primary = k.primary /\ e.shadow = k.shadow /\ e.disc = k.disc
      /\ e.expected = k.expected /\ e.enable = k.enable /\ e.sequence = k.sequence
      /\ e.open = k.open /\ e.openShadow = k.openShadow
      /\ e.ten = k.ten /\ e.two = v /\ e.pending = pending
  BY <1>4, <1>8, AfterPassFields
<1>10. KernelSound(k, now, h) /\ PendingSound(k, now, h) /\ TenSound(k, now, h) /\ TwoSound(k, now, h)
  BY <1>1 DEF KernelSound
<1>11. /\ ~k.disc /\ OpenTwo \notin k.pending /\ w.intervals # 0 /\ Current(w, h)
       /\ Placed(w, now, h) /\ Once(w) /\ (k.ten.blocks # 0 => Current(k.ten, h))
       /\ (OpenTen \in k.pending => k.ten.blocks # 0)
  BY <1>2, <1>4, <1>10 DEF PendingSound, TwoSound
<1>12. v.intervals = 0
  BY <1>3, TwoEndedFields
<1>13. TenSound(e, now, h) /\ TwoSound(e, now, h)
  BY <1>9, <1>10, <1>12 DEF TenSound, TwoSound, SlotSound
<1>14. PendingSound(e, now, h)
  <2>1. /\ Aggregate \notin pending /\ TenMinute \notin pending /\ TwoHour \notin pending
        /\ OpenTwo \notin pending /\ (OpenTen \in pending => OpenTen \in k.pending)
    BY <1>4, <1>5, <1>11
  <2>2. IntervalsPerTwoHour # 0 /\ 0 <= IntervalsPerTwoHour
    BY TierAssumption
  <2> QED
    BY <1>9, <1>11, <1>12, <2>1, <2>2 DEF PendingSound
<1>15. KernelSound(e, now, h)
  BY <1>9, <1>10, <1>13, <1>14, PassKeeps DEF KernelSound
<1>16. OutputSound(output', now, h) /\ output' # Nothing /\ output'.tier # "basic"
  <2>1. PICK r : r = output'
    OBVIOUS
  <2>2. /\ r.tier = "two" /\ r.first = w.first /\ r.last = w.last /\ r.samples = w.samples
    BY <1>1, <1>2, <2>1 DEF FinishTwoHours
  <2>3. Spans(w)
    BY DEF TwoHourSlots, Spans
  <2>4. IntervalResult(r, now, h) /\ Once(r) /\ r # Nothing
    BY <1>11, <2>2, <2>3, PublishedInterval DEF Once, Nothing
  <2> QED
    BY <2>1, <2>2, <2>4 DEF OutputSound
<1>17. kernel' = e
  BY <1>7, <1>8
<1> QED
  BY <1>1, <1>6, <1>9, <1>12, <1>15, <1>16, <1>17 DEF PassSound

(* Passes 4 and 5 change nothing.                                          *)
LEMMA PreviewKeeps ==
  ASSUME NEW k \in Kernels, NEW now \in Int, NEW h \in Histories, KernelSound(k, now, h),
         NEW pass \in {OpenTen, OpenTwo}, pass \in k.pending
  PROVE  LET e == WithPending(k, k.pending \ {pass})
         IN /\ e \in Kernels /\ KernelSound(e, now, h) /\ e.pending = k.pending \ {pass}
            /\ e.primary = k.primary /\ e.disc = k.disc /\ e.expected = k.expected
            /\ e.sequence = k.sequence /\ e.ten = k.ten /\ e.two = k.two
<1>1. PICK pending \in SUBSET (0 .. 4) : pending = k.pending \ {pass}
  BY KernelParts
<1>2. PICK e : e = WithPending(k, pending)
  OBVIOUS
<1>3. /\ e \in Kernels /\ e.pending = pending
      /\ e.primary = k.primary /\ e.shadow = k.shadow /\ e.disc = k.disc
      /\ e.expected = k.expected /\ e.enable = k.enable /\ e.sequence = k.sequence
      /\ e.open = k.open /\ e.openShadow = k.openShadow /\ e.closed = k.closed
      /\ e.ten = k.ten /\ e.two = k.two
  BY <1>2 DEF WithPending, Kernels
<1>4. TenSound(e, now, h) /\ TwoSound(e, now, h)
  BY <1>3 DEF KernelSound, TenSound, TwoSound, SlotSound
<1>5. PendingSound(e, now, h)
  <2>1. /\ k.pending # {} /\ (\A p \in pending : p \in k.pending)
        /\ (Aggregate \in pending <=> Aggregate \in k.pending)
        /\ (TenMinute \in pending <=> TenMinute \in k.pending)
        /\ (TwoHour \in pending <=> TwoHour \in k.pending)
    BY <1>1, PassNumbers
  <2>2. PendingSound(k, now, h)
    BY DEF KernelSound
  <2> QED
    BY <1>3, <2>1, <2>2 DEF PendingSound
<1>6. KernelSound(e, now, h)
  BY <1>3, <1>4, <1>5, PassKeeps DEF KernelSound
<1> QED
  BY <1>1, <1>2, <1>3, <1>6

LEMMA PreviewTenPass ==
  ASSUME kernel \in Kernels, NEW now \in Int, NEW h \in Histories,
         KernelSound(kernel, now, h), PreviewTenMinutes
  PROVE  /\ PassSound(now, h) /\ kernel'.pending \subseteq {4}
         /\ kernel'.ten = kernel.ten /\ kernel'.two = kernel.two
<1>1. PICK k \in Kernels : k = kernel
  OBVIOUS
<1>2. PICK pass \in {OpenTen, OpenTwo} : pass = OpenTen
  OBVIOUS
<1>3. PICK e : e = WithPending(k, k.pending \ {pass})
  OBVIOUS
<1>4. kernel' = e /\ pass \in k.pending /\ k.pending \in SUBSET (0 .. 4)
  BY <1>1, <1>2, <1>3, KernelParts DEF PreviewTenMinutes, Turn, Served, WithPending
<1>5. /\ e \in Kernels /\ KernelSound(e, now, h) /\ e.pending = k.pending \ {pass}
      /\ e.primary = k.primary /\ e.disc = k.disc /\ e.expected = k.expected
      /\ e.sequence = k.sequence /\ e.ten = k.ten /\ e.two = k.two
  <2>1. KernelSound(k, now, h) /\ pass \in k.pending
    BY <1>1, <1>4
  <2>2. LET m == WithPending(k, k.pending \ {pass})
        IN /\ m \in Kernels /\ KernelSound(m, now, h) /\ m.pending = k.pending \ {pass}
           /\ m.primary = k.primary /\ m.disc = k.disc /\ m.expected = k.expected
           /\ m.sequence = k.sequence /\ m.ten = k.ten /\ m.two = k.two
    BY <2>1, PreviewKeeps
  <2> QED
    BY <1>3, <2>2
<1>6. e.pending \subseteq {4}
  <2>1. ASSUME NEW p \in e.pending
        PROVE  p = 4
    <3>1. p \in 0 .. 4 /\ p \in k.pending /\ p # 3
      BY <1>2, <1>4, <1>5, <2>1, PassNumbers
    <3>2. 3 <= p
      BY <1>1, <3>1, PassNumbers DEF PreviewTenMinutes, Turn
    <3> QED
      BY <3>1, <3>2
  <2> QED
    BY <2>1
<1>7. PICK t \in TenMinuteSlots : t = k.ten
  BY KernelParts
<1>8. t.blocks # 0 /\ Current(t, h) /\ Placed(t, now, h) /\ Spans(t)
  <2>1. PendingSound(k, now, h) /\ TenSound(k, now, h)
    BY <1>1 DEF KernelSound
  <2>2. t.blocks # 0 /\ Current(t, h)
    BY <1>2, <1>4, <1>7, <2>1 DEF PendingSound
  <2> QED
    BY <1>7, <2>1, <2>2, KernelParts DEF TenSound, SlotSound
<1>9. PICK r : r = output'
  OBVIOUS
<1>10. r.tier = "openTen" /\ r.first = t.first /\ r.last = t.last
  BY <1>1, <1>7, <1>9 DEF PreviewTenMinutes, OpenInterval
<1>11. OutputSound(r, now, h) /\ r # Nothing
  BY <1>8, <1>10, PublishedInterval DEF OutputSound, Nothing
<1> QED
  BY <1>1, <1>4, <1>5, <1>6, <1>9, <1>10, <1>11 DEF PassSound

LEMMA PreviewTwoPass ==
  ASSUME kernel \in Kernels, NEW now \in Int, NEW h \in Histories,
         KernelSound(kernel, now, h), PreviewTwoHours
  PROVE  /\ PassSound(now, h) /\ kernel'.pending = {}
         /\ kernel'.ten = kernel.ten /\ kernel'.two = kernel.two
<1>1. PICK k \in Kernels : k = kernel
  OBVIOUS
<1>2. PICK pass \in {OpenTen, OpenTwo} : pass = OpenTwo
  OBVIOUS
<1>3. PICK e : e = WithPending(k, k.pending \ {pass})
  OBVIOUS
<1>4. kernel' = e /\ pass \in k.pending /\ k.pending \in SUBSET (0 .. 4)
  BY <1>1, <1>2, <1>3, KernelParts DEF PreviewTwoHours, Turn, Served, WithPending
<1>5. /\ e \in Kernels /\ KernelSound(e, now, h) /\ e.pending = k.pending \ {pass}
      /\ e.primary = k.primary /\ e.disc = k.disc /\ e.expected = k.expected
      /\ e.sequence = k.sequence /\ e.ten = k.ten /\ e.two = k.two
  <2>1. KernelSound(k, now, h) /\ pass \in k.pending
    BY <1>1, <1>4
  <2>2. LET m == WithPending(k, k.pending \ {pass})
        IN /\ m \in Kernels /\ KernelSound(m, now, h) /\ m.pending = k.pending \ {pass}
           /\ m.primary = k.primary /\ m.disc = k.disc /\ m.expected = k.expected
           /\ m.sequence = k.sequence /\ m.ten = k.ten /\ m.two = k.two
    BY <2>1, PreviewKeeps
  <2> QED
    BY <1>3, <2>2
<1>6. e.pending = {}
  <2>1. ASSUME NEW p \in e.pending
        PROVE  FALSE
    <3>1. p \in 0 .. 4 /\ p \in k.pending /\ p # 4
      BY <1>2, <1>4, <1>5, <2>1, PassNumbers
    <3>2. 4 <= p
      BY <1>1, <3>1, PassNumbers DEF PreviewTwoHours, Turn
    <3> QED
      BY <3>1, <3>2
  <2> QED
    BY <2>1
<1>7. PICK w \in TwoHourSlots : w = k.two
  BY KernelParts
<1>8. Current(w, h) /\ Placed(w, now, h) /\ Spans(w)
  <2>1. PendingSound(k, now, h) /\ TwoSound(k, now, h)
    BY <1>1 DEF KernelSound
  <2>2. w.intervals # 0 /\ Current(w, h)
    BY <1>2, <1>4, <1>7, <2>1 DEF PendingSound
  <2> QED
    BY <1>7, <2>1, <2>2, KernelParts DEF TwoSound
<1>9. PICK r : r = output'
  OBVIOUS
<1>10. r.tier = "openTwo" /\ r.first = w.first /\ r.last = w.last
  BY <1>1, <1>7, <1>9 DEF PreviewTwoHours, OpenInterval
<1>11. OutputSound(r, now, h) /\ r # Nothing
  BY <1>8, <1>10, PublishedInterval DEF OutputSound, Nothing
<1> QED
  BY <1>1, <1>4, <1>5, <1>6, <1>9, <1>10, <1>11 DEF PassSound

(* The deferred passes.  An aligned interval becomes the end of the chain;  *)
(* the next block has begun by then or begins with the next sample.         *)
LEMMA PassCascade ==
  ASSUME kernel \in Kernels, NEW now \in Int, NEW h \in Histories,
         KernelSound(kernel, now, h), DeferredPass, CascadeSound(kernel, now)
  PROVE  CascadeSound(kernel', now)
<1>1. ASSUME kernel'.primary = kernel.primary, kernel'.disc = kernel.disc,
             kernel'.ten = kernel.ten, kernel'.two = kernel.two,
             TenMinute \in kernel'.pending => TenMinute \in kernel.pending
      PROVE  CascadeSound(kernel', now)
  BY <1>1 DEF CascadeSound, ChainReaches, NextFirst
<1>2. CASE FinishAggregate
  BY <1>1, <1>2, AggregatePass DEF PassSound
<1>3. CASE FinishTenMinutes
  <2>1. PICK t \in TenMinuteSlots : t = kernel.ten
    BY KernelParts
  <2>2. PICK w \in TwoHourSlots : w = kernel.two
    BY KernelParts
  <2>3. /\ PassSound(now, h) /\ kernel'.pending \subseteq 2 .. 4
        /\ kernel'.ten = TenPublished(t)
        /\ kernel'.two = IF t.contaminated THEN TwoEnded(w) ELSE TwoMerged(w, t)
        /\ Placed(t, now, h) /\ Once(t)
    BY <1>3, <2>1, <2>2, TenMinutePass
  <2>4. PICK u \in TenMinuteSlots : u = TenPublished(t) /\ u.blocks = 0 /\ u.sequence = Sequence
    BY TenPublishedFields
  <2>5. TenMinute \notin kernel'.pending
    BY <2>3, PassNumbers
  <2>6. CASE t.contaminated
    <3>1. kernel'.two.intervals = 0
      BY <2>3, <2>6, TwoEndedFields
    <3> QED
      BY <2>5, <3>1 DEF CascadeSound
  <2>7. CASE ~t.contaminated
    <3>1. kernel'.two.nextSeq = Sequence + 1 /\ kernel'.two.nextFirst = t.first + t.samples
      BY <2>3, <2>7, TwoMergedFields
    <3>2. t.first + t.samples = t.nextFirst
      BY <2>3 DEF Placed, Once, TenMinuteSlots
    <3>3. NextFirst(kernel, now) <= t.nextFirst
      BY <1>3, <2>1 DEF CascadeSound, FinishTenMinutes, Turn
    <3>4. NextFirst(kernel', now) = NextFirst(kernel, now)
      BY <2>3 DEF NextFirst, PassSound
    <3> QED
      BY <2>3, <2>4, <2>5, <3>1, <3>2, <3>3, <3>4 DEF CascadeSound, ChainReaches
  <2> QED
    BY <2>6, <2>7
<1>4. CASE FinishTwoHours
  <2>1. kernel'.pending \subseteq 3 .. 4 /\ kernel'.two.intervals = 0
    BY <1>4, TwoHourPass
  <2> QED
    BY <2>1, PassNumbers DEF CascadeSound
<1>5. CASE PreviewTenMinutes
  <2>1. /\ PassSound(now, h) /\ kernel'.pending \subseteq {4}
        /\ kernel'.ten = kernel.ten /\ kernel'.two = kernel.two
    BY <1>5, PreviewTenPass
  <2> QED
    BY <1>1, <2>1, PassNumbers DEF PassSound
<1>6. CASE PreviewTwoHours
  <2>1. /\ PassSound(now, h) /\ kernel'.pending = {}
        /\ kernel'.ten = kernel.ten /\ kernel'.two = kernel.two
    BY <1>6, PreviewTwoPass
  <2> QED
    BY <1>1, <2>1 DEF PassSound
<1> QED
  BY <1>2, <1>3, <1>4, <1>5, <1>6 DEF DeferredPass

--------------------------------------------------------------------------------
(* The energy session.                                                      *)

LEMMA IntegratedFields ==
  ASSUME NEW e \in EnergyStates, NEW r \in BasicResults
  PROVE  LET i == Integrated(e, r)
         IN /\ i \in EnergyStates /\ i.started
            /\ i.first = IF e.started THEN e.first ELSE r.first
            /\ i.firstBlock = IF e.started THEN e.firstBlock ELSE r.sequence
            /\ i.last = r.sequence /\ i.lastSample = r.last
            /\ i.accepted = IF Eligible(r) THEN e.accepted + 1 ELSE e.accepted
            /\ i.acceptedSamples = IF Eligible(r) THEN e.acceptedSamples + r.samples
                                   ELSE e.acceptedSamples
            /\ i.skipped = e.skipped + MissingBlocks(e, r) + (IF Eligible(r) THEN 0 ELSE 1)
            /\ i.incomplete <=> (e.incomplete \/ MissingBlocks(e, r) # 0 \/ ~Eligible(r) \/ ~r.valid)
<1> DEFINE missing == MissingBlocks(e, r)
           begin == IF e.started THEN e.first ELSE r.first
           block == IF e.started THEN e.firstBlock ELSE r.sequence
           taken == IF Eligible(r) THEN e.accepted + 1 ELSE e.accepted
           samples == IF Eligible(r) THEN e.acceptedSamples + r.samples ELSE e.acceptedSamples
           passed == e.skipped + missing + (IF Eligible(r) THEN 0 ELSE 1)
           part == e.incomplete \/ missing # 0 \/ ~Eligible(r) \/ ~r.valid
           broken == e.discontinuity \/ missing # 0 \/ r.afterGap
<1>1. /\ r.first \in Int /\ r.last \in Int /\ r.sequence \in Int /\ r.samples \in Int
      /\ r.valid \in BOOLEAN /\ r.afterGap \in BOOLEAN
  BY DEF BasicResults
<1>2. /\ e.first \in Int /\ e.firstBlock \in Int /\ e.last \in Int /\ e.lastSample \in Int
      /\ e.accepted \in Int /\ e.skipped \in Int /\ e.acceptedSamples \in Int
      /\ e.started \in BOOLEAN /\ e.incomplete \in BOOLEAN /\ e.discontinuity \in BOOLEAN
  BY DEF EnergyStates
<1>3. missing \in Int
  BY <1>1, <1>2 DEF MissingBlocks
<1>4. begin \in Int /\ block \in Int /\ taken \in Int /\ samples \in Int
  BY <1>1, <1>2
<1>5. passed \in Int
  <2> HIDE DEF missing
  <2> QED
    BY <1>2, <1>3 DEF passed
<1>6. part \in BOOLEAN /\ broken \in BOOLEAN
  BY <1>1, <1>2
<1>7. PICK yes \in BOOLEAN : yes = TRUE
  OBVIOUS
<1>8. Integrated(e, r) =
        [e EXCEPT !.started = yes, !.first = begin, !.firstBlock = block,
                  !.last = r.sequence, !.lastSample = r.last, !.accepted = taken,
                  !.acceptedSamples = samples, !.skipped = passed, !.incomplete = part,
                  !.discontinuity = broken]
  BY <1>7 DEF Integrated
<1> HIDE DEF missing, begin, block, taken, samples, passed, part, broken
<1>9. Integrated(e, r) \in EnergyStates
  <2>1. PICK a : a = [e EXCEPT !.started = yes, !.first = begin, !.firstBlock = block,
                               !.last = r.sequence, !.lastSample = r.last]
    OBVIOUS
  <2>2. a \in EnergyStates
    BY <1>1, <1>4, <2>1 DEF EnergyStates
  <2>3. Integrated(e, r) =
          [a EXCEPT !.accepted = taken, !.acceptedSamples = samples, !.skipped = passed,
                    !.incomplete = part, !.discontinuity = broken]
    BY <1>8, <2>1
  <2> QED
    BY <1>4, <1>5, <1>6, <2>2, <2>3 DEF EnergyStates
<1>10. LET i == Integrated(e, r)
       IN /\ i.started = yes /\ i.first = begin /\ i.firstBlock = block
          /\ i.last = r.sequence /\ i.lastSample = r.last /\ i.accepted = taken
          /\ i.acceptedSamples = samples /\ i.skipped = passed /\ i.incomplete = part
  BY <1>8 DEF EnergyStates
<1> QED
  BY <1>7, <1>9, <1>10 DEF missing, begin, block, taken, samples, passed, part

(* A block that is published adds itself to the session, whole or as one    *)
(* that was skipped; its sequence number is always new.                     *)
LEMMA IntegratedSound ==
  ASSUME NEW e \in EnergyStates, NEW r \in BasicResults, NEW now \in Int, NEW next \in Int,
         NEW h \in Histories, NEW k \in Kernels, NEW m \in Kernels, EnergySound(e, k, now),
         BasicSound(r, next, h), r.sequence = k.sequence + 1, m.sequence = k.sequence + 1,
         ~r.afterGap => ~k.disc /\ r.first = NextFirst(k, now), NextFirst(m, next) <= next,
         e.started \/ (Eligible(r) /\ r.valid)
  PROVE  LET i == Integrated(e, r) IN i \in EnergyStates /\ EnergySound(i, m, next)
<1>1. PICK i \in EnergyStates : i = Integrated(e, r)
  BY IntegratedFields
<1>2. /\ i.started
      /\ i.first = IF e.started THEN e.first ELSE r.first
      /\ i.firstBlock = IF e.started THEN e.firstBlock ELSE r.sequence
      /\ i.last = r.sequence /\ i.lastSample = r.last
      /\ i.accepted = IF Eligible(r) THEN e.accepted + 1 ELSE e.accepted
      /\ i.acceptedSamples = IF Eligible(r) THEN e.acceptedSamples + r.samples
                             ELSE e.acceptedSamples
      /\ i.skipped = e.skipped + MissingBlocks(e, r) + (IF Eligible(r) THEN 0 ELSE 1)
      /\ i.incomplete <=> (e.incomplete \/ MissingBlocks(e, r) # 0 \/ ~Eligible(r) \/ ~r.valid)
  BY <1>1, IntegratedFields
<1>3. /\ r.first \in Int /\ r.last \in Int /\ r.sequence \in Int /\ r.samples \in Int
      /\ r.valid \in BOOLEAN /\ r.afterGap \in BOOLEAN
  BY DEF BasicResults
<1>4. /\ e.first \in Int /\ e.firstBlock \in Int /\ e.last \in Int /\ e.lastSample \in Int
      /\ e.accepted \in Int /\ e.skipped \in Int /\ e.acceptedSamples \in Int
      /\ e.started \in BOOLEAN /\ e.incomplete \in BOOLEAN
  BY DEF EnergyStates
<1>5. k.sequence \in Nat /\ k.disc \in BOOLEAN /\ m.sequence \in Nat
  BY DEF Kernels
<1>6. r.last = next - 1 /\ r.samples = next - r.first
  BY DEF BasicSound
<1>7. NextFirst(k, now) \in Int /\ NextFirst(m, next) \in Int
  BY KernelParts DEF NextFirst, Blocks
<1>8. /\ Unstarted(e) /\ Accounted(e) /\ e.last <= k.sequence
      /\ e.started /\ ~k.disc => NextFirst(k, now) <= e.lastSample + 1
  BY DEF EnergySound
<1>9. i.last <= m.sequence /\ i.lastSample + 1 = next
  BY <1>2, <1>3, <1>6
<1>10. i.accepted + i.skipped = i.last - i.firstBlock + 1
  <2>1. CASE e.started
    <3>1. e.last # None /\ e.accepted + e.skipped = e.last - e.firstBlock + 1
      BY <1>4, <1>8, <2>1 DEF Accounted, None
    <3>2. MissingBlocks(e, r) = r.sequence - e.last - 1
      BY <3>1 DEF MissingBlocks
    <3>3. CASE Eligible(r)
      <4>1. i.accepted = e.accepted + 1 /\ i.skipped = e.skipped + (r.sequence - e.last - 1) + 0
        BY <1>2, <3>2, <3>3
      <4> QED
        BY <1>2, <1>3, <1>4, <2>1, <3>1, <4>1
    <3>4. CASE ~Eligible(r)
      <4>1. i.accepted = e.accepted /\ i.skipped = e.skipped + (r.sequence - e.last - 1) + 1
        BY <1>2, <3>2, <3>4
      <4> QED
        BY <1>2, <1>3, <1>4, <2>1, <3>1, <4>1
    <3> QED
      BY <3>3, <3>4
  <2>2. CASE ~e.started
    <3>1. e.last = None /\ e.accepted = 0 /\ e.skipped = 0 /\ Eligible(r)
      BY <1>8, <2>2 DEF Unstarted
    <3>2. MissingBlocks(e, r) = 0
      BY <3>1 DEF MissingBlocks
    <3> QED
      BY <1>2, <1>3, <2>2, <3>1, <3>2
  <2> QED
    BY <2>1, <2>2
<1>11. i.incomplete \/ i.acceptedSamples >= i.lastSample - i.first + 1
  <2> SUFFICES ASSUME ~i.incomplete
               PROVE  i.acceptedSamples >= i.lastSample - i.first + 1
    OBVIOUS
  <2>1. ~e.incomplete /\ Eligible(r) /\ ~r.afterGap
    BY <1>2 DEF Eligible
  <2>2. i.acceptedSamples = e.acceptedSamples + r.samples
    BY <1>2, <2>1
  <2>3. CASE e.started
    <3>1. e.acceptedSamples >= e.lastSample - e.first + 1
      BY <1>8, <2>1, <2>3 DEF Accounted
    <3>2. r.first <= e.lastSample + 1
      BY <1>8, <2>1, <2>3
    <3> QED
      BY <1>2, <1>3, <1>4, <1>6, <2>2, <2>3, <3>1, <3>2
  <2>4. CASE ~e.started
    <3>1. e.acceptedSamples = 0
      BY <1>8, <2>4 DEF Unstarted
    <3> QED
      BY <1>2, <1>3, <1>6, <2>2, <2>4, <3>1
  <2> QED
    BY <2>3, <2>4
<1>12. Accounted(i)
  BY <1>2, <1>5, <1>10, <1>11 DEF Accounted
<1>13. EnergySound(i, m, next)
  BY <1>2, <1>9, <1>12 DEF EnergySound, Unstarted
<1> QED
  BY <1>1, <1>13

Energised(e, r) == IF r.tier = "basic" THEN AfterBasic(e, r) ELSE e

LEMMA FrameEnergised ==
  ASSUME NEW e \in EnergyStates, NEW p, NEW now \in Int, NEW next \in Int,
         NEW g \in Histories, NEW k \in Kernels, NEW m \in Kernels, EnergySound(e, k, now),
         FrameSound(k, m, p, now, next, g)
  PROVE  LET i == Energised(e, p) IN i \in EnergyStates /\ EnergySound(i, m, next)
<1>1. CASE /\ p = Nothing /\ m.sequence = k.sequence
           /\ ~m.disc => ~k.disc /\ NextFirst(m, next) = NextFirst(k, now)
  <2>1. Energised(e, p) = e
    BY <1>1 DEF Energised, Nothing
  <2>2. EnergySound(e, m, next)
    BY <1>1 DEF EnergySound
  <2> QED
    BY <2>1, <2>2
<1>2. CASE /\ p \in BasicResults /\ BasicSound(p, next, g)
           /\ p.sequence = k.sequence + 1 /\ m.sequence = k.sequence + 1
           /\ ~p.afterGap => ~k.disc /\ p.first = NextFirst(k, now)
           /\ NextFirst(m, next) <= next
  <2>1. PICK r \in BasicResults : r = p
    BY <1>2
  <2>2. Energised(e, p) = AfterBasic(e, r)
    BY <2>1 DEF Energised, BasicResults
  <2>3. k.sequence \in Nat /\ e.last \in Int
    BY DEF Kernels, EnergyStates
  <2>4. ~Repeated(e, r)
    BY <1>2, <2>1, <2>3 DEF Repeated, EnergySound
  <2>5. CASE ~e.started /\ ~(Eligible(r) /\ r.valid)
    <3>1. AfterBasic(e, r) = e
      BY <2>5 DEF AfterBasic
    <3>2. EnergySound(e, m, next)
      BY <1>2, <2>3, <2>5 DEF EnergySound, Accounted
    <3> QED
      BY <2>2, <3>1, <3>2
  <2>6. CASE e.started \/ (Eligible(r) /\ r.valid)
    <3>1. AfterBasic(e, r) = Integrated(e, r)
      BY <2>4, <2>6 DEF AfterBasic
    <3>2. LET i == Integrated(e, r) IN i \in EnergyStates /\ EnergySound(i, m, next)
      BY <1>2, <2>1, <2>6, IntegratedSound
    <3> QED
      BY <2>2, <3>1, <3>2
  <2> QED
    BY <2>5, <2>6
<1> QED
  BY <1>1, <1>2 DEF FrameSound

LEMMA PassEnergised ==
  ASSUME NEW e \in EnergyStates, NEW p, p.tier # "basic", NEW now \in Int,
         NEW k \in Kernels, NEW m \in Kernels, EnergySound(e, k, now),
         m.primary = k.primary, m.disc = k.disc, m.sequence = k.sequence
  PROVE  LET i == Energised(e, p) IN i \in EnergyStates /\ EnergySound(i, m, now)
<1>1. Energised(e, p) = e
  BY DEF Energised
<1>2. EnergySound(e, m, now)
  BY DEF EnergySound, NextFirst
<1> QED
  BY <1>1, <1>2

--------------------------------------------------------------------------------
(* The demand window.                                                       *)

(* A hole or an unlocked cycle lies behind every sample heard before it.    *)
Moved(h, g, now) ==
  /\ g.cut = h.cut \/ now <= g.cut
  /\ g.unlocked = h.unlocked \/ now <= g.unlocked

LEMMA RememberedMoves ==
  ASSUME NEW h \in Histories, NEW k \in Kernels, NEW x \in CyclePackets, NEW now \in Int,
         now <= FirstSample(x.cycle)
  PROVE  Moved(h, Remembered(h, k, x), now)
<1>1. PICK g : g = Remembered(h, k, x)
  OBVIOUS
<1>2. /\ g.cut = IF ~Measures(k, x) THEN FirstSample(x.cycle + 1)
                 ELSE IF x.gap \/ x.cycle # k.expected THEN FirstSample(x.cycle) ELSE h.cut
      /\ g.unlocked = IF x.locked THEN h.unlocked ELSE FirstSample(x.cycle)
  BY <1>1, RememberedFields
<1>3. x.cycle \in Int
  BY DEF CyclePackets
<1>4. FirstSample(x.cycle) \in Int /\ FirstSample(x.cycle) <= FirstSample(x.cycle + 1)
  BY <1>3, SampleTypes, SampleArithmetic
<1>5. FirstSample(x.cycle + 1) \in Int
  BY <1>3, SampleTypes
<1> QED
  BY <1>1, <1>2, <1>4, <1>5 DEF Moved

LEMMA NoBuckets ==
  ASSUME NEW now, NEW h
  PROVE  WindowSound(<<>>, now, h)
<1>1. <<>> \in Seq(Buckets) /\ Len(<<>>) = 0
  OBVIOUS
<1>2. 0 <= WindowBuckets
  BY WindowAssumption
<1> QED
  BY <1>1, <1>2 DEF WindowSound

LEMMA WindowMoves ==
  ASSUME NEW buckets, NEW now \in Int, NEW next \in Int, NEW h \in Histories, NEW g \in Histories,
         WindowSound(buckets, now, h), Moved(h, g, now), now <= next
  PROVE  WindowSound(buckets, next, g)
<1>1. ASSUME NEW i \in 1 .. Len(buckets)
      PROVE  /\ buckets[Len(buckets)].last < next
             /\ BucketSound(buckets[i], buckets[Len(buckets)].last, g)
  <2>1. Len(buckets) \in Nat /\ buckets \in Seq(Buckets)
    BY DEF WindowSound
  <2>2. buckets[i] \in Buckets /\ buckets[Len(buckets)] \in Buckets
    <3>1. Len(buckets) \in 1 .. Len(buckets)
      BY <1>1, <2>1
    <3> HIDE DEF Buckets
    <3> QED
      BY <1>1, <2>1, <3>1
  <2>3. PICK b \in Buckets : b = buckets[i]
    BY <2>2
  <2>4. PICK n \in Buckets : n = buckets[Len(buckets)]
    BY <2>2
  <2>5. n.last < now /\ BucketSound(b, n.last, h)
    BY <1>1, <2>3, <2>4 DEF WindowSound
  <2>6. b.first \in Int /\ n.last \in Int
    BY DEF Buckets
  <2>7. /\ h.cut \in Int /\ g.cut \in Int /\ h.unlocked \in Int /\ g.unlocked \in Int
    BY DEF Histories
  <2>8. n.last < next /\ BucketSound(b, n.last, g)
    BY <2>5, <2>6, <2>7 DEF BucketSound, Moved
  <2> QED
    BY <2>3, <2>4, <2>8
<1> QED
  BY <1>1 DEF WindowSound

(* The window after an aggregate: what is kept of it reaches up to the      *)
(* aggregate, and none of the holes lies in between.                        *)
LEMMA KeptWindow ==
  ASSUME NEW d, NEW r, NEW now \in Int, NEW h \in Histories, WindowSound(d.buckets, now, h),
         IntervalResult(r, now, h)
  PROVE  /\ Kept(d, r) \in Seq(Buckets) /\ Len(Kept(d, r)) < WindowBuckets
         /\ \A i \in 1 .. Len(Kept(d, r)) : BucketSound(Kept(d, r)[i], r.last, h)
<1> DEFINE s == d.buckets
<1>1. s \in Seq(Buckets) /\ Len(s) \in Nat /\ Len(s) <= WindowBuckets
  BY DEF WindowSound
<1>2. WindowBuckets \in Nat /\ 0 < WindowBuckets
  BY WindowAssumption
<1>3. CASE s = <<>> \/ ~Contiguous(d, r)
  <2>1. Kept(d, r) = <<>>
    BY <1>3 DEF Kept
  <2>2. <<>> \in Seq(Buckets) /\ Len(<<>>) = 0
    OBVIOUS
  <2> QED
    BY <1>2, <2>1, <2>2
<1>4. CASE s # <<>> /\ Contiguous(d, r)
  <2>1. Len(s) \in 1 .. Len(s)
    BY <1>1, <1>4
  <2>2. ASSUME NEW i \in 1 .. Len(s)
        PROVE  s[i] \in Buckets
    <3> HIDE DEF Buckets
    <3> QED
      BY <1>1, <2>2
  <2>3. ASSUME NEW i \in 1 .. Len(s)
        PROVE  BucketSound(s[i], r.last, h)
    <3>1. PICK b \in Buckets : b = s[i]
      BY <2>2, <2>3
    <3>2. PICK n \in Buckets : n = s[Len(s)]
      BY <2>1, <2>2
    <3>3. BucketSound(b, n.last, h)
      BY <2>3, <3>1, <3>2 DEF WindowSound
    <3>4. r.first = n.last + 1
      BY <1>4, <3>2 DEF Contiguous, NewestBucket
    <3>5. b.first \in Int /\ n.last \in Int
      BY DEF Buckets
    <3>6. h.cut \in Int /\ h.unlocked \in Int
      BY DEF Histories
    <3>7. BucketSound(b, r.last, h)
      BY <3>3, <3>4, <3>5, <3>6 DEF BucketSound, IntervalResult
    <3> QED
      BY <3>1, <3>7
  <2>4. CASE Len(s) < WindowBuckets
    <3>1. Kept(d, r) = s
      BY <1>4, <2>4 DEF Kept
    <3> QED
      BY <1>1, <2>3, <2>4, <3>1
  <2>5. CASE ~(Len(s) < WindowBuckets)
    <3>1. Kept(d, r) = Tail(s)
      BY <1>4, <2>5 DEF Kept
    <3>2. /\ Tail(s) \in Seq(Buckets) /\ Len(Tail(s)) = Len(s) - 1
          /\ \A i \in 1 .. Len(Tail(s)) : Tail(s)[i] = s[i + 1]
      <4> HIDE DEF Buckets
      <4> QED
        BY <1>1, <1>4
    <3>3. Len(Tail(s)) < WindowBuckets
      BY <1>1, <1>2, <3>2
    <3>4. ASSUME NEW i \in 1 .. Len(Tail(s))
          PROVE  BucketSound(Tail(s)[i], r.last, h)
      <4>1. i + 1 \in 1 .. Len(s)
        BY <1>1, <3>2, <3>4
      <4> QED
        BY <2>3, <3>2, <3>4, <4>1
    <3> QED
      BY <3>1, <3>2, <3>3, <3>4
  <2> QED
    BY <2>4, <2>5
<1> QED
  BY <1>3, <1>4

LEMMA WindowGoesOn ==
  ASSUME NEW d, NEW r, NEW now \in Int, NEW h \in Histories, WindowSound(d.buckets, now, h),
         IntervalResult(r, now, h), r.settings \in Settings
  PROVE  /\ WindowSound(Window(d, r), now, h) /\ Len(Window(d, r)) \in Nat
         /\ Len(Window(d, r)) > 0 /\ Window(d, r)[1] \in Buckets
         /\ BucketSound(Window(d, r)[1], r.last, h)
<1>1. PICK kept : kept = Kept(d, r)
  OBVIOUS
<1>2. PICK b : b = Bucket(r)
  OBVIOUS
<1>3. b \in Buckets /\ b.first = r.first /\ b.last = r.last
  BY <1>2 DEF Bucket, Buckets, IntervalResult, Settings
<1>4. /\ kept \in Seq(Buckets) /\ Len(kept) < WindowBuckets
      /\ \A i \in 1 .. Len(kept) : BucketSound(kept[i], r.last, h)
  BY <1>1, KeptWindow
<1>5. PICK w : w = Append(kept, b)
  OBVIOUS
<1>6. PICK n \in Nat : n = Len(kept)
  BY <1>4
<1>7. w \in Seq(Buckets) /\ Len(w) = n + 1 /\ w[n + 1] = b
  <2> HIDE DEF Buckets
  <2> QED
    BY <1>3, <1>4, <1>5, <1>6
<1>8. ASSUME NEW i \in 1 .. n
      PROVE  w[i] = kept[i]
  <2> HIDE DEF Buckets
  <2> QED
    BY <1>3, <1>4, <1>5, <1>6, <1>8
<1>9. BucketSound(b, r.last, h) /\ b.last = r.last /\ r.last < now
  <2>1. h.cut \in Int /\ h.unlocked \in Int
    BY DEF Histories
  <2> QED
    BY <1>3, <2>1 DEF BucketSound, IntervalResult
<1>10. ASSUME NEW i \in 1 .. n + 1
       PROVE  BucketSound(w[i], r.last, h)
  <2>1. CASE i = n + 1
    BY <1>7, <1>9, <2>1
  <2>2. CASE i # n + 1
    <3>1. i \in 1 .. n
      BY <1>10, <2>2
    <3> QED
      BY <1>4, <1>6, <1>8, <3>1
  <2> QED
    BY <2>1, <2>2
<1>11. n + 1 <= WindowBuckets
  BY <1>4, <1>6, WindowAssumption
<1>12. WindowSound(w, now, h)
  BY <1>7, <1>9, <1>10, <1>11 DEF WindowSound
<1>13. w[1] \in Buckets /\ BucketSound(w[1], r.last, h)
  <2>1. 1 \in 1 .. n + 1
    OBVIOUS
  <2>2. w[1] \in Buckets
    <3> HIDE DEF Buckets
    <3> QED
      BY <1>7, <2>1
  <2> QED
    BY <1>10, <2>1, <2>2
<1>14. Window(d, r) = w
  BY <1>1, <1>2, <1>5 DEF Window
<1> QED
  BY <1>7, <1>12, <1>13, <1>14

(* EnergyDemandEngine::observe, as a function of the demand and the family. *)
QuietDemand(d) == [d EXCEPT !.result = Nothing]
Demanded(d, r) ==
  CASE r.tier = "aggregate" /\ d.method = "sliding" -> AfterAggregate(QuietDemand(d), r)
    [] r.tier = "ten" /\ d.method = "fixed" -> AfterTenMinutes(QuietDemand(d), r)
    [] OTHER -> QuietDemand(d)

Demand(method, buckets, result) == [method |-> method, buckets |-> buckets, result |-> result]

LEMMA DemandWritten ==
  ASSUME NEW method \in Methods, NEW buckets, NEW result, NEW now, NEW h,
         WindowSound(buckets, now, h), DemandResultSound(result, h)
  PROVE  DemandSound(Demand(method, buckets, result), now, h)
  BY DEF DemandSound, Demand

LEMMA AggregateDemanded ==
  ASSUME NEW method \in Methods, NEW buckets, NEW d, d = Demand(method, buckets, Nothing),
         NEW r, NEW now \in Int, NEW h \in Histories,
         WindowSound(buckets, now, h), IntervalResult(r, now, h),
         r.settings \in Settings, r.valid \in BOOLEAN
  PROVE  DemandSound(AfterAggregate(d, r), now, h)
<1>1. d.buckets = buckets
  BY DEF Demand
<1>2. CASE ~r.valid
  <2>1. PICK result : result = [tier |-> "demand", valid |-> FALSE, first |-> r.first, last |-> r.last]
    OBVIOUS
  <2>2. AfterAggregate(d, r) = Demand(method, <<>>, result)
    BY <1>2, <2>1 DEF AfterAggregate, Demand
  <2>3. DemandResultSound(result, h)
    BY <2>1 DEF DemandResultSound, IntervalResult
  <2> QED
    BY <2>2, <2>3, NoBuckets, DemandWritten
<1>3. CASE r.valid
  <2>1. PICK w : w = Window(d, r)
    OBVIOUS
  <2>2. /\ WindowSound(w, now, h) /\ w[1] \in Buckets /\ BucketSound(w[1], r.last, h)
    BY <1>1, <2>1, WindowGoesOn
  <2>3. PICK result : result = IF Len(w) = WindowBuckets
                               THEN [tier |-> "demand", valid |-> TRUE,
                                     first |-> w[1].first, last |-> r.last]
                               ELSE Nothing
    OBVIOUS
  <2>4. AfterAggregate(d, r) = Demand(method, w, result)
    BY <1>3, <2>1, <2>3 DEF AfterAggregate, Demand
  <2>5. DemandResultSound(result, h)
    <3>1. CASE Len(w) = WindowBuckets
      <4>1. /\ result.tier = "demand" /\ result.first = w[1].first /\ result.last = r.last
        BY <2>3, <3>1
      <4>2. w[1].first \in Int /\ r.last \in Int
        BY <2>2 DEF Buckets, IntervalResult
      <4>3. BucketSound(result, r.last, h)
        BY <2>2, <4>1 DEF BucketSound
      <4> QED
        BY <4>1, <4>2, <4>3 DEF DemandResultSound
    <3>2. CASE Len(w) # WindowBuckets
      BY <2>3, <3>2 DEF DemandResultSound
    <3> QED
      BY <3>1, <3>2
  <2> QED
    BY <2>2, <2>4, <2>5, DemandWritten
<1> QED
  BY <1>2, <1>3

LEMMA TenMinutesDemanded ==
  ASSUME NEW method \in Methods, NEW buckets, NEW d, d = Demand(method, buckets, Nothing),
         NEW r, NEW now \in Int, NEW h \in Histories,
         WindowSound(buckets, now, h), IntervalResult(r, now, h)
  PROVE  DemandSound(AfterTenMinutes(d, r), now, h)
<1>1. PICK result : result = [tier |-> "demand", valid |-> r.aligned /\ r.valid,
                              first |-> r.first, last |-> r.last]
  OBVIOUS
<1>2. AfterTenMinutes(d, r) = Demand(method, buckets, result)
  BY <1>1 DEF AfterTenMinutes, Demand
<1>3. result.tier = "demand" /\ result.first = r.first /\ result.last = r.last
  BY <1>1
<1>4. h.cut \in Int /\ h.unlocked \in Int
  BY DEF Histories
<1>5. DemandResultSound(result, h)
  BY <1>3, <1>4 DEF DemandResultSound, BucketSound, IntervalResult
<1> QED
  BY <1>2, <1>5, DemandWritten

(* Whatever is published, the demand stays sound.                          *)
LEMMA Observed ==
  ASSUME NEW d, NEW r, NEW now \in Int, NEW next \in Int, NEW h \in Histories,
         NEW g \in Histories, DemandSound(d, now, h), Moved(h, g, now), now <= next,
         OutputSound(r, next, g)
  PROVE  DemandSound(Demanded(d, r), next, g)
<1>1. PICK method \in Methods : method = d.method
  BY DEF DemandSound
<1>2. PICK buckets : buckets = d.buckets
  OBVIOUS
<1>3. WindowSound(buckets, next, g)
  BY <1>2, WindowMoves DEF DemandSound
<1>4. PICK q : q = QuietDemand(d)
  OBVIOUS
<1>5. q = Demand(method, buckets, Nothing)
  BY <1>1, <1>2, <1>4 DEF DemandSound, QuietDemand, Demand
<1>6. CASE r.tier = "aggregate" /\ d.method = "sliding"
  <2>1. IntervalResult(r, next, g) /\ r.settings \in Settings /\ r.valid \in BOOLEAN
    BY <1>6 DEF OutputSound, Nothing, BasicResults
  <2>2. DemandSound(AfterAggregate(q, r), next, g)
    BY <1>3, <1>5, <2>1, AggregateDemanded
  <2> QED
    BY <1>4, <1>6, <2>2 DEF Demanded
<1>7. CASE r.tier = "ten" /\ d.method = "fixed"
  <2>1. IntervalResult(r, next, g)
    BY <1>7 DEF OutputSound, Nothing, BasicResults
  <2>2. DemandSound(AfterTenMinutes(q, r), next, g)
    BY <1>3, <1>5, <2>1, TenMinutesDemanded
  <2>3. Demanded(d, r) = AfterTenMinutes(q, r)
    BY <1>4, <1>7 DEF Demanded
  <2> QED
    BY <2>2, <2>3
<1>8. CASE ~(r.tier = "aggregate" /\ d.method = "sliding") /\ ~(r.tier = "ten" /\ d.method = "fixed")
  <2>1. Demanded(d, r) = q
    BY <1>4, <1>8 DEF Demanded
  <2>2. DemandSound(q, next, g)
    BY <1>3, <1>5, DemandWritten DEF DemandResultSound
  <2> QED
    BY <2>1, <2>2
<1> QED
  BY <1>6, <1>7, <1>8

--------------------------------------------------------------------------------
(* The steps of the tiers keep the invariant.                               *)

LEMMA ObserveWritten ==
  ASSUME Observe
  PROVE  energy' = Energised(energy, output') /\ demand' = Demanded(demand, output')
  BY DEF Observe, Energised, Demanded, QuietDemand

LEMMA FrameKeeps ==
  ASSUME MeasurementInvariant, Idle, NEW frame \in Nat, NEW packet \in CyclePackets,
         Process(frame, packet), Observe, ~Stale(frame), feed \in Feeds,
         Now <= FirstSample(packet.cycle)
  PROVE  /\ MeasurementInvariant' /\ Now' = FirstSample(packet.cycle + 1)
         /\ feed' = [last |-> frame, reported |-> FALSE]
<1> DEFINE holds == packet.gap \/ HoleBefore(frame) \/ feed.reported
<1>1. PICK gap \in BOOLEAN : gap = holds
  BY DEF CyclePackets, Feeds, HoleBefore
<1>2. PICK x : x = [packet EXCEPT !.gap = gap]
  OBVIOUS
<1>3. x \in CyclePackets /\ x.cycle = packet.cycle
  BY <1>2 DEF CyclePackets
<1>4. PICK k \in Kernels : k = kernel
  BY DEF MeasurementInvariant
<1>5. PICK h \in Histories : h = history
  BY DEF MeasurementInvariant
<1>6. PICK now \in Int : now = HeardUpTo(k, h)
  BY HeardType
<1>7. Now = now
  BY <1>4, <1>5, <1>6 DEF Now
<1>8. /\ KernelSound(k, now, h) /\ HistorySound(now, h) /\ k.pending = {}
      /\ now <= FirstSample(x.cycle) /\ CascadeSound(k, now)
  BY <1>3, <1>4, <1>5, <1>7 DEF MeasurementInvariant, Idle
<1>9. PICK c \in Kernels : c = Configured(k, x)
  BY <1>3, <1>8, ConfiguredSound
<1>10. PICK g \in Histories : g = Remembered(h, c, x)
  BY <1>3, RememberedFields
<1>11. x = [packet EXCEPT !.gap = @ \/ HoleBefore(frame) \/ feed.reported]
  BY <1>1, <1>2
<1>12. /\ feed' = [last |-> frame, reported |-> FALSE]
       /\ kernel' = Invoke(Configured(kernel, x), x) /\ passes' = 0
       /\ output' = Published(Configured(kernel, x), x)
       /\ history' = Remember(Configured(kernel, x), x)
  BY <1>11 DEF Process
<1>13. /\ kernel' = Invoke(c, x) /\ output' = Published(c, x)
  BY <1>4, <1>9, <1>12
<1>14. history' = g
  BY <1>4, <1>5, <1>9, <1>10, <1>12 DEF Remember, Remembered
<1>15. PICK next \in Int : next = FirstSample(x.cycle + 1)
  BY <1>3, SampleTypes DEF CyclePackets
<1>16. /\ Invoke(c, x) \in Kernels
       /\ FrameSound(k, Invoke(c, x), Published(c, x), now, next, g)
  BY <1>3, <1>6, <1>8, <1>9, <1>10, <1>15, ProcessSound
<1>17. PICK m \in Kernels : m = Invoke(c, x)
  BY <1>16
<1>18. PICK p : p = Published(c, x)
  OBVIOUS
<1>19. FrameSound(k, m, p, now, next, g)
  BY <1>16, <1>17, <1>18
<1>20. /\ KernelSound(m, next, g) /\ HistorySound(next, g) /\ HeardUpTo(m, g) = next
       /\ OutputSound(p, next, g)
  BY <1>19 DEF FrameSound, OutputSound
<1>21. now <= next
  <2>1. x.cycle \in Int
    BY <1>3 DEF CyclePackets
  <2>2. PICK n \in Int : n = FirstSample(x.cycle)
    BY <2>1, SampleTypes
  <2> QED
    BY <1>8, <1>15, <2>1, <2>2, SampleArithmetic, SampleTypes
<1>22. Moved(h, g, now)
  BY <1>3, <1>8, <1>10, RememberedMoves
<1>23. PICK e \in EnergyStates : e = energy
  BY DEF MeasurementInvariant
<1>24. EnergySound(e, k, now)
  BY <1>4, <1>7, <1>23 DEF MeasurementInvariant
<1>25. PICK i \in EnergyStates : i = Energised(e, p) /\ EnergySound(i, m, next)
  BY <1>19, <1>24, FrameEnergised
<1>26. PICK d : d = demand
  OBVIOUS
<1>27. DemandSound(d, now, h)
  BY <1>5, <1>7, <1>26 DEF MeasurementInvariant
<1>28. DemandSound(Demanded(d, p), next, g)
  BY <1>20, <1>21, <1>22, <1>27, Observed
<1>29. energy' = i /\ demand' = Demanded(d, p)
  BY <1>13, <1>18, <1>23, <1>25, <1>26, ObserveWritten
<1>30. Now' = next
  BY <1>13, <1>14, <1>17, <1>20 DEF Now
<1>31. PassesInOrder'
  <2>1. ASSUME NEW q \in 0 .. 4
        PROVE  0 <= q
    OBVIOUS
  <2>2. kernel'.pending \in SUBSET (0 .. 4)
    BY <1>13, <1>17, KernelParts
  <2> QED
    BY <1>12, <2>1, <2>2 DEF PassesInOrder
<1>32. CascadeSound(m, next)
  BY <1>3, <1>6, <1>8, <1>9, <1>10, <1>15, <1>17, FrameCascade
<1>33. MeasurementInvariant'
  BY <1>13, <1>14, <1>17, <1>18, <1>20, <1>25, <1>28, <1>29, <1>30, <1>31, <1>32
     DEF MeasurementInvariant
<1> QED
  BY <1>3, <1>12, <1>15, <1>30, <1>33

(* A frame that is not newer than the last one changes nothing.             *)
LEMMA StaleKeeps ==
  ASSUME MeasurementInvariant, NEW frame, NEW packet, Process(frame, packet), Observe, Stale(frame)
  PROVE  MeasurementInvariant' /\ Now' = Now /\ feed' = feed
<1>1. output' = Nothing /\ UNCHANGED <<feed, kernel, passes, history>>
  BY DEF Process
<1>2. Now' = Now
  BY <1>1 DEF Now
<1>3. PICK h \in Histories : h = history
  BY DEF MeasurementInvariant
<1>4. PICK now \in Int : now = Now
  BY HeardType DEF Now, MeasurementInvariant
<1>5. PICK d : d = demand
  OBVIOUS
<1>6. OutputSound(Nothing, now, h)
  BY DEF OutputSound
<1>7. Moved(h, h, now)
  BY DEF Moved
<1>8. DemandSound(d, now, h)
  BY <1>3, <1>4, <1>5 DEF MeasurementInvariant
<1>9. PICK p : p = Nothing
  OBVIOUS
<1>10. DemandSound(Demanded(d, p), now, h)
  BY <1>6, <1>7, <1>8, <1>9, Observed
<1>11. demand' = Demanded(d, p) /\ energy' = energy
  BY <1>1, <1>5, <1>9, ObserveWritten DEF Energised, Nothing
<1>12. PassesInOrder'
  BY <1>1 DEF PassesInOrder, MeasurementInvariant
<1>13. DemandSound(demand, Now, history)'
  BY <1>1, <1>2, <1>3, <1>4, <1>10, <1>11
<1>14. OutputSound(output, Now, history)'
  BY <1>1 DEF OutputSound
<1> QED
  BY <1>1, <1>2, <1>11, <1>12, <1>13, <1>14 DEF MeasurementInvariant

LEMMA PassKeepsInvariant ==
  ASSUME MeasurementInvariant, DeferredPass, Observe
  PROVE  MeasurementInvariant' /\ Now' = Now /\ UNCHANGED <<source, feed>>
<1>1. PICK h \in Histories : h = history
  BY DEF MeasurementInvariant
<1>2. PICK now \in Int : now = Now
  BY HeardType DEF Now, MeasurementInvariant
<1>3. kernel \in Kernels /\ KernelSound(kernel, now, h)
  BY <1>1, <1>2 DEF MeasurementInvariant
<1>4. PICK pass \in 0 .. 4 : /\ Turn(pass) /\ PassSound(now, h)
                             /\ \A q \in kernel'.pending : pass + 1 <= q
  <2>1. CASE FinishAggregate
    <3>1. PassSound(now, h) /\ kernel'.pending \subseteq 1 .. 4
      BY <1>3, <2>1, AggregatePass
    <3>2. \A q \in kernel'.pending : 0 + 1 <= q
      BY <3>1
    <3>3. Turn(Aggregate) /\ Aggregate \in 0 .. 4 /\ Aggregate = 0
      BY <2>1, PassNumbers DEF FinishAggregate
    <3> QED
      BY <3>1, <3>2, <3>3
  <2>2. CASE FinishTenMinutes
    <3>1. PassSound(now, h) /\ kernel'.pending \subseteq 2 .. 4
      BY <1>3, <2>2, TenMinutePass
    <3>2. \A q \in kernel'.pending : 1 + 1 <= q
      BY <3>1
    <3>3. Turn(TenMinute) /\ TenMinute \in 0 .. 4 /\ TenMinute = 1
      BY <2>2, PassNumbers DEF FinishTenMinutes
    <3> QED
      BY <3>1, <3>2, <3>3
  <2>3. CASE FinishTwoHours
    <3>1. PassSound(now, h) /\ kernel'.pending \subseteq 3 .. 4
      BY <1>3, <2>3, TwoHourPass
    <3>2. \A q \in kernel'.pending : 2 + 1 <= q
      BY <3>1
    <3>3. Turn(TwoHour) /\ TwoHour \in 0 .. 4 /\ TwoHour = 2
      BY <2>3, PassNumbers DEF FinishTwoHours
    <3> QED
      BY <3>1, <3>2, <3>3
  <2>4. CASE PreviewTenMinutes
    <3>1. PassSound(now, h) /\ kernel'.pending \subseteq {4}
      BY <1>3, <2>4, PreviewTenPass
    <3>2. \A q \in kernel'.pending : 3 + 1 <= q
      BY <3>1
    <3>3. Turn(OpenTen) /\ OpenTen \in 0 .. 4 /\ OpenTen = 3
      BY <2>4, PassNumbers DEF PreviewTenMinutes
    <3> QED
      BY <3>1, <3>2, <3>3
  <2>5. CASE PreviewTwoHours
    <3>1. PassSound(now, h) /\ kernel'.pending = {}
      BY <1>3, <2>5, PreviewTwoPass
    <3>2. Turn(OpenTwo) /\ OpenTwo \in 0 .. 4
      BY <2>5, PassNumbers DEF PreviewTwoHours
    <3> QED
      BY <3>1, <3>2
  <2> QED
    BY <2>1, <2>2, <2>3, <2>4, <2>5 DEF DeferredPass
<1>5. UNCHANGED <<source, feed, history>> /\ passes' = passes + 1 /\ pass \in kernel.pending
  BY <1>4 DEF Turn
<1>6. PICK k \in Kernels : k = kernel
  BY <1>3
<1>7. PICK m \in Kernels : m = kernel'
  BY <1>4 DEF PassSound
<1>8. PICK p : p = output'
  OBVIOUS
<1>9. /\ KernelSound(m, now, h) /\ OutputSound(p, now, h) /\ p.tier # "basic"
      /\ m.primary = k.primary /\ m.disc = k.disc /\ m.expected = k.expected
      /\ m.sequence = k.sequence
  BY <1>4, <1>6, <1>7, <1>8 DEF PassSound
<1>10. Now' = Now
  BY <1>5, <1>6, <1>7, <1>9 DEF Now, HeardUpTo
<1>11. PICK e \in EnergyStates : e = energy
  BY DEF MeasurementInvariant
<1>12. EnergySound(e, k, now)
  BY <1>2, <1>6, <1>11 DEF MeasurementInvariant
<1>13. PICK i \in EnergyStates : i = Energised(e, p) /\ EnergySound(i, m, now)
  BY <1>9, <1>12, PassEnergised
<1>14. PICK d : d = demand
  OBVIOUS
<1>15. DemandSound(d, now, h)
  BY <1>1, <1>2, <1>14 DEF MeasurementInvariant
<1>16. Moved(h, h, now)
  BY DEF Moved
<1>17. DemandSound(Demanded(d, p), now, h)
  BY <1>9, <1>15, <1>16, Observed
<1>18. energy' = i /\ demand' = Demanded(d, p)
  BY <1>8, <1>11, <1>13, <1>14, ObserveWritten
<1>19. PassesInOrder'
  <2>1. passes \in 0 .. 5 /\ passes <= pass
    BY <1>5 DEF MeasurementInvariant, PassesInOrder
  <2>2. m.pending \in SUBSET (0 .. 4)
    BY KernelParts
  <2>3. ASSUME NEW q \in m.pending
        PROVE  passes + 1 <= q
    <3>1. pass + 1 <= q /\ q \in 0 .. 4
      BY <1>4, <1>7, <2>2, <2>3
    <3> QED
      BY <2>1, <3>1
  <2>4. passes + 1 \in 0 .. 5
    BY <2>1
  <2> QED
    BY <1>5, <1>7, <2>3, <2>4 DEF PassesInOrder
<1>20. history' = h /\ Now' = now /\ HistorySound(now, h)
  BY <1>1, <1>2, <1>5, <1>10 DEF MeasurementInvariant
<1>21. CascadeSound(m, now)
  BY <1>2, <1>3, <1>7, PassCascade DEF MeasurementInvariant
<1>22. MeasurementInvariant'
  BY <1>7, <1>8, <1>9, <1>13, <1>17, <1>18, <1>19, <1>20, <1>21 DEF MeasurementInvariant
<1> QED
  BY <1>5, <1>10, <1>22

--------------------------------------------------------------------------------
LEMMA PacketType ==
  ASSUME NEW s \in CycleSources, source = s, NEW cycle \in Nat
  PROVE  /\ Packet(cycle) \in CyclePackets /\ Packet(cycle).cycle = cycle
         /\ \A flaw : LET q == [Packet(cycle) EXCEPT !.gap = (flaw = "gap"),
                                  !.locked = (flaw # "unlocked"), !.valid = (flaw # "invalid")]
                      IN q \in CyclePackets /\ q.cycle = cycle
<1>1. /\ s.nominal \in Nominals /\ s.generation \in Nat /\ s.enable \in BOOLEAN
      /\ s.update \in {0, 1} /\ s.target \in Int
  BY DEF CycleSources
<1>2. PICK p : p = Packet(cycle)
  OBVIOUS
<1>3. p \in CyclePackets /\ p.cycle = cycle
  BY <1>1, <1>2 DEF Packet, CyclePackets
<1>4. ASSUME NEW flaw
      PROVE  LET q == [p EXCEPT !.gap = (flaw = "gap"), !.locked = (flaw # "unlocked"),
                                !.valid = (flaw # "invalid")]
             IN q \in CyclePackets /\ q.cycle = cycle
  BY <1>3 DEF CyclePackets
<1> QED
  BY <1>2, <1>3, <1>4

(* Where the samples of the cycles lie that are still to come.              *)
LEMMA InOrder ==
  ASSUME NEW s \in CycleSources, NEW f \in Feeds, NEW now \in Int, FeedInOrder(s, f, now)
  PROVE  /\ now <= FirstSample(s.cycle) /\ s.frame \in Nat /\ s.cycle \in Nat
         /\ f.last < s.frame
         /\ s.frame > 0 /\ ~(f.last # None /\ s.frame - 1 <= f.last)
              => now <= FirstSample(s.cycle - 1)
<1>1. /\ s.frame \in Nat /\ s.cycle \in Nat /\ f.last \in Int
  BY DEF CycleSources, Feeds
<1>2. /\ -1 <= f.last /\ f.last < s.frame /\ s.frame <= s.cycle
      /\ now <= FirstSample(s.cycle + 1 + f.last - s.frame)
  BY DEF FeedInOrder, None
<1>3. PICK c \in Int : c = s.cycle + 1 + f.last - s.frame
  BY <1>1
<1>4. now <= FirstSample(c) /\ FirstSample(c) \in Int /\ c <= s.cycle
  BY <1>1, <1>2, <1>3, SampleTypes
<1>5. FirstSample(c) <= FirstSample(s.cycle) /\ FirstSample(s.cycle) \in Int
  BY <1>1, <1>4, SampleOrder, SampleTypes
<1>6. ASSUME s.frame > 0, ~(f.last # None /\ s.frame - 1 <= f.last)
      PROVE  now <= FirstSample(s.cycle - 1)
  <2>1. c <= s.cycle - 1 /\ s.cycle - 1 \in Int
    BY <1>1, <1>2, <1>3, <1>6 DEF None
  <2>2. FirstSample(c) <= FirstSample(s.cycle - 1) /\ FirstSample(s.cycle - 1) \in Int
    BY <2>1, SampleOrder, SampleTypes
  <2> QED
    BY <1>4, <2>2
<1> QED
  BY <1>1, <1>2, <1>4, <1>5, <1>6

FeedAfter(frame) == [last |-> frame, reported |-> FALSE]

LEMMA FeedAfterFields ==
  ASSUME NEW frame \in Nat
  PROVE  FeedAfter(frame) \in Feeds /\ FeedAfter(frame).last = frame
  BY DEF FeedAfter, Feeds

LEMMA ArrivalKeeps ==
  ASSUME TierInvariant, Idle, NEW packet \in CyclePackets, packet.cycle = source.cycle,
         Process(source.frame, packet), Observe,
         source' = [source EXCEPT !.frame = @ + 1, !.cycle = @ + 1]
  PROVE  TierInvariant'
<1>1. PICK s \in CycleSources : s = source
  BY DEF TierInvariant
<1>2. PICK f \in Feeds : f = feed
  BY DEF TierInvariant
<1>3. PICK now \in Int : now = Now
  BY HeardType DEF Now, TierInvariant, MeasurementInvariant
<1>4. FeedInOrder(s, f, now)
  BY <1>1, <1>2, <1>3 DEF TierInvariant
<1>5. now <= FirstSample(s.cycle) /\ s.frame \in Nat /\ s.cycle \in Nat /\ f.last < s.frame
  BY <1>4, InOrder
<1>6. ~Stale(source.frame)
  BY <1>1, <1>2, <1>5 DEF Stale, Feeds
<1>7. /\ MeasurementInvariant' /\ Now' = FirstSample(packet.cycle + 1)
      /\ feed' = [last |-> source.frame, reported |-> FALSE]
  <2>1. PICK frame \in Nat : frame = source.frame
    BY <1>1, <1>5
  <2>2. MeasurementInvariant /\ feed \in Feeds
    BY DEF TierInvariant
  <2>3. Now <= FirstSample(packet.cycle)
    BY <1>1, <1>3, <1>5
  <2>4. Process(frame, packet) /\ ~Stale(frame)
    BY <1>6, <2>1
  <2>5. /\ MeasurementInvariant' /\ Now' = FirstSample(packet.cycle + 1)
        /\ feed' = [last |-> frame, reported |-> FALSE]
    BY <2>2, <2>3, <2>4, FrameKeeps
  <2> QED
    BY <2>1, <2>5
<1>8. PICK t \in CycleSources : t = source' /\ t.frame = s.frame + 1 /\ t.cycle = s.cycle + 1
  <2>1. PICK frame \in Nat : frame = s.frame + 1
    BY <1>5
  <2>2. PICK cycle \in Nat : cycle = s.cycle + 1
    BY <1>5
  <2>3. PICK t : t = [s EXCEPT !.frame = frame, !.cycle = cycle]
    OBVIOUS
  <2>4. t \in CycleSources /\ t.frame = frame /\ t.cycle = cycle
    BY <2>3 DEF CycleSources
  <2>5. source' = t
    BY <1>1, <2>1, <2>2, <2>3
  <2> QED
    BY <2>1, <2>2, <2>4, <2>5
<1>9. PICK g \in Feeds : g = feed' /\ g.last = s.frame
  <2>1. PICK frame \in Nat : frame = s.frame
    BY <1>5
  <2>2. PICK g : g = FeedAfter(frame)
    OBVIOUS
  <2>3. feed' = g
    BY <1>1, <1>7, <2>1, <2>2 DEF FeedAfter
  <2> QED
    BY <2>1, <2>2, <2>3, FeedAfterFields
<1>10. Now' = FirstSample(s.cycle + 1)
  BY <1>1, <1>7
<1>11. t.cycle + 1 + g.last - t.frame = s.cycle + 1
  BY <1>5, <1>8, <1>9
<1>12. FirstSample(s.cycle + 1) \in Int
  BY <1>5, SampleTypes
<1>13. FeedInOrder(t, g, Now')
  <2>1. s.frame <= s.cycle
    BY <1>4 DEF FeedInOrder
  <2>2. None <= g.last /\ g.last < t.frame /\ t.frame <= t.cycle
    BY <1>5, <1>8, <1>9, <2>1 DEF None
  <2> QED
    BY <1>10, <1>11, <1>12, <2>2 DEF FeedInOrder
<1> QED
  BY <1>7, <1>8, <1>9, <1>13 DEF TierInvariant

LEMMA RepeatKeeps ==
  ASSUME TierInvariant, RepeatFrame, Observe
  PROVE  TierInvariant'
<1>1. PICK s \in CycleSources : s = source
  BY DEF TierInvariant
<1>2. PICK f \in Feeds : f = feed
  BY DEF TierInvariant
<1>3. PICK now \in Int : now = Now
  BY HeardType DEF Now, TierInvariant, MeasurementInvariant
<1>4. FeedInOrder(s, f, now)
  BY <1>1, <1>2, <1>3 DEF TierInvariant
<1>5. Idle /\ s.frame > 0 /\ Process(s.frame - 1, Packet(s.cycle - 1)) /\ source' = source
  BY <1>1 DEF RepeatFrame
<1>6. s.frame \in Nat /\ s.cycle \in Nat /\ s.frame <= s.cycle /\ f.last < s.frame
  BY <1>4, InOrder DEF FeedInOrder
<1>7. PICK frame \in Nat : frame = s.frame - 1
  BY <1>5, <1>6
<1>8. PICK cycle \in Nat : cycle = s.cycle - 1
  BY <1>5, <1>6
<1>9. PICK packet \in CyclePackets : packet = Packet(cycle) /\ packet.cycle = cycle
  BY <1>1, PacketType
<1>10. Process(frame, packet)
  BY <1>5, <1>7, <1>8, <1>9
<1>11. CASE Stale(frame)
  <2>1. MeasurementInvariant' /\ Now' = Now /\ feed' = feed
    BY <1>10, <1>11, StaleKeeps DEF TierInvariant
  <2> QED
    BY <1>5, <2>1 DEF TierInvariant
<1>12. CASE ~Stale(frame)
  <2>1. now <= FirstSample(cycle)
    BY <1>2, <1>4, <1>5, <1>7, <1>8, <1>12, InOrder DEF Stale
  <2>2. /\ MeasurementInvariant' /\ Now' = FirstSample(cycle + 1)
        /\ feed' = [last |-> frame, reported |-> FALSE]
    <3>1. MeasurementInvariant /\ feed \in Feeds
      BY DEF TierInvariant
    <3>2. Now <= FirstSample(packet.cycle) /\ packet.cycle + 1 = cycle + 1
      BY <1>3, <1>9, <2>1
    <3>3. /\ MeasurementInvariant' /\ Now' = FirstSample(packet.cycle + 1)
          /\ feed' = [last |-> frame, reported |-> FALSE]
      BY <1>5, <1>10, <1>12, <3>1, <3>2, FrameKeeps
    <3> QED
      BY <3>2, <3>3
  <2>3. PICK g \in Feeds : g = feed' /\ g.last = frame
    BY <2>2, FeedAfterFields DEF FeedAfter
  <2>4. s.cycle + 1 + g.last - s.frame = cycle + 1
    BY <1>6, <1>7, <1>8, <2>3
  <2>5. FirstSample(cycle + 1) \in Int
    BY SampleTypes
  <2>6. None <= g.last /\ g.last < s.frame
    BY <1>6, <1>7, <2>3 DEF None
  <2>7. FeedInOrder(s, g, Now')
    BY <1>6, <2>2, <2>4, <2>5, <2>6 DEF FeedInOrder
  <2> QED
    BY <1>1, <1>5, <2>2, <2>3, <2>7 DEF TierInvariant
<1> QED
  BY <1>11, <1>12

(* What the PL and Linux do leaves the measurement.                         *)
LEMMA InterferenceKeeps ==
  ASSUME TierInvariant, Interference, UNCHANGED energyVars
  PROVE  TierInvariant'
<1>1. PICK s \in CycleSources : s = source
  BY DEF TierInvariant
<1>2. PICK f \in Feeds : f = feed
  BY DEF TierInvariant
<1>3. PICK now \in Int : now = Now
  BY HeardType DEF Now, TierInvariant, MeasurementInvariant
<1>4. FeedInOrder(s, f, now)
  BY <1>1, <1>2, <1>3 DEF TierInvariant
<1>5. s.frame \in Nat /\ s.cycle \in Nat /\ f.last \in Int
  BY DEF CycleSources, Feeds
<1>6. PICK before \in Int : before = s.cycle + 1 + f.last - s.frame
  BY <1>5
<1>7. /\ None <= f.last /\ f.last < s.frame /\ s.frame <= s.cycle /\ now <= FirstSample(before)
  BY <1>4, <1>6 DEF FeedInOrder
<1>8. UNCHANGED <<kernel, passes, output, history, energy, demand>>
  BY DEF Interference, LoseFrames, DropCycle, ReportDiscontinuity, ChangeNominal, Configure,
         SetMark, energyVars
<1>9. MeasurementInvariant' /\ Now' = now
  <2>1. Now' = Now
    BY <1>8 DEF Now
  <2> QED
    BY <1>3, <1>8, <2>1 DEF TierInvariant, MeasurementInvariant, PassesInOrder, OutputSound
<1>10. ASSUME NEW t \in CycleSources, source' = t, NEW g \in Feeds, feed' = g, g.last = f.last,
              t.frame >= s.frame, t.frame <= t.cycle, t.cycle - t.frame >= s.cycle - s.frame
       PROVE  TierInvariant'
  <2>1. t.frame \in Nat /\ t.cycle \in Nat
    BY DEF CycleSources
  <2>2. PICK after \in Int : after = t.cycle + 1 + g.last - t.frame
    BY <1>5, <1>10, <2>1
  <2>3. before <= after
    BY <1>5, <1>6, <1>10, <2>1, <2>2
  <2>4. FirstSample(before) <= FirstSample(after) /\ FirstSample(before) \in Int
        /\ FirstSample(after) \in Int
    BY <2>3, SampleOrder, SampleTypes
  <2>5. FeedInOrder(t, g, now)
    <3>1. None <= g.last /\ g.last < t.frame
      BY <1>5, <1>7, <1>10, <2>1
    <3>2. now <= FirstSample(t.cycle + 1 + g.last - t.frame)
      BY <1>7, <2>2, <2>4
    <3> QED
      BY <1>10, <3>1, <3>2 DEF FeedInOrder
  <2> QED
    BY <1>9, <1>10, <2>5 DEF TierInvariant
<1>11. ASSUME NEW cycles \in {1, MaxCycles \div 2}, LoseFrames(cycles)
       PROVE  TierInvariant'
  <2>1. PICK n \in Nat : n = cycles
    <3>1. MaxCycles \in Nat
      BY TierAssumption
    <3>2. MaxCycles \div 2 \in Nat
      BY <3>1
    <3> QED
      BY <1>11, <3>2
  <2>2. PICK t : t = source'
    OBVIOUS
  <2>3. t \in CycleSources /\ t.frame = s.frame + n /\ t.cycle = s.cycle + n
    <3>1. PICK frame \in Nat : frame = s.frame + n
      BY <1>5, <2>1
    <3>2. PICK cycle \in Nat : cycle = s.cycle + n
      BY <1>5, <2>1
    <3>3. t = [s EXCEPT !.frame = frame, !.cycle = cycle]
      BY <1>1, <1>11, <2>1, <2>2, <3>1, <3>2 DEF LoseFrames
    <3> QED
      BY <3>1, <3>2, <3>3 DEF CycleSources
  <2>4. feed' = f
    BY <1>2, <1>11 DEF LoseFrames
  <2> QED
    BY <1>5, <1>7, <1>10, <2>1, <2>2, <2>3, <2>4
<1>12. CASE DropCycle
  <2>1. PICK t : t = source'
    OBVIOUS
  <2>2. t \in CycleSources /\ t.frame = s.frame /\ t.cycle = s.cycle + 1
    BY <1>1, <1>12, <2>1 DEF DropCycle, CycleSources
  <2>3. feed' = f
    BY <1>2, <1>12 DEF DropCycle
  <2> QED
    BY <1>5, <1>7, <1>10, <2>1, <2>2, <2>3
<1>13. CASE ReportDiscontinuity
  <2>1. PICK g : g = feed'
    OBVIOUS
  <2>2. g \in Feeds /\ g.last = f.last
    BY <1>2, <1>13, <2>1 DEF ReportDiscontinuity, Feeds
  <2>3. source' = s
    BY <1>1, <1>13 DEF ReportDiscontinuity
  <2> QED
    BY <1>5, <1>7, <1>10, <2>1, <2>2, <2>3
<1>14. CASE ChangeNominal
  <2>1. PICK t : t = source'
    OBVIOUS
  <2>2. t \in CycleSources /\ t.frame = s.frame /\ t.cycle = s.cycle
    BY <1>1, <1>14, <2>1 DEF ChangeNominal, CycleSources
  <2>3. feed' = f
    BY <1>2, <1>14 DEF ChangeNominal
  <2> QED
    BY <1>5, <1>7, <1>10, <2>1, <2>2, <2>3
<1>15. CASE Configure
  <2>1. PICK t : t = source'
    OBVIOUS
  <2>2. t \in CycleSources /\ t.frame = s.frame /\ t.cycle = s.cycle
    <3>1. PICK enable \in BOOLEAN : source' = [s EXCEPT !.generation = @ + 1, !.enable = enable]
      BY <1>1, <1>15 DEF Configure
    <3>2. PICK generation \in Nat : generation = s.generation + 1
      BY DEF CycleSources
    <3>3. t = [s EXCEPT !.generation = generation, !.enable = enable]
      BY <2>1, <3>1, <3>2
    <3> QED
      BY <3>3 DEF CycleSources
  <2>3. feed' = f
    BY <1>2, <1>15 DEF Configure
  <2> QED
    BY <1>5, <1>7, <1>10, <2>1, <2>2, <2>3
<1>16. CASE SetMark
  <2>1. PICK t : t = source'
    OBVIOUS
  <2>2. t \in CycleSources /\ t.frame = s.frame /\ t.cycle = s.cycle
    <3>1. PICK target \in {FirstSample(source.cycle) + d : d \in MarkOffsets} \cap Nat :
            source' = [s EXCEPT !.update = 1 - @, !.target = target]
      BY <1>1, <1>16 DEF SetMark
    <3>2. PICK update \in {0, 1} : update = 1 - s.update
      BY DEF CycleSources
    <3>3. t = [s EXCEPT !.update = update, !.target = target]
      BY <2>1, <3>1, <3>2
    <3>4. target \in Int
      BY <3>1
    <3> QED
      BY <3>3, <3>4 DEF CycleSources
  <2>3. feed' = f
    BY <1>2, <1>16 DEF SetMark
  <2> QED
    BY <1>5, <1>7, <1>10, <2>1, <2>2, <2>3
<1> QED
  BY <1>11, <1>12, <1>13, <1>14, <1>15, <1>16 DEF Interference

LEMMA ProfileKeeps ==
  ASSUME TierInvariant, ApplyProfile
  PROVE  TierInvariant'
<1>1. UNCHANGED <<source, feed, kernel, passes, output, history, energy>>
  BY DEF ApplyProfile
<1>2. PICK method \in Methods : demand' = Demand(method, <<>>, Nothing)
  BY DEF ApplyProfile, Methods, Demand
<1>3. Now' = Now
  BY <1>1 DEF Now
<1>4. PICK now : now = Now
  OBVIOUS
<1>5. PICK h : h = history
  OBVIOUS
<1>6. DemandSound(Demand(method, <<>>, Nothing), now, h)
  BY NoBuckets, DemandWritten DEF DemandResultSound
<1>7. DemandSound(demand, Now, history)'
  BY <1>1, <1>2, <1>3, <1>4, <1>5, <1>6
<1> QED
  BY <1>1, <1>3, <1>7 DEF TierInvariant, MeasurementInvariant, PassesInOrder, OutputSound

LEMMA TierStep ==
  ASSUME TierInvariant, TierNext
  PROVE  TierInvariant'
<1>1. PICK s \in CycleSources : s = source
  BY DEF TierInvariant
<1>2. s.cycle \in Nat
  BY DEF CycleSources
<1>3. CASE Cycle /\ Observe
  <2>1. PICK packet \in CyclePackets : packet = Packet(s.cycle) /\ packet.cycle = s.cycle
    BY <1>1, <1>2, PacketType
  <2> QED
    BY <1>1, <1>3, <2>1, ArrivalKeeps DEF Cycle
<1>4. CASE FlawedCycle /\ Observe
  <2>1. PICK flaw : Process(source.frame, [Packet(source.cycle) EXCEPT !.gap = (flaw = "gap"),
                              !.locked = (flaw # "unlocked"), !.valid = (flaw # "invalid")])
    BY <1>4 DEF FlawedCycle
  <2>2. PICK packet : packet = [Packet(s.cycle) EXCEPT !.gap = (flaw = "gap"),
                              !.locked = (flaw # "unlocked"), !.valid = (flaw # "invalid")]
    OBVIOUS
  <2>3. packet \in CyclePackets /\ packet.cycle = s.cycle
    BY <1>1, <1>2, <2>2, PacketType
  <2>4. Process(source.frame, packet)
    BY <1>1, <2>1, <2>2
  <2> QED
    BY <1>1, <1>4, <2>3, <2>4, ArrivalKeeps DEF FlawedCycle
<1>5. CASE RepeatFrame /\ Observe
  BY <1>5, RepeatKeeps
<1>6. CASE DeferredPass /\ Observe
  <2>1. MeasurementInvariant' /\ Now' = Now /\ UNCHANGED <<source, feed>>
    BY <1>6, PassKeepsInvariant DEF TierInvariant
  <2> QED
    BY <2>1 DEF TierInvariant
<1>7. CASE Interference /\ UNCHANGED energyVars
  BY <1>7, InterferenceKeeps
<1>8. CASE ApplyProfile
  BY <1>8, ProfileKeeps
<1> QED
  BY <1>3, <1>4, <1>5, <1>6, <1>7, <1>8 DEF TierNext, CycleArrives

LEMMA KernelBegins ==
  ASSUME Init
  PROVE  kernel \in Kernels /\ KernelSound(kernel, 0, history)
<1>1. PICK k : k = kernel
  OBVIOUS
<1>2. PICK ten : ten = [blocks |-> 0, settings |-> <<0, 50>>, first |-> 0, last |-> 0,
                        samples |-> 0, valid |-> TRUE, nextSeq |-> 0, nextFirst |-> 0,
                        target |-> None, closed |-> None, contaminated |-> TRUE, sequence |-> 0]
  OBVIOUS
<1>3. ten \in TenMinuteSlots /\ ten.blocks = 0
  BY <1>2 DEF TenMinuteSlots, Settings, Nominals, None
<1>4. PICK two : two = [intervals |-> 0, settings |-> <<0, 50>>, first |-> 0, last |-> 0,
                        samples |-> 0, nextSeq |-> 0, nextFirst |-> 0, closed |-> None]
  OBVIOUS
<1>5. two \in TwoHourSlots /\ two.intervals = 0
  BY <1>4 DEF TwoHourSlots, Settings, Nominals, None
<1>6. k = [toggle |-> 0, generation |-> 0, enable |-> FALSE, update |-> 0,
           expected |-> None, disc |-> TRUE, mark |-> None, sequence |-> 0,
           primary |-> NoBlock, shadow |-> NoBlock, open |-> NoSlot, openShadow |-> NoSlot,
           closed |-> NoSlot, syncSeed |-> FALSE, ten |-> ten, two |-> two, pending |-> {}]
  BY <1>1, <1>2, <1>4 DEF Init
<1>7. k \in Kernels
  BY <1>3, <1>5, <1>6, EmptyTypes DEF Kernels, None
<1>8. /\ k.primary = NoBlock /\ k.shadow = NoBlock /\ k.open = NoSlot /\ k.openShadow = NoSlot
      /\ k.disc /\ ~k.enable /\ k.expected = None /\ k.ten = ten /\ k.two = two /\ k.pending = {}
  BY <1>6
<1>9. PICK h : h = history
  OBVIOUS
<1>10. BlocksSound(k, 0, h) /\ BlockOpen(k) /\ Expecting(k)
  BY <1>8, EmptyTypes, EmptyBlockOpen DEF BlocksSound, BlockOpen, Expecting
<1>11. AggregatesSound(k, 0, h)
  BY <1>8, EmptyTypes, TierAssumption DEF AggregatesSound
<1>12. TenSound(k, 0, h) /\ TwoSound(k, 0, h)
  BY <1>3, <1>5, <1>8 DEF TenSound, TwoSound
<1>13. PendingSound(k, 0, h)
  BY <1>5, <1>8, TierAssumption DEF PendingSound
<1> QED
  BY <1>1, <1>7, <1>9, <1>10, <1>11, <1>12, <1>13 DEF KernelSound

LEMMA TiersBegin ==
  ASSUME Init, InitEnergy
  PROVE  TierInvariant
<1>1. PICK h : h = history
  OBVIOUS
<1>2. h = [cut |-> 0, changed |-> 0, unlocked |-> None, nominal |-> 50]
  BY <1>1 DEF Init
<1>3. /\ h \in Histories /\ h.cut = 0 /\ h.changed = 0 /\ h.unlocked = -1
  BY <1>2 DEF Histories, Nominals, None
<1>4. kernel.expected = None /\ kernel.pending = {} /\ kernel.disc /\ kernel.sequence = 0
  BY DEF Init
<1>5. Now = 0
  BY <1>1, <1>3, <1>4 DEF Now, HeardUpTo
<1>6. HistorySound(0, h)
  BY <1>3 DEF HistorySound
<1>7. source \in CycleSources /\ feed \in Feeds
  BY DEF Init, CycleSources, Feeds, Nominals, None
<1>8. FeedInOrder(source, feed, 0)
  <2>1. source.cycle = 0 /\ source.frame = 0 /\ feed.last = -1
    BY DEF Init, None
  <2>2. FirstSample(0) = 0
    BY SampleTypes DEF FirstSample
  <2> QED
    BY <2>1, <2>2 DEF FeedInOrder, None
<1>9. PassesInOrder /\ OutputSound(output, 0, h)
  BY <1>4 DEF Init, PassesInOrder, OutputSound
<1>10. energy \in EnergyStates /\ EnergySound(energy, kernel, 0)
  <2>1. energy \in EnergyStates
    BY DEF InitEnergy, EnergyStates, None
  <2>2. /\ ~energy.started /\ energy.last = None /\ energy.accepted = 0 /\ energy.skipped = 0
        /\ energy.acceptedSamples = 0
    BY DEF InitEnergy
  <2> QED
    BY <1>4, <2>1, <2>2 DEF EnergySound, Unstarted, Accounted, None
<1>11. DemandSound(demand, 0, h)
  <2>1. PICK method \in Methods : method = "sliding"
    BY DEF Methods
  <2>2. demand = Demand(method, <<>>, Nothing)
    BY <2>1 DEF InitEnergy, Demand
  <2> QED
    BY <2>2, NoBuckets, DemandWritten DEF DemandResultSound
<1>12. CascadeSound(kernel, 0)
  BY DEF CascadeSound, Init
<1> QED
  BY <1>1, <1>3, <1>5, <1>6, <1>7, <1>8, <1>9, <1>10, <1>11, <1>12, KernelBegins
     DEF TierInvariant, MeasurementInvariant

LEMMA TiersUnchanged ==
  ASSUME TierInvariant, UNCHANGED allTierVars
  PROVE  TierInvariant'
<1>1. /\ UNCHANGED <<source, feed, kernel, passes, output, history, energy, demand>>
  BY DEF allTierVars, tierVars, energyVars
<1>2. Now' = Now
  BY <1>1 DEF Now
<1>3. MeasurementInvariant'
  BY <1>1, <1>2 DEF TierInvariant, MeasurementInvariant, PassesInOrder
<1> QED
  BY <1>1, <1>2, <1>3 DEF TierInvariant

(* The invariant, over every step of the tiers and the demand.              *)
THEOREM TiersSound == TierSpec => []TierInvariant
<1>1. Init /\ InitEnergy => TierInvariant
  BY TiersBegin
<1>2. TierInvariant /\ [TierNext]_allTierVars => TierInvariant'
  <2> SUFFICES ASSUME TierInvariant, [TierNext]_allTierVars
               PROVE  TierInvariant'
    OBVIOUS
  <2>1. CASE TierNext
    BY <2>1, TierStep
  <2>2. CASE UNCHANGED allTierVars
    BY <2>2, TiersUnchanged
  <2> QED
    BY <2>1, <2>2
<1> QED
  BY <1>1, <1>2, PTL DEF TierSpec

--------------------------------------------------------------------------------
(* What the invariant says of the results.                                 *)
LEMMA TierBounds ==
  ASSUME TierInvariant
  PROVE  /\ kernel.pending \subseteq {Aggregate, TenMinute, TwoHour, OpenTen, OpenTwo}
         /\ passes \in 0 .. MaxDeferredPasses
         /\ kernel.pending # {} => passes < MaxDeferredPasses
         /\ kernel.primary.cycles < met_expected_cycles(kernel.primary.nominal)
         /\ kernel.open.blocks \in 0 .. BlocksPerAggregate - 1
         /\ kernel.openShadow.blocks \in 0 .. BlocksPerAggregate - 1
         /\ kernel.two.intervals \in 0 .. IntervalsPerTwoHour
         /\ Len(demand.buckets) \in 0 .. WindowBuckets
<1>1. PICK k \in Kernels : k = kernel
  BY DEF TierInvariant, MeasurementInvariant
<1>2. PICK now : now = Now
  OBVIOUS
<1>3. PICK h : h = history
  OBVIOUS
<1>4. KernelSound(k, now, h) /\ passes \in 0 .. 5 /\ \A p \in k.pending : passes <= p
  BY <1>1, <1>2, <1>3 DEF TierInvariant, MeasurementInvariant, PassesInOrder
<1>5. k.pending \in SUBSET (0 .. 4)
  BY KernelParts
<1>6. MaxDeferredPasses \in Nat /\ MaxDeferredPasses >= 5
  BY TierAssumption
<1>7. k.pending \subseteq {Aggregate, TenMinute, TwoHour, OpenTen, OpenTwo}
  BY <1>5, PassNumbers
<1>8. passes \in 0 .. MaxDeferredPasses
  BY <1>4, <1>6
<1>9. k.pending # {} => passes < MaxDeferredPasses
  <2>1. ASSUME NEW p \in k.pending
        PROVE  passes < MaxDeferredPasses
    <3>1. p \in 0 .. 4 /\ passes <= p
      BY <1>4, <1>5, <2>1
    <3> QED
      BY <1>4, <1>6, <3>1
  <2> QED
    BY <2>1
<1>10. k.primary.cycles < met_expected_cycles(k.primary.nominal)
  BY <1>4 DEF KernelSound, BlockOpen
<1>11. /\ k.open.blocks \in 0 .. BlocksPerAggregate - 1
       /\ k.openShadow.blocks \in 0 .. BlocksPerAggregate - 1
  <2>1. BlocksPerAggregate \in Nat
    BY TierAssumption
  <2>2. k.open.blocks \in Nat /\ k.openShadow.blocks \in Nat
    BY KernelParts DEF AggregateSlots
  <2>3. /\ k.open.blocks < BlocksPerAggregate
        /\ k.openShadow.blocks # 0 => k.openShadow.blocks < k.open.blocks
    BY <1>4 DEF KernelSound, AggregatesSound
  <2> QED
    BY <2>1, <2>2, <2>3
<1>12. k.two.intervals \in 0 .. IntervalsPerTwoHour
  <2>1. k.two.intervals \in Nat /\ IntervalsPerTwoHour \in Nat
    BY KernelParts, TierAssumption DEF TwoHourSlots
  <2>2. k.two.intervals <= IntervalsPerTwoHour
    BY <1>4 DEF KernelSound, PendingSound
  <2> QED
    BY <2>1, <2>2
<1>13. Len(demand.buckets) \in 0 .. WindowBuckets
  <2>1. demand.buckets \in Seq(Buckets) /\ Len(demand.buckets) <= WindowBuckets
    BY DEF TierInvariant, MeasurementInvariant, DemandSound, WindowSound
  <2> QED
    BY <2>1, WindowAssumption
<1> QED
  BY <1>1, <1>7, <1>8, <1>9, <1>10, <1>11, <1>12, <1>13

LEMMA OutputIntervals ==
  ASSUME NEW r, NEW now \in Int, NEW h \in Histories, OutputSound(r, now, h), r # Nothing
  PROVE  /\ r.first \in Int /\ r.last \in Int
         /\ ~(r.first < h.cut /\ h.cut <= r.last)
         /\ ~(r.first < h.changed /\ h.changed <= r.last)
         /\ r.tier # "basic" => ~(r.first <= h.unlocked /\ h.unlocked <= r.last)
<1>1. h.cut \in Int /\ h.changed \in Int /\ h.unlocked \in Int
  BY DEF Histories
<1>2. CASE r \in BasicResults /\ BasicSound(r, now, h)
  BY <1>1, <1>2 DEF BasicResults, BasicSound
<1>3. CASE IntervalResult(r, now, h)
  BY <1>1, <1>3 DEF IntervalResult
<1> QED
  BY <1>2, <1>3 DEF OutputSound

LEMMA ResultsUnbroken ==
  ASSUME TierInvariant
  PROVE  /\ output # Nothing =>
              /\ ~(output.first < history.cut /\ history.cut <= output.last)
              /\ ~(output.first < history.changed /\ history.changed <= output.last)
              /\ output.tier # "basic" =>
                   ~(output.first <= history.unlocked /\ history.unlocked <= output.last)
         /\ demand.result # Nothing /\ demand.result.valid =>
              /\ demand.result.tier = "demand"
              /\ ~(demand.result.first < history.cut /\ history.cut <= demand.result.last)
              /\ ~(demand.result.first <= history.unlocked
                     /\ history.unlocked <= demand.result.last)
<1>1. PICK h \in Histories : h = history
  BY DEF TierInvariant, MeasurementInvariant
<1>2. PICK now \in Int : now = Now
  BY HeardType DEF Now, TierInvariant, MeasurementInvariant
<1>3. PICK r : r = output
  OBVIOUS
<1>4. OutputSound(r, now, h)
  BY <1>1, <1>2, <1>3 DEF TierInvariant, MeasurementInvariant
<1>5. r # Nothing =>
        /\ ~(r.first < h.cut /\ h.cut <= r.last)
        /\ ~(r.first < h.changed /\ h.changed <= r.last)
        /\ r.tier # "basic" => ~(r.first <= h.unlocked /\ h.unlocked <= r.last)
  BY <1>4, OutputIntervals
<1>6. PICK d : d = demand.result
  OBVIOUS
<1>7. DemandResultSound(d, h)
  BY <1>1, <1>6 DEF TierInvariant, MeasurementInvariant, DemandSound
<1>8. h.cut \in Int /\ h.unlocked \in Int
  BY DEF Histories
<1>9. d # Nothing /\ d.valid =>
        /\ d.tier = "demand" /\ ~(d.first < h.cut /\ h.cut <= d.last)
        /\ ~(d.first <= h.unlocked /\ h.unlocked <= d.last)
  BY <1>7, <1>8 DEF DemandResultSound, BucketSound
<1> QED
  BY <1>1, <1>3, <1>5, <1>6, <1>9

LEMMA ResultsCountOnce ==
  ASSUME TierInvariant
  PROVE  /\ output.tier \in {"basic", "ten", "two"} =>
              output.samples = output.last - output.first + 1
         /\ output.tier = "aggregate" =>
              output.overlap \/ output.samples = output.last - output.first + 1
<1>1. PICK h : h = history
  OBVIOUS
<1>2. PICK now \in Int : now = Now
  BY HeardType DEF Now, TierInvariant, MeasurementInvariant
<1>3. PICK r : r = output
  OBVIOUS
<1>4. OutputSound(r, now, h)
  BY <1>1, <1>2, <1>3 DEF TierInvariant, MeasurementInvariant
<1>5. CASE r = Nothing
  BY <1>3, <1>5 DEF Nothing
<1>6. CASE r \in BasicResults /\ BasicSound(r, now, h)
  <2>1. r.samples = r.last - r.first + 1 /\ r.tier = "basic"
    BY <1>6 DEF BasicResults, BasicSound
  <2> QED
    BY <1>3, <2>1
<1>7. CASE r.tier = "aggregate" /\ (r.overlap \/ Once(r))
  BY <1>3, <1>7 DEF Once
<1>8. CASE r.tier \in {"ten", "two"} /\ Once(r)
  BY <1>3, <1>8 DEF Once
<1>9. CASE r.tier \in {"openTen", "openTwo"}
  BY <1>3, <1>9
<1> QED
  BY <1>4, <1>5, <1>6, <1>7, <1>8, <1>9 DEF OutputSound

LEMMA BlocksAccounted ==
  ASSUME TierInvariant, energy.started
  PROVE  /\ energy.accepted + energy.skipped = energy.last - energy.firstBlock + 1
         /\ energy.incomplete \/ energy.acceptedSamples >= energy.lastSample - energy.first + 1
  BY DEF TierInvariant, MeasurementInvariant, EnergySound, Accounted
--------------------------------------------------------------------------------
(* Only the pass of the ten-minute interval publishes one.                 *)
LEMMA TenMinutesArePublished ==
  ASSUME TierInvariant, TierNext, output' # output, output'.tier = "ten"
  PROVE  FinishTenMinutes
<1>1. ASSUME NEW frame, NEW packet, Process(frame, packet)
      PROVE  FALSE
  <2>1. output' = Nothing \/ output'.tier = "basic"
    BY <1>1 DEF Process, Published, BasicResult
  <2> QED
    BY <2>1 DEF Nothing
<1>2. ~CycleArrives
  BY <1>1 DEF CycleArrives, Cycle, FlawedCycle, RepeatFrame
<1>3. ~Interference
  BY DEF Interference, LoseFrames, DropCycle, ReportDiscontinuity, ChangeNominal, Configure, SetMark
<1>4. ~ApplyProfile
  BY DEF ApplyProfile
<1>5. ~FinishAggregate /\ ~FinishTwoHours
  BY DEF FinishAggregate, FinishTwoHours
<1>6. ~PreviewTenMinutes /\ ~PreviewTwoHours
  BY DEF PreviewTenMinutes, PreviewTwoHours, OpenInterval
<1> QED
  BY <1>2, <1>3, <1>4, <1>5, <1>6 DEF TierNext, DeferredPass

LEMMA ChainBreaksOnOverlap ==
  ASSUME TierInvariant, TierNext, output' # output, output'.tier = "ten", output'.aligned,
         kernel.two.intervals # 0, output'.settings = kernel.two.settings
  PROVE  \/ kernel'.two.intervals = kernel.two.intervals + 1
         \/ output'.first < kernel.two.nextFirst
<1>1. FinishTenMinutes
  BY TenMinutesArePublished
<1>2. PICK h \in Histories : h = history
  BY DEF TierInvariant, MeasurementInvariant
<1>3. PICK now \in Int : now = Now
  BY HeardType DEF Now, TierInvariant, MeasurementInvariant
<1>4. kernel \in Kernels /\ KernelSound(kernel, now, h) /\ CascadeSound(kernel, now)
  BY <1>2, <1>3 DEF TierInvariant, MeasurementInvariant
<1>5. PICK t \in TenMinuteSlots : t = kernel.ten
  BY <1>4, KernelParts
<1>6. PICK w \in TwoHourSlots : w = kernel.two
  BY <1>4, KernelParts
<1>7. t.blocks # 0 /\ kernel'.two = IF t.contaminated THEN TwoEnded(w) ELSE TwoMerged(w, t)
  BY <1>1, <1>4, <1>5, <1>6, TenMinutePass
<1>8. ~t.contaminated /\ t.settings = w.settings /\ output'.first = t.first /\ w.intervals # 0
  BY <1>1, <1>5, <1>6 DEF FinishTenMinutes
<1>9. w.nextSeq = Sequence /\ t.first <= w.nextFirst
  BY <1>4, <1>5, <1>6, <1>7, <1>8 DEF CascadeSound, ChainReaches, Sequence
<1>10. CASE Chains(w, t)
  <2>1. kernel'.two.intervals = w.intervals + 1
    BY <1>4, <1>7, <1>8, <1>10, TwoMergedFields
  <2> QED
    BY <1>6, <2>1
<1>11. CASE ~Chains(w, t)
  <2>1. t.first # w.nextFirst
    BY <1>8, <1>9, <1>11 DEF Chains
  <2>2. t.first \in Int /\ w.nextFirst \in Int
    BY DEF TenMinuteSlots, TwoHourSlots
  <2> QED
    BY <1>6, <1>8, <1>9, <2>1, <2>2
<1> QED
  BY <1>10, <1>11

--------------------------------------------------------------------------------
(* The engines with a stream of their own.  The stream first.               *)

(* A frame that arrives is the newest one again, or the next, with a jump of *)
(* the sample counter only if it says so.                                  *)
LEMMA ArrivingFrames ==
  ASSUME StreamTypes, StreamOrder, NEW limit, NEW flaws \in SUBSET SUBSET Flags,
         NEW frame \in Arriving(limit, flaws)
  PROVE  /\ frame \in Frames
         /\ \/ frame = stream.newest /\ stream.newest # NoNewest
            \/ /\ frame # stream.newest /\ frame.sequence = stream.next
               /\ frame.flags = {} \/ frame.flags \in flaws
               /\ frame.sample = IF frame.flags \cap {"jump", "drop"} = {}
                                 THEN stream.sample ELSE stream.sample + 1
<1>1. stream \in Streams
  BY DEF StreamTypes
<1>2. stream.next \in Nat /\ stream.sample \in Nat /\ stream.generation \in Nat
      /\ stream.newest \in Frames \cup {NoNewest}
  BY <1>1 DEF Streams
<1>3. ASSUME NEW jump \in {0, 1}, NEW flags \in SUBSET Flags, frame = PlainFrame(jump, flags)
      PROVE  /\ frame \in Frames /\ frame # stream.newest /\ frame.sequence = stream.next
             /\ frame.sample = stream.sample + jump /\ frame.flags = flags
  <2>1. frame = [sequence |-> stream.next, sample |-> stream.sample + jump,
                 generation |-> stream.generation, flags |-> flags]
    BY <1>3 DEF PlainFrame
  <2>2. stream.sample + jump \in Nat
    BY <1>2
  <2>3. frame \in Frames
    BY <1>2, <2>1, <2>2 DEF Frames
  <2>4. frame.sequence = stream.next /\ frame.sample = stream.sample + jump /\ frame.flags = flags
    BY <2>1
  <2>5. stream.newest.sequence # stream.next
    <3>1. CASE stream.newest = NoNewest
      BY <1>2, <3>1 DEF NoNewest, NoFrame
    <3>2. CASE stream.newest # NoNewest
      BY <1>2, <3>2 DEF StreamOrder, Frames
    <3> QED
      BY <3>1, <3>2
  <2> QED
    BY <2>3, <2>4, <2>5
<1>4. CASE frame \in Plain(limit)
  <2>1. frame = PlainFrame(0, {})
    BY <1>4 DEF Plain
  <2> QED
    BY <1>2, <1>3, <2>1
<1>5. CASE frame \in Flawed(limit, flaws)
  <2>1. PICK flags \in flaws :
          frame = PlainFrame(IF flags \cap {"jump", "drop"} = {} THEN 0 ELSE 1, flags)
    BY <1>5 DEF Flawed
  <2>2. flags \in SUBSET Flags
    OBVIOUS
  <2>3. CASE flags \cap {"jump", "drop"} = {}
    BY <1>2, <1>3, <2>1, <2>2, <2>3
  <2>4. CASE flags \cap {"jump", "drop"} # {}
    BY <1>2, <1>3, <2>1, <2>2, <2>4
  <2> QED
    BY <2>3, <2>4
<1>6. CASE frame \in Again
  <2>1. frame = stream.newest /\ frame.sequence # NoFrame
    BY <1>6 DEF Again
  <2> QED
    BY <1>2, <2>1 DEF NoNewest
<1> QED
  BY <1>4, <1>5, <1>6 DEF Arriving

(* What the arrival does to the stream.                                     *)
LEMMA SentFrames ==
  ASSUME StreamTypes, StreamOrder, NEW frame \in Frames, Sent(frame),
         \/ frame = stream.newest /\ stream.newest # NoNewest
         \/ /\ frame # stream.newest /\ frame.sequence = stream.next
            /\ frame.sample \in {stream.sample, stream.sample + 1}
  PROVE  /\ stream' \in Streams /\ stream'.newest = frame /\ frame # NoNewest
         /\ stream'.generation = stream.generation /\ stream'.staged = stream.staged
         /\ frame.sequence < stream'.next
         /\ stream'.sample - frame.sample = stream'.next - frame.sequence
         /\ frame # stream.newest => /\ stream'.next = stream.next + 1
                                     /\ stream'.sample = frame.sample + 1
         /\ frame = stream.newest => /\ stream'.next = stream.next
                                     /\ stream'.sample = stream.sample
<1> DEFINE faults == stream.faults - (IF frame.flags = {} /\ frame # stream.newest THEN 0 ELSE 1)
<1>1. stream \in Streams /\ frame.sequence \in Nat /\ frame.sample \in Nat
  BY DEF StreamTypes, Frames
<1>2. stream.next \in Nat /\ stream.sample \in Nat /\ stream.faults \in Int
  BY <1>1 DEF Streams
<1>3. faults \in Int
  BY <1>2
<1>4. frame # NoNewest
  BY <1>1 DEF NoNewest, NoFrame
<1>5. CASE frame = stream.newest
  <2>1. stream' = [stream EXCEPT !.faults = faults]
    BY <1>5 DEF Sent
  <2> HIDE DEF faults
  <2>2. stream' \in Streams
    BY <1>1, <1>3, <2>1 DEF Streams
  <2>3. stream'.newest = stream.newest /\ stream'.next = stream.next
        /\ stream'.sample = stream.sample /\ stream'.generation = stream.generation
        /\ stream'.staged = stream.staged
    BY <1>1, <2>1 DEF Streams
  <2> QED
    BY <1>4, <1>5, <2>2, <2>3 DEF StreamOrder
<1>6. CASE frame # stream.newest
  <2> DEFINE next == stream.next + 1
             sample == frame.sample + 1
  <2>1. stream' = [stream EXCEPT !.next = next, !.sample = sample, !.newest = frame,
                                 !.faults = faults]
    BY <1>6 DEF Sent
  <2>2. next \in Nat /\ sample \in Nat /\ next = stream.next + 1 /\ sample = frame.sample + 1
    BY <1>1, <1>2
  <2> HIDE DEF faults, next, sample
  <2>3. stream' \in Streams
    BY <1>1, <1>3, <2>1, <2>2 DEF Streams
  <2>4. stream'.newest = frame /\ stream'.next = next
        /\ stream'.sample = sample /\ stream'.generation = stream.generation
        /\ stream'.staged = stream.staged
    BY <1>1, <2>1 DEF Streams
  <2> QED
    BY <1>1, <1>2, <1>4, <1>6, <2>2, <2>3, <2>4
<1> QED
  BY <1>5, <1>6

(* What was published is no longer owed.                                    *)
LEMMA OwingMeaning ==
  ASSUME StreamTypes
  PROVE  Owing = track.owed \ Announced(records) /\ Owing \in SUBSET Channels
  BY DEF Owing, Announced, StreamTypes, Tracks

(* Hearing a frame: it continues what was heard, or everything begins anew. *)
LEMMA HeardFields ==
  ASSUME StreamTypes, StreamOrder, NEW frame \in Frames
  PROVE  LET t == Heard(frame)
         IN /\ t \in Tracks /\ t.next = frame.sample + 1
            /\ 0 <= t.since /\ t.since <= frame.sample
            /\ IF frame.sample = track.next
               THEN t.since = track.since /\ t.owed = Owing
               ELSE t.since = frame.sample /\ (track.since = NoFrame => t.owed = {})
<1>1. /\ frame.sample \in Nat /\ frame.sample + 1 \in Int /\ track \in Tracks
      /\ Owing \in SUBSET Channels
  BY OwingMeaning DEF StreamTypes, Frames
<1>2. track.since \in Int /\ track.next \in Int
  BY <1>1 DEF Tracks
<1>3. CASE frame.sample = track.next
  <2>1. Heard(frame) = [since |-> track.since, next |-> frame.sample + 1, owed |-> Owing]
    BY <1>3 DEF Heard
  <2>2. 0 <= track.since /\ track.since < track.next
    BY <1>1, <1>3 DEF StreamOrder, NoFrame
  <2> QED
    BY <1>1, <1>2, <1>3, <2>1, <2>2 DEF Tracks
<1>4. CASE frame.sample # track.next
  <2> DEFINE owed == IF track.since = NoFrame THEN {} ELSE Channels
  <2>1. Heard(frame) = [since |-> frame.sample, next |-> frame.sample + 1, owed |-> owed]
    BY <1>4 DEF Heard
  <2>2. owed \in SUBSET Channels /\ (track.since = NoFrame => owed = {})
    OBVIOUS
  <2> HIDE DEF owed
  <2> QED
    BY <1>1, <1>4, <2>1, <2>2 DEF Tracks
<1> QED
  BY <1>3, <1>4

(* A frame behind a loss that is not owed for.                              *)
LEMMA OwedHere ==
  ASSUME StreamTypes, StreamOrder, NEW frame \in Frames
  PROVE  LET t == [Heard(frame) EXCEPT !.owed = Owing]
         IN /\ t \in Tracks /\ t.next = Heard(frame).next /\ t.since = Heard(frame).since
            /\ t.owed = Owing
<1>1. Heard(frame) \in Tracks /\ Owing \in SUBSET Channels
  BY HeardFields, OwingMeaning DEF StreamTypes
<1> QED
  BY <1>1 DEF Tracks

LEMMA UnheardFields ==
  ASSUME StreamTypes
  PROVE  LET t == Unheard
             q == [track EXCEPT !.owed = Owing]
         IN /\ t \in Tracks /\ t.next = NoFrame /\ t.since = track.since /\ t.owed = Owing
            /\ q \in Tracks /\ q.next = track.next /\ q.since = track.since /\ q.owed = Owing
<1>1. track \in Tracks /\ Owing \in SUBSET Channels /\ NoFrame \in Int
  BY OwingMeaning DEF StreamTypes, NoFrame
<1> QED
  BY <1>1 DEF Unheard, Tracks

(* One more record: it is valid behind the loss only, and marked if it is   *)
(* the first of a channel that owes a mark.                                *)
LEMMA Reporting ==
  ASSUME NEW S, NEW rs \in Seq(S), NEW r \in S, NEW since, NEW owed,
         ReportedSound(rs, since, owed), r.valid => r.first >= since,
         r.channel \in owed \ Announced(rs) => r.marked
  PROVE  /\ ReportedSound(Append(rs, r), since, owed)
         /\ Announced(Append(rs, r)) = Announced(rs) \cup {r.channel}
<1>1. PICK n \in Nat : n = Len(rs) /\ DOMAIN rs = 1 .. n
  OBVIOUS
<1>2. /\ DOMAIN Append(rs, r) = 1 .. n + 1 /\ Append(rs, r)[n + 1] = r
      /\ \A i \in 1 .. n : Append(rs, r)[i] = rs[i]
  BY <1>1
<1>3. Announced(Append(rs, r)) = Announced(rs) \cup {r.channel}
  BY <1>1, <1>2 DEF Announced
<1>4. ASSUME NEW i \in 1 .. n
      PROVE  /\ Append(rs, r)[i].valid => Append(rs, r)[i].first >= since
             /\ /\ Append(rs, r)[i].channel \in owed
                /\ \A j \in 1 .. i - 1 : Append(rs, r)[j].channel # Append(rs, r)[i].channel
                => Append(rs, r)[i].marked
  <2>1. \A j \in 1 .. i - 1 : j \in 1 .. n
    BY <1>1
  <2> QED
    BY <1>1, <1>2, <2>1 DEF ReportedSound
<1>5. ASSUME \A j \in 1 .. n : Append(rs, r)[j].channel # r.channel
      PROVE  r.channel \notin Announced(rs)
  BY <1>1, <1>2, <1>5 DEF Announced
<1>6. \A i \in 1 .. n + 1 : i \in 1 .. n \/ (i = n + 1 /\ i - 1 = n)
  BY <1>1
<1> QED
  BY <1>2, <1>3, <1>4, <1>5, <1>6 DEF ReportedSound

LEMMA NothingReported ==
  ASSUME NEW since, NEW owed
  PROVE  ReportedSound(<<>>, since, owed) /\ Announced(<<>>) = {}
  BY DEF ReportedSound, Announced
(* The stream after a frame, and after what happens between frames.         *)
LEMMA StreamAfterFrame ==
  ASSUME StreamTypes, StreamOrder, NEW frame \in Frames, Sent(frame),
         \/ frame = stream.newest /\ stream.newest # NoNewest
         \/ /\ frame # stream.newest /\ frame.sequence = stream.next
            /\ frame.sample \in {stream.sample, stream.sample + 1},
         external' \in BOOLEAN,
         \/ track' = Heard(frame)
         \/ track' = [Heard(frame) EXCEPT !.owed = Owing]
         \/ track' = Unheard
         \/ track' = [track EXCEPT !.owed = Owing]
  PROVE  StreamTypes' /\ StreamOrder'
<1>1. /\ stream' \in Streams /\ stream'.newest = frame
      /\ frame.sequence < stream'.next
      /\ stream'.sample - frame.sample = stream'.next - frame.sequence
  BY SentFrames
<1>2. track' \in Tracks
  BY HeardFields, OwedHere, UnheardFields
<1>3. CASE track' = Heard(frame) \/ track' = [Heard(frame) EXCEPT !.owed = Owing]
  <2>1. track'.next = frame.sample + 1 /\ 0 <= track'.since /\ track'.since <= frame.sample
    BY <1>3, HeardFields, OwedHere
  <2>2. frame.sample \in Nat /\ track'.since \in Int
    BY <1>2 DEF Frames, Tracks
  <2> QED
    BY <1>1, <1>2, <2>1, <2>2 DEF StreamTypes, StreamOrder, NoFrame
<1>4. CASE track' = Unheard \/ track' = [track EXCEPT !.owed = Owing]
  <2>1. /\ track'.since = track.since /\ track'.owed = Owing
        /\ track'.next = NoFrame \/ track'.next = track.next
    BY <1>4, UnheardFields
  <2>2. Owing \subseteq track.owed
    BY DEF Owing
  <2> QED
    BY <1>1, <1>2, <2>1, <2>2 DEF StreamTypes, StreamOrder
<1> QED
  BY <1>3, <1>4

LEMMA LostFrames ==
  ASSUME StreamTypes, StreamOrder, NEW limit, NEW counts \in SUBSET Nat,
         LoseStreamFrames(limit, counts)
  PROVE  /\ StreamTypes' /\ StreamOrder' /\ records' = <<>> /\ external' = external
         /\ track' = [track EXCEPT !.owed = Owing] /\ Owing' = Owing
         /\ stream'.newest = stream.newest
         /\ stream'.sample - stream.sample = stream'.next - stream.next
<1>1. PICK count \in counts :
        stream' = Fault([stream EXCEPT !.next = @ + count, !.sample = @ + count])
  BY DEF LoseStreamFrames
<1>2. stream \in Streams /\ count \in Nat
  BY DEF StreamTypes
<1> DEFINE next == stream.next + count
           sample == stream.sample + count
           faults == stream.faults - 1
<1>3. next \in Nat /\ sample \in Nat /\ faults \in Int
      /\ next - stream.next = sample - stream.sample /\ next >= stream.next
  BY <1>2 DEF Streams
<1>4. stream' = [stream EXCEPT !.next = next, !.sample = sample, !.faults = faults]
  BY <1>1, <1>2 DEF Fault, Streams
<1> HIDE DEF next, sample, faults
<1>5. stream' \in Streams
  BY <1>2, <1>3, <1>4 DEF Streams
<1>6. stream'.next = next /\ stream'.sample = sample /\ stream'.newest = stream.newest
  BY <1>2, <1>4 DEF Streams
<1>7. /\ records' = <<>> /\ external' = external
      /\ track' = [track EXCEPT !.owed = Owing]
  BY DEF LoseStreamFrames
<1>8. track' \in Tracks /\ track'.next = track.next /\ track'.since = track.since
      /\ track'.owed = Owing
  BY <1>7, UnheardFields
<1>9. Owing' = Owing
  BY <1>7, <1>8 DEF Owing
<1>10. StreamTypes'
  BY <1>5, <1>7, <1>8 DEF StreamTypes
<1>11. ASSUME stream.newest # NoNewest
       PROVE  /\ stream.newest.sequence < next
              /\ sample - stream.newest.sample = next - stream.newest.sequence
  <2>1. /\ stream.newest.sequence \in Nat /\ stream.newest.sample \in Nat
        /\ stream.next \in Nat /\ stream.sample \in Nat
    BY <1>2, <1>11 DEF Streams, Frames
  <2>2. /\ stream.newest.sequence < stream.next
        /\ stream.sample - stream.newest.sample = stream.next - stream.newest.sequence
    BY <1>11 DEF StreamOrder
  <2> QED
    BY <1>3, <2>1, <2>2
<1>12. Owing \subseteq track.owed
  BY DEF Owing
<1>13. StreamOrder'
  BY <1>6, <1>8, <1>11, <1>12 DEF StreamOrder
<1> QED
  BY <1>3, <1>6, <1>7, <1>9, <1>10, <1>13

LEMMA Interferes ==
  ASSUME StreamTypes, StreamOrder, StreamInterference
  PROVE  /\ StreamTypes' /\ StreamOrder' /\ records' = records /\ track' = track
         /\ Owing' = Owing /\ (external => external') /\ stream'.newest = stream.newest
         /\ stream'.sample = stream.sample /\ stream'.next = stream.next
<1>1. stream \in Streams
  BY DEF StreamTypes
<1>2. records' = records /\ track' = track /\ (external => external') /\ external' \in BOOLEAN
  BY DEF StreamInterference, NoteDiscontinuity, StageConfiguration, AdoptGeneration, StreamTypes
<1>3. /\ stream' \in Streams /\ stream'.newest = stream.newest
      /\ stream'.sample = stream.sample /\ stream'.next = stream.next
  <2>1. CASE NoteDiscontinuity
    <3>1. stream' = [stream EXCEPT !.faults = @ - 1]
      BY <2>1 DEF NoteDiscontinuity, Fault
    <3> QED
      BY <1>1, <3>1 DEF Streams
  <2>2. CASE StageConfiguration
    <3>1. CASE stream.staged = 0
      BY <1>1, <2>2, <3>1 DEF StageConfiguration, Streams
    <3>2. CASE stream.staged # 0
      <4> DEFINE staged == stream.staged + 1
                 faults == stream.faults - 1
      <4>1. stream' = [stream EXCEPT !.staged = staged, !.faults = faults]
        BY <1>1, <2>2, <3>2 DEF StageConfiguration, Fault, Streams
      <4>2. staged \in Nat /\ faults \in Int
        BY <1>1 DEF Streams
      <4> HIDE DEF staged, faults
      <4> QED
        BY <1>1, <4>1, <4>2 DEF Streams
    <3> QED
      BY <3>1, <3>2
  <2>3. CASE AdoptGeneration
    <3> DEFINE generation == stream.generation + 1
               faults == stream.faults - 1
    <3>1. stream' = [stream EXCEPT !.generation = generation, !.faults = faults]
      BY <1>1, <2>3 DEF AdoptGeneration, Fault, Streams
    <3>2. generation \in Nat /\ faults \in Int
      BY <1>1 DEF Streams
    <3> HIDE DEF generation, faults
    <3> QED
      BY <1>1, <3>1, <3>2 DEF Streams
  <2> QED
    BY <2>1, <2>2, <2>3 DEF StreamInterference
<1>4. Owing' = Owing
  BY <1>2 DEF Owing
<1> QED
  BY <1>2, <1>3, <1>4 DEF StreamTypes, StreamOrder

--------------------------------------------------------------------------------
(* Ten-second frequency.                                                    *)

(* The records of a frame: a placeholder for every observation that is      *)
(* missing, then its own.                                                  *)
LEMMA AnsweredRecords ==
  ASSUME NEW f \in [ready : BOOLEAN, sequence : Int, last : Int], NEW frame \in Frames,
         external \in BOOLEAN, Missing(f, frame) >= 0
  PROVE  LET rs == Answered(f, frame)
         IN /\ rs \in Seq(FrequencyReports) /\ rs # <<>>
            /\ NumberedFrom(f.sequence, rs)
            /\ rs[Len(rs)].sequence = frame.sequence
            /\ rs[Len(rs)].first = frame.sample
            /\ Len(rs) = Missing(f, frame) + 1
            /\ \A i \in 1 .. Len(rs) : i # Len(rs) => ~rs[i].valid /\ rs[i].marked
            /\ (rs[Len(rs)].marked <=> external \/ Missing(f, frame) > 0 \/ "disc" \in frame.flags)
<1>1. /\ frame.sequence \in Nat /\ frame.sample \in Nat /\ f.sequence \in Int /\ f.last \in Int
  BY DEF Frames
<1>2. PICK n \in Nat : n = Missing(f, frame)
  BY <1>1 DEF Missing
<1>3. PICK gap \in BOOLEAN, broken \in BOOLEAN :
        /\ gap = (external \/ n > 0) /\ broken = ("disc" \in frame.flags)
  <2>1. (external \/ n > 0) \in BOOLEAN /\ ("disc" \in frame.flags) \in BOOLEAN
    OBVIOUS
  <2> QED
    BY <2>1, Zenon
<1> DEFINE front == [i \in 1 .. n |-> Placeholder(f, i)]
           own == Observation(frame.sequence, frame.sample, gap, broken)
<1>4. ASSUME NEW q \in Int, NEW s \in Int, NEW g \in BOOLEAN, NEW b \in BOOLEAN
      PROVE  LET r == Observation(q, s, g, b)
             IN /\ r \in FrequencyReports /\ r.sequence = q /\ r.first = s
                /\ (r.valid <=> ~g /\ ~b) /\ (r.marked <=> g \/ b)
  <2> DEFINE v == ~g /\ ~b
             m == g \/ b
  <2>1. v \in BOOLEAN /\ m \in BOOLEAN
    OBVIOUS
  <2>2. Observation(q, s, g, b) =
          [channel |-> "interval", kind |-> "frequency", sequence |-> q, valid |-> v,
           first |-> s, last |-> s, marked |-> m]
    BY DEF Observation
  <2> HIDE DEF v, m
  <2>3. Observation(q, s, g, b) \in FrequencyReports
    BY <2>1, <2>2 DEF FrequencyReports
  <2>4. LET r == Observation(q, s, g, b)
        IN r.sequence = q /\ r.first = s /\ r.valid = v /\ r.marked = m
    BY <2>2
  <2> QED
    BY <2>3, <2>4 DEF v, m
<1>5. /\ own \in FrequencyReports /\ own.sequence = frame.sequence /\ own.first = frame.sample
      /\ (own.marked <=> gap \/ broken)
  <2> DEFINE v == ~gap /\ ~broken
             m == gap \/ broken
  <2>1. frame.sequence \in Int /\ frame.sample \in Int /\ v \in BOOLEAN /\ m \in BOOLEAN
    BY <1>1
  <2>2. own = [channel |-> "interval", kind |-> "frequency", sequence |-> frame.sequence,
               valid |-> v, first |-> frame.sample, last |-> frame.sample, marked |-> m]
    BY DEF Observation
  <2> HIDE DEF v, m, own
  <2>3. own \in FrequencyReports
    BY <2>1, <2>2 DEF FrequencyReports
  <2>4. own.sequence = frame.sequence /\ own.first = frame.sample /\ own.marked = m
    BY <2>2
  <2> QED
    BY <2>3, <2>4 DEF m
<1>6. ASSUME NEW i \in 1 .. n
      PROVE  /\ Placeholder(f, i) \in FrequencyReports
             /\ Placeholder(f, i).sequence = f.sequence + i
             /\ ~Placeholder(f, i).valid /\ Placeholder(f, i).marked
  <2> DEFINE number == f.sequence + i
             sample == f.last + i
  <2>1. number \in Int /\ sample \in Int
    BY <1>1, <1>2
  <2>2. PICK v \in BOOLEAN, m \in BOOLEAN : ~v /\ m
    OBVIOUS
  <2>3. Placeholder(f, i) =
          [channel |-> "interval", kind |-> "frequency", sequence |-> number, valid |-> v,
           first |-> sample, last |-> sample, marked |-> m]
    BY <2>2 DEF Placeholder, Observation
  <2> HIDE DEF number, sample
  <2>4. /\ Placeholder(f, i) \in FrequencyReports /\ Placeholder(f, i).sequence = number
        /\ Placeholder(f, i).valid = v /\ Placeholder(f, i).marked = m
    BY <2>1, <2>3 DEF FrequencyReports
  <2> QED
    BY <2>2, <2>4 DEF number
<1>7. Answered(f, frame) = front \o <<own>>
  BY <1>2, <1>3 DEF Answered
<1> HIDE DEF own
<1>8. /\ front \in Seq(FrequencyReports) /\ Len(front) = n
      /\ \A i \in 1 .. n : front[i] = Placeholder(f, i)
  <2>1. \A i \in 1 .. n : Placeholder(f, i) \in FrequencyReports
    BY <1>6
  <2> HIDE DEF FrequencyReports
  <2> QED
    BY <1>2, <2>1
<1> HIDE DEF front
<1>9. /\ front \o <<own>> \in Seq(FrequencyReports) /\ Len(front \o <<own>>) = n + 1
      /\ (front \o <<own>>)[n + 1] = own
      /\ \A i \in 1 .. n : (front \o <<own>>)[i] = Placeholder(f, i)
  <2> HIDE DEF FrequencyReports
  <2> QED
    BY <1>2, <1>5, <1>8
<1> DEFINE rs == front \o <<own>>
<1>10. ASSUME f.sequence # NoFrame
       PROVE  f.sequence + (n + 1) = frame.sequence
  BY <1>1, <1>2, <1>10 DEF Missing
<1>11. f.sequence = NoFrame => n = 0
  BY <1>2 DEF Missing
<1>12. ASSUME f.sequence # NoFrame
       PROVE  \A i \in 1 .. n + 1 : rs[i].sequence = f.sequence + i
  <2>1. \A i \in 1 .. n + 1 : i \in 1 .. n \/ i = n + 1
    BY <1>2
  <2> QED
    BY <1>5, <1>6, <1>9, <1>10, <1>12, <2>1
<1> HIDE DEF rs
<1>13. Len(rs) = n + 1
  BY <1>9 DEF rs
<1>14. NumberedFrom(f.sequence, rs)
  <2>1. CASE f.sequence = NoFrame
    <3>1. \A i \in 2 .. Len(rs) : FALSE
      BY <1>11, <1>13, <2>1
    <3> QED
      BY <2>1, <3>1 DEF NumberedFrom
  <2>2. CASE f.sequence # NoFrame
    <3>1. rs[1].sequence = f.sequence + 1
      BY <1>2, <1>12, <2>2
    <3>2. ASSUME NEW i \in 2 .. Len(rs)
          PROVE  rs[i].sequence = rs[i - 1].sequence + 1
      <4>1. i \in 1 .. n + 1 /\ i - 1 \in 1 .. n + 1
        BY <1>2, <1>13
      <4>2. rs[i].sequence = f.sequence + i /\ rs[i - 1].sequence = f.sequence + (i - 1)
        BY <1>12, <2>2, <4>1
      <4> QED
        BY <1>1, <4>1, <4>2
    <3> QED
      BY <3>1, <3>2 DEF NumberedFrom
  <2> QED
    BY <2>1, <2>2
<1>15. \A i \in 1 .. Len(rs) : i # Len(rs) => ~rs[i].valid /\ rs[i].marked
  <2>1. \A i \in 1 .. n + 1 : i # n + 1 => i \in 1 .. n
    BY <1>2
  <2> QED
    BY <1>6, <1>9, <1>13, <2>1 DEF rs
<1>16. rs # <<>> /\ rs[Len(rs)] = own /\ rs \in Seq(FrequencyReports)
  BY <1>2, <1>9, <1>13 DEF rs
<1>17. own.marked <=> external \/ n > 0 \/ "disc" \in frame.flags
  BY <1>3, <1>5
<1> QED
  BY <1>2, <1>5, <1>7, <1>13, <1>14, <1>15, <1>16, <1>17 DEF rs

(* Its channel is that of the records.                                      *)
LEMMA IntervalRecords ==
  ASSUME NEW rs \in Seq(FrequencyReports), rs # <<>>
  PROVE  Announced(rs) = {"interval"} /\ \A i \in DOMAIN rs : rs[i] \in FrequencyReports
<1>1. PICK n \in Nat : n = Len(rs) /\ DOMAIN rs = 1 .. n /\ 1 \in DOMAIN rs
  BY DEF FrequencyReports
<1>2. \A i \in DOMAIN rs : rs[i] \in FrequencyReports
  BY <1>1
<1>3. \A i \in DOMAIN rs : rs[i].channel = "interval"
  BY <1>2 DEF FrequencyReports
<1> QED
  BY <1>1, <1>2, <1>3 DEF Announced

(* A frame that is answered: the records are numbered on, and the first one *)
(* is marked when something was lost.                                      *)
LEMMA FrequencyAnswers ==
  ASSUME StreamTypes, StreamOrder, FrequencyInvariant, frequency.ready,
         NEW frame \in Frames, Sent(frame), Missing(frequency, frame) >= 0,
         \/ frame = stream.newest /\ stream.newest # NoNewest
         \/ /\ frame # stream.newest /\ frame.sequence = stream.next
            /\ frame.sample \in {stream.sample, stream.sample + 1}
            /\ frame.sample = stream.sample \/ "disc" \in frame.flags,
         published' = IF records = <<>> THEN published ELSE records[Len(records)].sequence,
         external' = FALSE, records' = Answered(frequency, frame), track' = Heard(frame),
         frequency' = [frequency EXCEPT !.sequence = frame.sequence, !.last = frame.sample]
  PROVE  /\ StreamTypes' /\ StreamOrder' /\ FrequencyInvariant'
         /\ ReportedSound(records, track.since, track.owed)'
<1>1. /\ frequency \in [ready : BOOLEAN, sequence : Int, last : Int] /\ external \in BOOLEAN
      /\ published \in Int
  BY DEF FrequencyInvariant, FrequencyTypes, StreamTypes
<1>2. frame.sequence \in Nat /\ frame.sample \in Nat
  BY DEF Frames
<1>3. /\ records' \in Seq(FrequencyReports) /\ records' # <<>>
      /\ NumberedFrom(frequency.sequence, records')
      /\ records'[Len(records')].sequence = frame.sequence
      /\ records'[Len(records')].first = frame.sample
      /\ Len(records') = Missing(frequency, frame) + 1
      /\ \A i \in 1 .. Len(records') : i # Len(records') => ~records'[i].valid /\ records'[i].marked
      /\ (records'[Len(records')].marked <=> external \/ Missing(frequency, frame) > 0 \/ "disc" \in frame.flags)
  BY <1>1, AnsweredRecords
<1>4. StreamTypes' /\ StreamOrder'
  BY StreamAfterFrame
<1>5. frequency' \in [ready : BOOLEAN, sequence : Int, last : Int]
      /\ frequency'.ready /\ frequency'.sequence = frame.sequence
  <2> DEFINE sequence == frame.sequence
             sample == frame.sample
  <2>1. frequency' = [frequency EXCEPT !.sequence = sequence, !.last = sample]
    OBVIOUS
  <2>2. sequence \in Int /\ sample \in Int
    BY <1>2
  <2>3. sequence = frame.sequence
    OBVIOUS
  <2> HIDE DEF sequence, sample
  <2>4. /\ frequency' \in [ready : BOOLEAN, sequence : Int, last : Int]
        /\ frequency'.ready = frequency.ready /\ frequency'.sequence = sequence
    BY <1>1, <2>1, <2>2
  <2> QED
    BY <2>3, <2>4
<1>6. published' = frequency.sequence
  BY DEF FrequencyInvariant, FrequencySound
<1>7. FrequencyTypes'
  BY <1>1, <1>3, <1>5, <1>6 DEF FrequencyTypes
<1>8. /\ track'.next = frame.sample + 1 /\ 0 <= track'.since /\ track'.since <= frame.sample
      /\ IF frame.sample = track.next
         THEN track'.since = track.since /\ track'.owed = Owing
         ELSE track'.since = frame.sample /\ (track.since = NoFrame => track'.owed = {})
  BY HeardFields
<1>9. stream'.newest = frame
  BY SentFrames
<1>10. Announced(records') = {"interval"}
  BY <1>3, IntervalRecords
<1>11. "interval" \notin Owing'
  BY <1>10 DEF Owing, Announced
<1>12. FrequencySound'
  BY <1>2, <1>3, <1>5, <1>8, <1>9, <1>11 DEF FrequencySound, NoFrame
<1>13. FrequencyInvariant'
  BY <1>3, <1>6, <1>7, <1>12 DEF FrequencyInvariant
<1>14. ASSUME "interval" \in track'.owed, Missing(frequency, frame) = 0
       PROVE  "disc" \in frame.flags
  <2>1. frame.sample # track.next /\ track.since # NoFrame
    BY <1>8, <1>14 DEF FrequencyInvariant, FrequencySound
  <2>2. /\ frequency.sequence # NoFrame /\ track.next = stream.newest.sample + 1
        /\ frequency.sequence = stream.newest.sequence
    BY <2>1 DEF FrequencyInvariant, FrequencySound
  <2>3. frame.sequence = stream.newest.sequence + 1 /\ stream.newest # NoNewest
    BY <1>1, <1>2, <1>14, <2>2 DEF Missing, NoNewest
  <2>4. stream.newest.sequence < stream.next /\ stream.newest \in Frames
        /\ stream.sample - stream.newest.sample = stream.next - stream.newest.sequence
    BY <2>3 DEF StreamOrder, StreamTypes, Streams
  <2>5. frame # stream.newest /\ frame.sequence = stream.next
    BY <2>3, <2>4 DEF Frames
  <2>6. stream.sample = stream.newest.sample + 1
    BY <2>3, <2>4, <2>5 DEF Frames, StreamTypes, Streams
  <2> QED
    BY <2>1, <2>2, <2>5, <2>6
<1>15. ReportedSound(records', track'.since, track'.owed)
  <2>1. PICK n \in Nat : n = Len(records') /\ DOMAIN records' = 1 .. n
    BY <1>3
  <2>2. \A i \in 1 .. n : records'[i].channel = "interval"
    BY <1>3, <2>1, IntervalRecords DEF FrequencyReports
  <2>3. ASSUME NEW i \in 1 .. n, records'[i].valid
        PROVE  records'[i].first >= track'.since
    BY <1>2, <1>3, <1>4, <1>8, <2>1, <2>3 DEF StreamTypes, Tracks
  <2>4. ASSUME NEW i \in 1 .. n, "interval" \in track'.owed,
               \A j \in 1 .. i - 1 : records'[j].channel # "interval"
        PROVE  records'[i].marked
    <3>1. i = 1
      BY <2>1, <2>2, <2>4
    <3>2. CASE n = 1
      <4>1. Missing(frequency, frame) = 0 /\ i = Len(records')
        BY <1>1, <1>2, <1>3, <2>1, <3>1, <3>2 DEF Missing
      <4>2. "disc" \in frame.flags
        BY <1>14, <2>4, <4>1
      <4> QED
        BY <1>3, <4>1, <4>2
    <3>3. CASE n # 1
      BY <1>3, <2>1, <3>1, <3>3
    <3> QED
      BY <3>2, <3>3
  <2> QED
    BY <2>1, <2>2, <2>3, <2>4 DEF ReportedSound
<1> QED
  BY <1>4, <1>13, <1>15

(* The engine is silent about a frame, or rests.                            *)
LEMMA FrequencyKeepsQuiet ==
  ASSUME StreamTypes, FrequencyInvariant, records' = <<>>, track' = [track EXCEPT !.owed = Owing],
         published' = IF records = <<>> THEN published ELSE records[Len(records)].sequence,
         \/ frequency' = frequency /\ (frequency.ready => stream'.newest = stream.newest)
         \/ frequency' = [frequency EXCEPT !.ready = FALSE]
  PROVE  FrequencyInvariant' /\ ReportedSound(records, track.since, track.owed)'
<1>1. /\ frequency \in [ready : BOOLEAN, sequence : Int, last : Int] /\ published \in Int
      /\ records \in Seq(FrequencyReports)
  BY DEF FrequencyInvariant, FrequencyTypes
<1>2. records # <<>> => records[Len(records)].sequence \in Int
  <2>1. ASSUME records # <<>>
        PROVE  records[Len(records)] \in FrequencyReports
    <3> HIDE DEF FrequencyReports
    <3> QED
      BY <1>1, <2>1
  <2> QED
    BY <2>1 DEF FrequencyReports
<1>3. FrequencyTypes'
  <2>1. published' \in Int /\ records' \in Seq(FrequencyReports)
    <3>1. CASE records = <<>>
      BY <1>1, <3>1
    <3>2. CASE records # <<>>
      BY <1>2, <3>2
    <3> QED
      BY <3>1, <3>2
  <2>2. frequency' \in [ready : BOOLEAN, sequence : Int, last : Int]
    BY <1>1
  <2> QED
    BY <2>1, <2>2 DEF FrequencyTypes
<1>4. track'.owed = Owing /\ track'.since = track.since /\ track'.next = track.next
  BY UnheardFields
<1>5. Owing' \subseteq Owing
  BY <1>4 DEF Owing
<1>6. FrequencySound'
  <2>1. CASE frequency' = frequency
    <3>1. CASE frequency.ready
      BY <1>1, <1>4, <1>5, <2>1, <3>1 DEF FrequencyInvariant, FrequencySound
    <3>2. CASE ~frequency.ready
      BY <1>5, <2>1, <3>2 DEF FrequencyInvariant, FrequencySound
    <3> QED
      BY <3>1, <3>2
  <2>2. CASE frequency' = [frequency EXCEPT !.ready = FALSE]
    BY <1>1, <1>5, <2>2 DEF FrequencyInvariant, FrequencySound
  <2> QED
    BY <2>1, <2>2
<1>7. ReportedSound(records', track'.since, track'.owed)
  BY NothingReported
<1> QED
  BY <1>3, <1>6, <1>7 DEF FrequencyInvariant

LEMMA FrequencyStep ==
  ASSUME StreamTypes, StreamOrder, FrequencyInvariant,
         ReportedSound(records, track.since, track.owed), FrequencyNext
  PROVE  /\ StreamTypes' /\ StreamOrder' /\ FrequencyInvariant'
         /\ ReportedSound(records, track.since, track.owed)'
<1> DEFINE flaws == {{"disc"}, {"disc", "jump"}}
<1>1. ASSUME NEW frame \in Arriving(MaxObservations, flaws), FrequencyProcess(frame), Sent(frame)
      PROVE  /\ StreamTypes' /\ StreamOrder' /\ FrequencyInvariant'
             /\ ReportedSound(records, track.since, track.owed)'
  <2>1. flaws \in SUBSET SUBSET Flags
    BY DEF Flags
  <2>2. frame \in Frames /\ frame.sequence \in Nat /\ frame.sample \in Nat
    BY <2>1, ArrivingFrames DEF Frames
  <2>3. \/ frame = stream.newest /\ stream.newest # NoNewest
        \/ /\ frame # stream.newest /\ frame.sequence = stream.next
           /\ frame.flags = {} \/ frame.flags \in flaws
           /\ frame.sample = IF frame.flags \cap {"jump", "drop"} = {}
                             THEN stream.sample ELSE stream.sample + 1
    BY <2>1, ArrivingFrames
  <2>4. \/ frame = stream.newest /\ stream.newest # NoNewest
        \/ /\ frame # stream.newest /\ frame.sequence = stream.next
           /\ frame.sample \in {stream.sample, stream.sample + 1}
           /\ frame.sample = stream.sample \/ "disc" \in frame.flags
    BY <2>3
  <2>5. /\ stream'.newest = frame /\ stream \in Streams /\ external' \in BOOLEAN
        /\ frequency \in [ready : BOOLEAN, sequence : Int, last : Int]
    BY <1>1, <2>2, <2>4, SentFrames
       DEF FrequencyProcess, FrequencyInvariant, FrequencyTypes, StreamTypes
  <2>6. CASE frequency.ready /\ Missing(frequency, frame) >= 0
                             /\ Missing(frequency, frame) <= MaxPlaceholders
    <3>1. ~(Missing(frequency, frame) < 0) /\ ~(Missing(frequency, frame) > MaxPlaceholders)
      BY <2>2, <2>5, <2>6, FrequencyAssumption DEF Missing
    <3> QED
      BY <1>1, <2>2, <2>4, <2>6, <3>1, FrequencyAnswers DEF FrequencyProcess
  <2>7. CASE ~(frequency.ready /\ Missing(frequency, frame) >= 0
                               /\ Missing(frequency, frame) <= MaxPlaceholders)
    <3> DEFINE quiet == records' = <<>> /\ track' = [track EXCEPT !.owed = Owing]
               kept == frequency' = frequency /\ (frequency.ready => Missing(frequency, frame) < 0)
               failed == frequency' = [frequency EXCEPT !.ready = FALSE]
    <3>1. quiet /\ (kept \/ failed)
      <4>1. CASE ~frequency.ready
        BY <1>1, <4>1 DEF FrequencyProcess, Quiet
      <4>2. CASE frequency.ready /\ Missing(frequency, frame) < 0
        BY <1>1, <4>2 DEF FrequencyProcess, Quiet
      <4>3. CASE frequency.ready /\ ~(Missing(frequency, frame) < 0)
        <5>1. Missing(frequency, frame) > MaxPlaceholders
          BY <2>2, <2>5, <2>7, <4>3, FrequencyAssumption DEF Missing
        <5> QED
          BY <1>1, <4>3, <5>1 DEF FrequencyProcess, Quiet
      <4>4. \/ ~frequency.ready
            \/ frequency.ready /\ Missing(frequency, frame) < 0
            \/ frequency.ready /\ ~(Missing(frequency, frame) < 0)
        OBVIOUS
      <4> HIDE DEF quiet, kept, failed
      <4> QED
        BY <4>1, <4>2, <4>3, <4>4
    <3>2. ASSUME frequency.ready, Missing(frequency, frame) < 0
          PROVE  frame = stream.newest
      <4>1. frequency.sequence # NoFrame /\ frequency.sequence = stream.newest.sequence
            /\ frame.sequence <= frequency.sequence
        BY <2>2, <2>5, <3>2 DEF Missing, FrequencyInvariant, FrequencySound
      <4>2. stream.newest # NoNewest
        BY <4>1 DEF NoNewest
      <4>3. stream.newest.sequence < stream.next /\ stream.newest \in Frames
        BY <2>5, <4>2 DEF StreamOrder, Streams
      <4> QED
        BY <2>2, <2>4, <2>5, <4>1, <4>3 DEF Streams, Frames
    <3>3. published' = IF records = <<>> THEN published ELSE records[Len(records)].sequence
      BY <1>1 DEF FrequencyProcess
    <3>4. FrequencyInvariant' /\ ReportedSound(records, track.since, track.owed)'
      BY <2>5, <3>1, <3>2, <3>3, FrequencyKeepsQuiet
    <3> QED
      BY <1>1, <2>2, <2>4, <2>5, <3>1, <3>4, StreamAfterFrame
  <2> QED
    BY <2>6, <2>7
<1>2. ASSUME LoseStreamFrames(MaxObservations, {1, MaxPlaceholders + 1}), FrequencyRests
      PROVE  /\ StreamTypes' /\ StreamOrder' /\ FrequencyInvariant'
             /\ ReportedSound(records, track.since, track.owed)'
  <2>1. {1, MaxPlaceholders + 1} \in SUBSET Nat
    BY FrequencyAssumption
  <2>2. /\ StreamTypes' /\ StreamOrder' /\ records' = <<>>
        /\ track' = [track EXCEPT !.owed = Owing] /\ stream'.newest = stream.newest
    BY <1>2, <2>1, LostFrames
  <2>3. /\ published' = IF records = <<>> THEN published ELSE records[Len(records)].sequence
        /\ frequency' = frequency
    BY <1>2, <2>2 DEF FrequencyRests
  <2> QED
    BY <2>2, <2>3, FrequencyKeepsQuiet
<1>3. ASSUME NoteDiscontinuity, FrequencyRests
      PROVE  /\ StreamTypes' /\ StreamOrder' /\ FrequencyInvariant'
             /\ ReportedSound(records, track.since, track.owed)'
  <2>1. /\ StreamTypes' /\ StreamOrder' /\ records' = records /\ track' = track
        /\ Owing' = Owing /\ stream'.newest = stream.newest
    BY <1>3, Interferes DEF StreamInterference
  <2>2. frequency' = frequency /\ published' = published
    BY <1>3, <2>1 DEF FrequencyRests
  <2> QED
    BY <2>1, <2>2 DEF FrequencyInvariant, FrequencyTypes, FrequencySound
<1> QED
  BY <1>1, <1>2, <1>3 DEF FrequencyNext

--------------------------------------------------------------------------------
(* Power-quality events.                                                    *)

(* A record of an event, and the event goes on or is closed with it.        *)
EventReport(p, slot, kind) ==
  [channel |-> "event", kind |-> kind, slot |-> slot, id |-> p.state[slot].id,
   first |-> p.state[slot].first, last |-> p.state[slot].last, valid |-> kind # "abort",
   marked |-> p.firstAfter \/ kind = "abort"]

LEMMA EventReportFields ==
  ASSUME NEW p \in PqStates, NEW slot \in Slots, NEW kind \in EventKinds
  PROVE  LET r == EventReport(p, slot, kind)
         IN /\ r \in PqReports /\ r.channel = "event" /\ r.first = p.state[slot].first
            /\ kind = "abort" => ~r.valid /\ r.marked
            /\ p.firstAfter => r.marked
<1> DEFINE e == p.state[slot]
           valid == kind # "abort"
           marked == p.firstAfter \/ kind = "abort"
           r == [channel |-> "event", kind |-> kind, slot |-> slot, id |-> e.id,
                 first |-> e.first, last |-> e.last, valid |-> valid, marked |-> marked]
<1>1. e \in PqEvents /\ p.firstAfter \in BOOLEAN
  BY DEF PqStates
<1>2. e.id \in Nat /\ e.first \in Int /\ e.last \in Int
  BY <1>1 DEF PqEvents
<1>3. valid \in BOOLEAN /\ marked \in BOOLEAN
  OBVIOUS
<1>4. (kind = "abort" => ~valid /\ marked) /\ (p.firstAfter => marked)
  OBVIOUS
<1>5. r = EventReport(p, slot, kind)
  BY DEF EventReport
<1> HIDE DEF valid, marked, e
<1>6. r \in PqReports
  BY <1>2, <1>3 DEF PqReports
<1> QED
  BY <1>4, <1>5, <1>6 DEF e

GoesOn(p, slot, kind) == Emitted(p, slot, kind, FALSE)
Closes(p, slot, kind) == Emitted(p, slot, kind, TRUE)

LEMMA EmittedFields ==
  ASSUME NEW p \in PqStates, NEW slot \in Slots, NEW kind \in EventKinds
  PROVE  /\ LET q == GoesOn(p, slot, kind)
            IN /\ q \in PqStates
               /\ q.records = Append(p.records, EventReport(p, slot, kind))
               /\ q.state = p.state
               /\ q.told[slot] = Told(p.told[slot], kind, p.state[slot].id)
               /\ \A other \in Slots \ {slot} : q.told[other] = p.told[other]
               /\ q.active = p.active /\ q.sequence = p.sequence
         /\ LET q == Closes(p, slot, kind)
            IN /\ q \in PqStates
               /\ q.records = Append(p.records, EventReport(p, slot, kind))
               /\ q.state[slot] = Closed
               /\ q.told[slot] = Told(p.told[slot], kind, p.state[slot].id)
               /\ \A other \in Slots \ {slot} : /\ q.state[other] = p.state[other]
                                                /\ q.told[other] = p.told[other]
               /\ q.active = p.active /\ q.sequence = p.sequence
<1> DEFINE e == p.state[slot]
           recs == Append(p.records, EventReport(p, slot, kind))
           told == [p.told EXCEPT ![slot] = Told(@, kind, e.id)]
           closed == [p.state EXCEPT ![slot] = Closed]
           goesOn == [p.state EXCEPT ![slot] = @]
<1>1. /\ p.state \in [Slots -> PqEvents] /\ p.told \in [Slots -> Int]
      /\ p.records \in Seq(PqReports)
  BY DEF PqStates
<1>2. e.id \in Nat /\ p.told[slot] \in Int /\ e \in PqEvents
  BY <1>1 DEF PqEvents
<1>3. recs \in Seq(PqReports)
  <2>1. EventReport(p, slot, kind) \in PqReports
    BY EventReportFields
  <2> HIDE DEF PqReports
  <2> QED
    BY <1>1, <2>1
<1>4. told \in [Slots -> Int]
  <2>1. Told(p.told[slot], kind, e.id) \in Int
    BY <1>2 DEF Told, NoEvent, Unpaired
  <2> QED
    BY <1>1, <2>1
<1>5. closed \in [Slots -> PqEvents] /\ goesOn = p.state
  <2>1. Closed \in PqEvents
    BY DEF Closed, PqEvents, NoEvent
  <2> QED
    BY <1>1, <1>2, <2>1
<1>6. PqEmit(p, slot, kind) = [p EXCEPT !.records = recs, !.firstAfter = FALSE, !.told = told]
  BY <1>1 DEF PqEmit, PqStates, EventReport
<1> HIDE DEF recs, told
<1>7. /\ Closes(p, slot, kind) =
           [p EXCEPT !.records = recs, !.firstAfter = FALSE, !.told = told, !.state = closed]
      /\ GoesOn(p, slot, kind) =
           [p EXCEPT !.records = recs, !.firstAfter = FALSE, !.told = told, !.state = goesOn]
  <2>1. Closes(p, slot, kind) =
           [p EXCEPT !.records = recs, !.firstAfter = FALSE, !.told = told, !.state = closed]
    BY <1>6 DEF Emitted, PqStates, Closes
  <2>2. GoesOn(p, slot, kind) =
           [p EXCEPT !.records = recs, !.firstAfter = FALSE, !.told = told, !.state = goesOn]
    BY <1>6 DEF Emitted, PqStates, GoesOn
  <2> QED
    BY <2>1, <2>2
<1> HIDE DEF closed, goesOn
<1>8. LET q == Closes(p, slot, kind)
      IN /\ q \in PqStates /\ q.records = recs /\ q.state = closed /\ q.told = told
         /\ q.active = p.active /\ q.sequence = p.sequence
  <2> DEFINE q == [p EXCEPT !.records = recs, !.firstAfter = FALSE, !.told = told,
                            !.state = closed]
  <2>1. /\ q \in PqStates /\ q.records = recs /\ q.state = closed /\ q.told = told
        /\ q.active = p.active /\ q.sequence = p.sequence
    BY <1>3, <1>4, <1>5 DEF PqStates
  <2>2. Closes(p, slot, kind) = q
    BY <1>7
  <2> HIDE DEF q
  <2> QED
    BY <2>1, <2>2
<1>9. LET q == GoesOn(p, slot, kind)
      IN /\ q \in PqStates /\ q.records = recs /\ q.state = p.state /\ q.told = told
         /\ q.active = p.active /\ q.sequence = p.sequence
  <2> DEFINE q == [p EXCEPT !.records = recs, !.firstAfter = FALSE, !.told = told,
                            !.state = goesOn]
  <2>1. /\ q \in PqStates /\ q.records = recs /\ q.state = goesOn /\ q.told = told
        /\ q.active = p.active /\ q.sequence = p.sequence
    BY <1>1, <1>3, <1>4, <1>5 DEF PqStates
  <2>2. GoesOn(p, slot, kind) = q
    BY <1>7
  <2> HIDE DEF q
  <2> QED
    BY <1>5, <2>1, <2>2
<1> QED
  BY <1>1, <1>8, <1>9 DEF recs, told, closed

LEMMA ClosesFields ==
  ASSUME NEW p \in PqStates, NEW slot \in Slots, NEW kind \in EventKinds
  PROVE  LET q == Closes(p, slot, kind)
         IN /\ q \in PqStates
            /\ q.records = Append(p.records, EventReport(p, slot, kind))
            /\ q.state[slot] = Closed
            /\ q.told[slot] = Told(p.told[slot], kind, p.state[slot].id)
            /\ \A other \in Slots \ {slot} : /\ q.state[other] = p.state[other]
                                             /\ q.told[other] = p.told[other]
            /\ q.active = p.active /\ q.sequence = p.sequence
  BY EmittedFields, Zenon

(* What is told of a slot follows the event there through each record.      *)
PqPaired(p) == \A slot \in Slots : p.told[slot] = p.state[slot].id

LEMMA EmittedCarries ==
  ASSUME NEW p \in PqStates, NEW slot \in Slots, NEW kind \in EventKinds, NEW q \in PqStates,
         \/ kind \in {"start", "update"} /\ q = GoesOn(p, slot, kind)
         \/ kind \in {"end", "abort"} /\ q = Closes(p, slot, kind),
         NEW since \in Int, NEW owed,
         \A other \in Slots \ {slot} : p.told[other] = p.state[other].id,
         Open(p, slot),
         p.told[slot] = IF kind = "start" THEN NoEvent ELSE p.state[slot].id,
         \A other \in Slots : Open(p, other) => p.state[other].first >= since,
         ReportedSound(p.records, since, owed),
         "event" \in owed \ Announced(p.records) => p.firstAfter
  PROVE  PqCarries(q, since, owed)
<1> DEFINE e == p.state[slot]
           r == EventReport(p, slot, kind)
           f == IF kind \in {"start", "update"} THEN e ELSE Closed
<1>1. /\ r \in PqReports /\ r.channel = "event" /\ r.first = e.first
      /\ p.firstAfter => r.marked
  BY EventReportFields
<1>2. /\ p.state \in [Slots -> PqEvents] /\ p.told \in [Slots -> Int]
      /\ p.records \in Seq(PqReports) /\ p.firstAfter \in BOOLEAN
  BY DEF PqStates
<1>3. /\ q.records = Append(p.records, r) /\ q.state[slot] = f
      /\ q.told[slot] = Told(p.told[slot], kind, e.id)
      /\ \A other \in Slots \ {slot} : /\ q.state[other] = p.state[other]
                                       /\ q.told[other] = p.told[other]
  <2>1. CASE kind \in {"start", "update"}
    <3>1. q = GoesOn(p, slot, kind) /\ f = e
      BY <2>1
    <3> HIDE DEF f
    <3>2. /\ q.records = Append(p.records, EventReport(p, slot, kind)) /\ q.state = p.state
          /\ q.told[slot] = Told(p.told[slot], kind, p.state[slot].id)
          /\ \A other \in Slots \ {slot} : q.told[other] = p.told[other]
      BY <3>1, EmittedFields
    <3> QED
      BY <3>1, <3>2
  <2>2. CASE kind \in {"end", "abort"}
    <3>1. q = Closes(p, slot, kind) /\ f = Closed
      BY <2>2
    <3> HIDE DEF f
    <3>2. /\ q.records = Append(p.records, EventReport(p, slot, kind))
          /\ q.state[slot] = Closed
          /\ q.told[slot] = Told(p.told[slot], kind, p.state[slot].id)
          /\ \A other \in Slots \ {slot} : /\ q.state[other] = p.state[other]
                                           /\ q.told[other] = p.told[other]
      BY <3>1, ClosesFields
    <3> QED
      BY <3>1, <3>2
  <2> QED
    BY <2>1, <2>2 DEF EventKinds
<1>4. e.first >= since
  BY DEF Open
<1> HIDE DEF r
<1>5. /\ ReportedSound(q.records, since, owed)
      /\ Announced(q.records) = Announced(p.records) \cup {"event"}
  <2>1. /\ ReportedSound(Append(p.records, r), since, owed)
        /\ Announced(Append(p.records, r)) = Announced(p.records) \cup {r.channel}
    BY <1>1, <1>2, <1>4, Reporting
  <2> QED
    BY <1>1, <1>3, <2>1
<1>6. Told(p.told[slot], kind, e.id) = f.id
  <2>1. CASE kind = "start"
    BY <2>1 DEF Told
  <2>2. CASE kind # "start"
    BY <2>2 DEF Told, EventKinds, Closed
  <2> QED
    BY <2>1, <2>2
<1>7. PqPaired(q)
  <2>1. q.told[slot] = q.state[slot].id
    BY <1>2, <1>3, <1>6
  <2>2. \A other \in Slots \ {slot} : q.told[other] = q.state[other].id
    BY <1>2, <1>3
  <2> QED
    BY <2>1, <2>2 DEF PqPaired
<1>8. ASSUME NEW other \in Slots, Open(q, other)
      PROVE  q.state[other].first >= since
  <2>1. CASE other = slot
    BY <1>2, <1>3, <1>4, <1>8, <2>1 DEF Open, Closed
  <2>2. CASE other # slot
    BY <1>2, <1>3, <1>8, <2>2 DEF Open
  <2> QED
    BY <2>1, <2>2
<1> QED
  BY <1>5, <1>7, <1>8 DEF PqCarries, PqPaired

(* An abort, whatever was lost before it.                                   *)
LEMMA AbortFields ==
  ASSUME NEW p \in PqStates, NEW slot \in Slots, NEW frame \in Frames,
         NEW since \in Int, NEW owed, PqPaired(p), ReportedSound(p.records, since, owed)
  PROVE  LET q == Abort(p, slot, frame)
         IN /\ q \in PqStates /\ PqPaired(q) /\ ReportedSound(q.records, since, owed)
            /\ ~Open(q, slot) /\ (q = p \/ "event" \in Announced(q.records))
            /\ \A other \in Slots \ {slot} : q.state[other] = p.state[other]
            /\ q.active = p.active /\ q.sequence = p.sequence
<1> DEFINE last == frame.sample
           e == [p.state[slot] EXCEPT !.last = last]
           held == [p EXCEPT !.state[slot].last = frame.sample]
           q == Closes(held, slot, "abort")
           r == EventReport(held, slot, "abort")
<1>1. /\ p.state \in [Slots -> PqEvents] /\ p.told \in [Slots -> Int]
      /\ p.records \in Seq(PqReports) /\ last \in Int
  BY DEF PqStates, Frames
<1>2. CASE ~Open(p, slot)
  BY <1>2 DEF Abort
<1>3. CASE Open(p, slot)
  <2>1. held = [p EXCEPT !.state = [p.state EXCEPT ![slot] = e]]
    BY <1>1 DEF PqStates
  <2>2. e \in PqEvents /\ e.id = p.state[slot].id
    <3>1. p.state[slot] \in PqEvents
      BY <1>1
    <3> HIDE DEF last
    <3> QED
      BY <1>1, <3>1 DEF PqEvents
  <2> HIDE DEF e, held
  <2>3. /\ held \in PqStates /\ held.state = [p.state EXCEPT ![slot] = e]
        /\ held.told = p.told /\ held.records = p.records /\ held.active = p.active
        /\ held.sequence = p.sequence /\ held.firstAfter = p.firstAfter
    <3> DEFINE state == [p.state EXCEPT ![slot] = e]
    <3>1. state \in [Slots -> PqEvents]
      BY <1>1, <2>2
    <3>2. held = [p EXCEPT !.state = state]
      BY <2>1
    <3> HIDE DEF state
    <3>3. /\ held \in PqStates /\ held.state = state
          /\ held.told = p.told /\ held.records = p.records /\ held.active = p.active
          /\ held.sequence = p.sequence /\ held.firstAfter = p.firstAfter
      BY <3>1, <3>2 DEF PqStates
    <3> QED
      BY <3>3 DEF state
  <2>4. /\ q \in PqStates /\ r \in PqReports /\ q.records = Append(held.records, r)
        /\ r.channel = "event"
        /\ q.state[slot] = Closed
        /\ q.told[slot] = Told(held.told[slot], "abort", held.state[slot].id)
        /\ \A other \in Slots \ {slot} : /\ q.state[other] = held.state[other]
                                         /\ q.told[other] = held.told[other]
        /\ q.active = held.active /\ q.sequence = held.sequence
    <3>1. "abort" \in EventKinds /\ held \in PqStates
      BY <2>3 DEF EventKinds
    <3>2. r \in PqReports /\ r.channel = "event"
      BY <3>1, EventReportFields
    <3>3. /\ q \in PqStates /\ q.records = Append(held.records, r)
          /\ q.state[slot] = Closed
          /\ q.told[slot] = Told(held.told[slot], "abort", held.state[slot].id)
          /\ \A other \in Slots \ {slot} : /\ q.state[other] = held.state[other]
                                           /\ q.told[other] = held.told[other]
          /\ q.active = held.active /\ q.sequence = held.sequence
      BY <3>1, EmittedFields
    <3> QED
      BY <3>2, <3>3
  <2>5. ~r.valid /\ r.marked
    BY <2>3, EventReportFields DEF EventKinds
  <2> HIDE DEF q, r
  <2>6. ReportedSound(q.records, since, owed) /\ "event" \in Announced(q.records)
    <3>1. /\ ReportedSound(Append(p.records, r), since, owed)
          /\ Announced(Append(p.records, r)) = Announced(p.records) \cup {r.channel}
      BY <1>1, <2>3, <2>4, <2>5, Reporting
    <3> QED
      BY <2>3, <2>4, <3>1
  <2>7. held.state[slot].id = p.told[slot]
    BY <1>1, <2>2, <2>3 DEF PqPaired
  <2>8. q.told[slot] = NoEvent /\ q.state[slot] = Closed
    BY <1>1, <2>3, <2>4, <2>7 DEF Told
  <2>9. \A other \in Slots \ {slot} : /\ q.state[other] = p.state[other]
                                       /\ q.told[other] = p.told[other]
    BY <1>1, <2>3, <2>4
  <2>10. PqPaired(q) /\ ~Open(q, slot)
    BY <2>8, <2>9 DEF PqPaired, Open, Closed
  <2>11. q = Abort(p, slot, frame)
    BY <1>3 DEF Abort, q, held, Closes
  <2> QED
    BY <2>3, <2>4, <2>6, <2>9, <2>10, <2>11
<1> QED
  BY <1>2, <1>3

LEMMA AbortAllFields ==
  ASSUME NEW p \in PqStates, NEW frame \in Frames, NEW since \in Int, NEW owed,
         PqPaired(p), ReportedSound(p.records, since, owed)
  PROVE  LET q == AbortAll(p, frame)
         IN /\ q \in PqStates /\ PqFresh(q) /\ PqCarries(q, since, owed)
            /\ q.active = p.active /\ q.sequence = p.sequence
<1>1. "sag" \in Slots /\ "rvc" \in Slots /\ Slots = {"sag", "rvc"}
  BY DEF Slots
<1>2. PICK one \in PqStates : one = Abort(p, "sag", frame)
  BY <1>1, AbortFields
<1>3. /\ PqPaired(one) /\ ReportedSound(one.records, since, owed) /\ ~Open(one, "sag")
      /\ one.active = p.active /\ one.sequence = p.sequence
  BY <1>1, <1>2, AbortFields
<1>4. PICK two \in PqStates : two = Abort(one, "rvc", frame)
  BY <1>1, <1>3, AbortFields
<1>5. /\ PqPaired(two) /\ ReportedSound(two.records, since, owed) /\ ~Open(two, "rvc")
      /\ two.active = p.active /\ two.sequence = p.sequence
      /\ two.state["sag"] = one.state["sag"]
  BY <1>1, <1>3, <1>4, AbortFields
<1>6. PICK q \in PqStates : q = [two EXCEPT !.firstAfter = TRUE]
  BY DEF PqStates
<1>7. /\ q.state = two.state /\ q.told = two.told /\ q.records = two.records
      /\ q.active = two.active /\ q.sequence = two.sequence /\ q.firstAfter = TRUE
  BY <1>6 DEF PqStates
<1>8. \A slot \in Slots : ~Open(q, slot)
  BY <1>1, <1>3, <1>5, <1>7 DEF Open
<1>9. PqFresh(q) /\ PqCarries(q, since, owed)
  BY <1>5, <1>7, <1>8 DEF PqFresh, PqCarries, PqPaired
<1>10. q = AbortAll(p, frame)
  BY <1>2, <1>4, <1>6 DEF AbortAll
<1> QED
  BY <1>3, <1>5, <1>7, <1>9, <1>10

(* What does not touch the events, and changes of one event that is open.   *)
LEMMA SameEvents ==
  ASSUME NEW p \in PqStates, NEW q \in PqStates, NEW since, NEW owed,
         q.state = p.state, q.told = p.told, q.records = p.records, p.firstAfter => q.firstAfter
  PROVE  /\ PqCarries(p, since, owed) => PqCarries(q, since, owed)
         /\ PqFresh(p) => PqFresh(q)
         /\ PqPaired(p) => PqPaired(q)
BY DEF PqCarries, PqFresh, PqPaired, Open

LEMMA ForgottenFields ==
  ASSUME NEW p \in PqStates
  PROVE  LET q == Forgotten(p)
         IN /\ q \in PqStates /\ q.state = p.state /\ q.told = p.told /\ q.records = p.records
            /\ q.firstAfter = p.firstAfter /\ q.active = p.active /\ q.sequence = p.sequence
<1> DEFINE halves == <<FALSE, FALSE>>
<1>1. halves \in BOOLEAN \X BOOLEAN
  OBVIOUS
<1>2. Forgotten(p) = [p EXCEPT !.history = halves, !.armed = FALSE]
  BY DEF Forgotten
<1> HIDE DEF halves
<1> QED
  BY <1>1, <1>2 DEF PqStates

(* A slot gets another state of its event.                                  *)
Replaced(p, slot, event, counter) == [p EXCEPT !.counter = counter, !.state[slot] = event]

LEMMA EventReplaced ==
  ASSUME NEW p \in PqStates, NEW slot \in Slots, NEW event \in PqEvents, NEW counter \in Nat,
         NEW q, q = Replaced(p, slot, event, counter)
  PROVE  /\ q \in PqStates /\ q.state[slot] = event
         /\ \A other \in Slots \ {slot} : q.state[other] = p.state[other]
         /\ q.told = p.told /\ q.records = p.records /\ q.firstAfter = p.firstAfter
         /\ q.active = p.active /\ q.sequence = p.sequence
<1> DEFINE state == [p.state EXCEPT ![slot] = event]
<1>1. p.state \in [Slots -> PqEvents]
  BY DEF PqStates
<1>2. /\ state \in [Slots -> PqEvents] /\ state[slot] = event
      /\ \A other \in Slots \ {slot} : state[other] = p.state[other]
  BY <1>1
<1>3. q = [p EXCEPT !.counter = counter, !.state = state]
  BY DEF PqStates, Replaced
<1> HIDE DEF state
<1>4. /\ q \in PqStates /\ q.state = state
      /\ q.told = p.told /\ q.records = p.records /\ q.firstAfter = p.firstAfter
      /\ q.active = p.active /\ q.sequence = p.sequence
  BY <1>2, <1>3 DEF PqStates
<1> QED
  BY <1>2, <1>4

LEMMA StartedCarries ==
  ASSUME NEW p \in PqStates, NEW slot \in Slots, NEW frame \in Frames, ~Open(p, slot),
         NEW since \in Int, NEW owed, PqCarries(p, since, owed), frame.sample >= since
  PROVE  LET q == Started(p, slot, frame)
         IN /\ q \in PqStates /\ PqCarries(q, since, owed)
            /\ q.active = p.active /\ q.sequence = p.sequence
<1> DEFINE counter == p.counter + 1
           event == [id |-> counter, first |-> frame.sample, last |-> frame.sample,
                     emitted |-> frame.sample]
<1>1. /\ p.counter \in Nat /\ p.state \in [Slots -> PqEvents] /\ frame.sample \in Nat
  BY DEF PqStates, Frames
<1>2. counter \in Nat /\ counter # NoEvent /\ event \in PqEvents
      /\ event.id = counter /\ event.first = frame.sample
  BY <1>1 DEF PqEvents, NoEvent
<1>3. PICK held : held = Replaced(p, slot, event, counter)
  OBVIOUS
<1>4. Started(p, slot, frame) = GoesOn(held, slot, "start")
  BY <1>3 DEF Started, GoesOn, Replaced
<1> HIDE DEF counter, event
<1>5. /\ held \in PqStates /\ held.state[slot] = event
      /\ \A other \in Slots \ {slot} : held.state[other] = p.state[other]
      /\ held.told = p.told /\ held.records = p.records /\ held.firstAfter = p.firstAfter
      /\ held.active = p.active /\ held.sequence = p.sequence
  BY <1>2, <1>3, EventReplaced
<1>6. "start" \in EventKinds /\ held \in PqStates
  BY <1>5 DEF EventKinds
<1>7. PICK q \in PqStates : q = GoesOn(held, slot, "start")
  BY <1>6, EmittedFields
<1>8. q.active = held.active /\ q.sequence = held.sequence
  BY <1>6, <1>7, EmittedFields
<1>9. /\ \A other \in Slots \ {slot} : held.told[other] = held.state[other].id
      /\ Open(held, slot) /\ held.told[slot] = NoEvent
      /\ \A other \in Slots : Open(held, other) => held.state[other].first >= since
      /\ ReportedSound(held.records, since, owed)
      /\ "event" \in owed \ Announced(held.records) => held.firstAfter
  BY <1>2, <1>5 DEF PqCarries, Open
<1>10. PqCarries(q, since, owed)
  BY <1>6, <1>7, <1>9, EmittedCarries
<1> QED
  BY <1>4, <1>5, <1>7, <1>8, <1>10

LEMMA ContinuedCarries ==
  ASSUME NEW p \in PqStates, NEW slot \in Slots, NEW frame \in Frames, NEW outcome,
         Open(p, slot), NEW since \in Int, NEW owed, PqCarries(p, since, owed)
  PROVE  LET q == Continued(p, slot, frame, outcome)
         IN /\ q \in PqStates /\ PqCarries(q, since, owed)
            /\ q.active = p.active /\ q.sequence = p.sequence
<1> DEFINE sample == frame.sample
           event == [p.state[slot] EXCEPT !.last = sample]
           later == [p.state[slot] EXCEPT !.last = sample, !.emitted = sample]
<1>1. /\ p.counter \in Nat /\ p.state \in [Slots -> PqEvents] /\ sample \in Nat
      /\ p.state[slot] \in PqEvents
  BY DEF PqStates, Frames
<1>2. PICK counter \in Nat : counter = p.counter
  BY <1>1
<1>3. /\ event \in PqEvents /\ event.id = p.state[slot].id /\ event.first = p.state[slot].first
      /\ later \in PqEvents /\ later.id = p.state[slot].id /\ later.first = p.state[slot].first
  <2> HIDE DEF sample
  <2>1. PICK e \in PqEvents : e = p.state[slot]
    BY <1>1
  <2>2. /\ [e EXCEPT !.last = sample] \in PqEvents
        /\ [e EXCEPT !.last = sample, !.emitted = sample] \in PqEvents
    <3>1. sample \in Int
      BY <1>1
    <3>2. [e EXCEPT !.last = sample] \in PqEvents
      BY <3>1 DEF PqEvents
    <3>3. [e EXCEPT !.last = sample, !.emitted = sample] \in PqEvents
      BY <3>1 DEF PqEvents
    <3> QED
      BY <3>2, <3>3
  <2>3. /\ [e EXCEPT !.last = sample].id = e.id /\ [e EXCEPT !.last = sample].first = e.first
        /\ [e EXCEPT !.last = sample, !.emitted = sample].id = e.id
        /\ [e EXCEPT !.last = sample, !.emitted = sample].first = e.first
    BY DEF PqEvents
  <2> QED
    BY <2>1, <2>2, <2>3
<1>4. PICK held : held = Replaced(p, slot, event, counter)
  OBVIOUS
<1>5. PICK kept : kept = Replaced(p, slot, later, counter)
  OBVIOUS
<1>6. /\ held = [p EXCEPT !.state[slot].last = frame.sample]
      /\ kept = [held EXCEPT !.state[slot].emitted = frame.sample]
  <2>1. held = [p EXCEPT !.state[slot].last = frame.sample]
    BY <1>1, <1>2, <1>4 DEF PqStates, Replaced
  <2>2. [p.state[slot] EXCEPT !.last = sample, !.emitted = sample]
          = [[p.state[slot] EXCEPT !.last = sample] EXCEPT !.emitted = sample]
    BY <1>1 DEF PqEvents
  <2>3. kept = [held EXCEPT !.state[slot].emitted = frame.sample]
    BY <1>1, <1>2, <1>4, <1>5, <2>2 DEF PqStates, Replaced
  <2> QED
    BY <2>1, <2>3
<1> HIDE DEF event, later
<1>7. ASSUME NEW e \in PqEvents, e.id = p.state[slot].id, e.first = p.state[slot].first,
             NEW h, h = Replaced(p, slot, e, counter)
      PROVE  /\ h \in PqStates /\ PqCarries(h, since, owed) /\ Open(h, slot)
             /\ h.active = p.active /\ h.sequence = p.sequence
  <2>1. /\ h \in PqStates /\ h.state[slot] = e
        /\ \A other \in Slots \ {slot} : h.state[other] = p.state[other]
        /\ h.told = p.told /\ h.records = p.records /\ h.firstAfter = p.firstAfter
        /\ h.active = p.active /\ h.sequence = p.sequence
    BY <1>7, EventReplaced
  <2> QED
    BY <1>7, <2>1 DEF PqCarries, Open
<1>8. ASSUME NEW h \in PqStates, PqCarries(h, since, owed), Open(h, slot)
      PROVE  /\ LET q == GoesOn(h, slot, "update")
                IN q \in PqStates /\ PqCarries(q, since, owed)
                   /\ q.active = h.active /\ q.sequence = h.sequence
             /\ LET q == Closes(h, slot, "end")
                IN q \in PqStates /\ PqCarries(q, since, owed)
                   /\ q.active = h.active /\ q.sequence = h.sequence
  <2>1. "update" \in EventKinds /\ "end" \in EventKinds
    BY DEF EventKinds
  <2>2. PICK one \in PqStates : one = GoesOn(h, slot, "update")
    BY <2>1, EmittedFields
  <2>3. PICK two \in PqStates : two = Closes(h, slot, "end")
    BY <2>1, EmittedFields
  <2>4. one.active = h.active /\ one.sequence = h.sequence
    BY <2>1, <2>2, EmittedFields
  <2>5. two.active = h.active /\ two.sequence = h.sequence
    BY <2>1, <2>3, EmittedFields
  <2>6. /\ \A other \in Slots \ {slot} : h.told[other] = h.state[other].id
        /\ h.told[slot] = h.state[slot].id
        /\ \A other \in Slots : Open(h, other) => h.state[other].first >= since
        /\ ReportedSound(h.records, since, owed)
        /\ "event" \in owed \ Announced(h.records) => h.firstAfter
    BY <1>8 DEF PqCarries
  <2>7. PqCarries(one, since, owed)
    BY <1>8, <2>1, <2>2, <2>6, EmittedCarries
  <2>8. PqCarries(two, since, owed)
    BY <1>8, <2>1, <2>3, <2>6, EmittedCarries
  <2> QED
    BY <2>2, <2>3, <2>4, <2>5, <2>7, <2>8
<1>9. /\ held \in PqStates /\ PqCarries(held, since, owed) /\ Open(held, slot)
      /\ held.active = p.active /\ held.sequence = p.sequence
  BY <1>3, <1>4, <1>7
<1>10. /\ kept \in PqStates /\ PqCarries(kept, since, owed) /\ Open(kept, slot)
       /\ kept.active = p.active /\ kept.sequence = p.sequence
  BY <1>3, <1>5, <1>7
<1>11. Continued(p, slot, frame, outcome) \in
         {held, GoesOn(kept, slot, "update"), Closes(held, slot, "end")}
  BY <1>6 DEF Continued, GoesOn, Closes
<1> QED
  BY <1>8, <1>9, <1>10, <1>11

LEMMA AbortCarries ==
  ASSUME NEW p \in PqStates, NEW slot \in Slots, NEW frame \in Frames,
         NEW since \in Int, NEW owed, PqCarries(p, since, owed)
  PROVE  LET q == Abort(p, slot, frame)
         IN /\ q \in PqStates /\ PqCarries(q, since, owed)
            /\ q.active = p.active /\ q.sequence = p.sequence
<1>1. PqPaired(p) /\ ReportedSound(p.records, since, owed)
  BY DEF PqCarries, PqPaired
<1>2. PICK q \in PqStates : q = Abort(p, slot, frame)
  BY <1>1, AbortFields
<1>3. /\ PqPaired(q) /\ ReportedSound(q.records, since, owed)
      /\ ~Open(q, slot) /\ (q = p \/ "event" \in Announced(q.records))
      /\ \A other \in Slots \ {slot} : q.state[other] = p.state[other]
      /\ q.active = p.active /\ q.sequence = p.sequence
  BY <1>1, <1>2, AbortFields
<1>4. PqCarries(q, since, owed)
  BY <1>3 DEF PqCarries, PqPaired, Open
<1> QED
  BY <1>2, <1>3, <1>4

(* A detector's evaluation.                                                 *)
LEMMA ProcessStateCarries ==
  ASSUME NEW p \in PqStates, NEW slot \in Slots, NEW frame \in Frames, NEW outcome,
         NEW since \in Int, NEW owed, PqCarries(p, since, owed), frame.sample >= since
  PROVE  LET q == ProcessState(p, slot, frame, outcome)
         IN /\ q \in PqStates /\ PqCarries(q, since, owed)
            /\ q.active = p.active /\ q.sequence = p.sequence
<1> DEFINE armed == Evaluable(p, slot, frame) /\ outcome = "recovered"
           waiting == [p EXCEPT !.armed = armed]
<1>1. /\ waiting \in PqStates /\ waiting.state = p.state /\ waiting.told = p.told
      /\ waiting.records = p.records /\ waiting.firstAfter = p.firstAfter
      /\ waiting.active = p.active /\ waiting.sequence = p.sequence
  <2>1. armed \in BOOLEAN
    OBVIOUS
  <2> HIDE DEF armed
  <2> QED
    BY <2>1 DEF PqStates
<1>2. PqCarries(waiting, since, owed)
  <2> HIDE DEF waiting
  <2> QED
    BY <1>1, SameEvents
<1> DEFINE good(q) == /\ q \in PqStates /\ PqCarries(q, since, owed)
                      /\ q.active = p.active /\ q.sequence = p.sequence
<1>3. ~Open(p, slot) => good(Started(p, slot, frame))
  BY StartedCarries
<1>4. Open(p, slot) => good(Continued(p, slot, frame, outcome))
  BY ContinuedCarries
<1>5. good(Abort(p, slot, frame))
  BY AbortCarries
<1>6. good(waiting) /\ good(p)
  BY <1>1, <1>2
<1>7. \/ ProcessState(p, slot, frame, outcome) = waiting
      \/ ~Open(p, slot) /\ ProcessState(p, slot, frame, outcome) = Started(p, slot, frame)
      \/ ProcessState(p, slot, frame, outcome) = p
      \/ ProcessState(p, slot, frame, outcome) = Abort(p, slot, frame)
      \/ /\ Open(p, slot)
         /\ ProcessState(p, slot, frame, outcome) = Continued(p, slot, frame, outcome)
  BY DEF ProcessState
<1> HIDE DEF good, waiting
<1>8. good(ProcessState(p, slot, frame, outcome))
  BY <1>3, <1>4, <1>5, <1>6, <1>7
<1> QED
  BY <1>8 DEF good

(* A half cycle.  After a loss every event is given up first, and what was  *)
(* heard begins with this frame.                                           *)
LEMMA MeasuredCarries ==
  ASSUME NEW p \in PqStates, NEW frame \in Frames, NEW outcome,
         NEW since \in Int, NEW owed, frame.sample >= since,
         PqPaired(p), ReportedSound(p.records, since, owed),
         \/ "disc" \in frame.flags \/ external \/ PqGap(p, frame)
         \/ PqCarries(p, since, owed)
  PROVE  LET q == PqMeasured(p, frame, outcome)
         IN /\ q \in PqStates /\ PqCarries(q, since, owed)
            /\ q.active = p.active /\ q.sequence = frame.sequence
<1> DEFINE broken == "disc" \in frame.flags \/ external \/ PqGap(p, frame)
<1>1. PICK ready \in PqStates :
        /\ ready = IF broken THEN Forgotten(AbortAll(p, frame)) ELSE p
        /\ PqCarries(ready, since, owed) /\ ready.active = p.active
  <2>1. CASE broken
    <3>1. PICK aborted \in PqStates : aborted = AbortAll(p, frame)
      BY AbortAllFields
    <3>2. PqCarries(aborted, since, owed) /\ aborted.active = p.active
      BY <3>1, AbortAllFields
    <3>3. PICK q \in PqStates : q = Forgotten(aborted)
      BY ForgottenFields
    <3>4. /\ q.state = aborted.state /\ q.told = aborted.told /\ q.records = aborted.records
          /\ q.firstAfter = aborted.firstAfter /\ q.active = aborted.active
      BY <3>3, ForgottenFields
    <3>5. PqCarries(q, since, owed)
      BY <3>2, <3>4, SameEvents
    <3> QED
      BY <2>1, <3>1, <3>2, <3>3, <3>4, <3>5
  <2>2. CASE ~broken
    BY <2>2
  <2> QED
    BY <2>1, <2>2
<1>2. "sag" \in Slots /\ "rvc" \in Slots
  BY DEF Slots
<1>3. PICK sag \in PqStates : sag = ProcessState(ready, "sag", frame, outcome["sag"])
  BY <1>1, <1>2, ProcessStateCarries
<1>4. PqCarries(sag, since, owed) /\ sag.active = p.active
  BY <1>1, <1>2, <1>3, ProcessStateCarries
<1>5. PICK done \in PqStates : done = ProcessState(sag, "rvc", frame, outcome["rvc"])
  BY <1>2, <1>4, ProcessStateCarries
<1>6. PqCarries(done, since, owed) /\ done.active = p.active
  BY <1>2, <1>4, <1>5, ProcessStateCarries
<1> DEFINE halves == <<"invalid" \notin frame.flags, done.history[1]>>
           sequence == frame.sequence
           q == [done EXCEPT !.sequence = sequence, !.history = halves]
<1>7. halves \in BOOLEAN \X BOOLEAN /\ sequence \in Int
  <2>1. done.history \in BOOLEAN \X BOOLEAN
    BY DEF PqStates
  <2>2. done.history[1] \in BOOLEAN /\ ("invalid" \notin frame.flags) \in BOOLEAN
    BY <2>1
  <2>3. \A a, b \in BOOLEAN : <<a, b>> \in BOOLEAN \X BOOLEAN
    OBVIOUS
  <2>4. halves \in BOOLEAN \X BOOLEAN
    BY <2>2, <2>3, Zenon
  <2> QED
    BY <2>4 DEF Frames
<1>8. q = PqMeasured(p, frame, outcome)
  BY <1>1, <1>3, <1>5 DEF PqMeasured
<1>9. /\ q \in PqStates /\ q.state = done.state /\ q.told = done.told
      /\ q.records = done.records /\ q.firstAfter = done.firstAfter
      /\ q.active = done.active /\ q.sequence = sequence
  <2> HIDE DEF halves, sequence
  <2> QED
    BY <1>7 DEF PqStates
<1>10. PqCarries(q, since, owed)
  <2> HIDE DEF q
  <2> QED
    BY <1>6, <1>9, SameEvents
<1> QED
  BY <1>6, <1>8, <1>9, <1>10

(* With nothing to publish and no open event everything can follow.         *)
LEMMA FreshCarries ==
  ASSUME NEW p \in PqStates, PqFresh(p), PqPaired(p), NEW since, NEW owed,
         ReportedSound(p.records, since, owed)
  PROVE  PqCarries(p, since, owed)
BY DEF PqFresh, PqPaired, PqCarries

(* A new configuration: every event is given up.                            *)
LEMMA ConfiguredFields ==
  ASSUME NEW v \in PqStates, NEW frame \in Frames, PqPaired(v), v.records = <<>>,
         v.active = NoFrame => PqFresh(v), NEW since \in Int, NEW owed
  PROVE  LET p == PqConfigured(v, frame)
         IN /\ p \in PqStates /\ PqPaired(p) /\ ReportedSound(p.records, since, owed)
            /\ p.sequence = v.sequence
            /\ p = v \/ (p.active = frame.generation /\ PqFresh(p) /\ PqCarries(p, since, owed))
<1> DEFINE base == IF v.active # NoFrame THEN AbortAll(v, frame) ELSE v
           generation == frame.generation
           p == [Forgotten(base) EXCEPT !.active = generation, !.firstAfter = TRUE]
<1>1. CASE PqConfigured(v, frame) = v
  BY <1>1, NothingReported
<1>2. CASE PqConfigured(v, frame) # v
  <2>1. PqConfigured(v, frame) = p
    BY <1>2 DEF PqConfigured
  <2>2. generation \in Int /\ generation = frame.generation
    BY DEF Frames
  <2>3. ReportedSound(v.records, since, owed)
    BY NothingReported
  <2>4. PICK b \in PqStates : b = base
    BY <2>3, AbortAllFields
  <2>5. PqFresh(b) /\ PqCarries(b, since, owed) /\ b.sequence = v.sequence
    <3>1. CASE v.active = NoFrame
      BY <2>3, <2>4, <3>1, FreshCarries
    <3>2. CASE v.active # NoFrame
      BY <2>3, <2>4, <3>2, AbortAllFields
    <3> QED
      BY <3>1, <3>2
  <2>6. PICK f \in PqStates : f = Forgotten(b)
    BY ForgottenFields
  <2>7. /\ f.state = b.state /\ f.told = b.told /\ f.records = b.records
        /\ f.firstAfter = b.firstAfter /\ f.sequence = b.sequence
    BY <2>6, ForgottenFields
  <2>8. PqFresh(f) /\ PqCarries(f, since, owed)
    BY <2>5, <2>7, SameEvents
  <2>9. p = [f EXCEPT !.active = generation, !.firstAfter = TRUE]
    BY <2>4, <2>6
  <2> HIDE DEF p, base, generation
  <2>10. /\ p \in PqStates /\ p.state = f.state /\ p.told = f.told /\ p.records = f.records
         /\ p.firstAfter /\ p.sequence = f.sequence /\ p.active = generation
    BY <2>2, <2>9 DEF PqStates
  <2>11. PqFresh(p) /\ PqCarries(p, since, owed)
    BY <2>8, <2>10, SameEvents
  <2>12. PqPaired(p) /\ ReportedSound(p.records, since, owed)
    BY <2>11 DEF PqCarries, PqPaired
  <2> QED
    BY <2>1, <2>2, <2>5, <2>7, <2>10, <2>11, <2>12
<1> QED
  BY <1>1, <1>2

(* Publishing the records of a step.                                        *)
LEMMA PublishedFields ==
  ASSUME NEW p \in PqStates, PqPublish(p), NEW since \in Int, NEW owed,
         since = track'.since, owed = track'.owed, PqCarries(p, since, owed)
  PROVE  /\ pq' \in PqStates /\ pq'.records = <<>> /\ EventRecordsPair'
         /\ \A slot \in Slots : Open(pq', slot) => pq'.state[slot].first >= track'.since
         /\ "event" \in Owing' => pq'.firstAfter
         /\ pq'.active = p.active /\ pq'.sequence = p.sequence
         /\ PqFresh(p) => PqFresh(pq')
         /\ ReportedSound(records, track.since, track.owed)'
<1>1. pq' = [p EXCEPT !.records = <<>>] /\ records' = p.records
  BY DEF PqPublish
<1>2. <<>> \in Seq(PqReports)
  OBVIOUS
<1>3. /\ pq' \in PqStates /\ pq'.records = <<>> /\ pq'.state = p.state /\ pq'.told = p.told
      /\ pq'.firstAfter = p.firstAfter /\ pq'.active = p.active /\ pq'.sequence = p.sequence
  BY <1>1, <1>2 DEF PqStates
<1>4. Owing' = owed \ Announced(p.records)
  BY <1>1 DEF Owing, Announced
<1> QED
  BY <1>1, <1>3, <1>4 DEF PqCarries, EventRecordsPair, Open, PqFresh

(* The frame after the newest one continues the samples, too, save for a    *)
(* jump or a source drop that it tells of.                                 *)
LEMMA FollowingFrame ==
  ASSUME StreamTypes, StreamOrder, NEW limit, NEW flaws \in SUBSET SUBSET Flags,
         NEW frame \in Arriving(limit, flaws), stream.newest # NoNewest,
         frame.sequence = stream.newest.sequence + 1
  PROVE  /\ frame.flags = {} \/ frame.flags \in flaws
         /\ frame.sample = IF frame.flags \cap {"jump", "drop"} = {}
                           THEN stream.newest.sample + 1 ELSE stream.newest.sample + 2
<1>1. /\ stream \in Streams /\ stream.newest \in Frames
      /\ stream.sample - stream.newest.sample = stream.next - stream.newest.sequence
  BY DEF StreamTypes, Streams, StreamOrder
<1>2. /\ stream.next \in Nat /\ stream.sample \in Nat
      /\ stream.newest.sequence \in Nat /\ stream.newest.sample \in Nat
  BY <1>1 DEF Streams, Frames
<1>3. frame # stream.newest
  BY <1>2
<1>4. /\ frame.sequence = stream.next
      /\ frame.flags = {} \/ frame.flags \in flaws
      /\ frame.sample = IF frame.flags \cap {"jump", "drop"} = {}
                        THEN stream.sample ELSE stream.sample + 1
  BY <1>3, ArrivingFrames
<1>5. stream.sample = stream.newest.sample + 1
  BY <1>1, <1>2, <1>4
<1> QED
  BY <1>2, <1>4, <1>5

LEMMA PqFrame ==
  ASSUME StreamTypes, StreamOrder, PqInvariant,
         NEW frame \in Arriving(MaxHalfCycles, HalfCycleFlaws), PqProcess(frame), Sent(frame)
  PROVE  /\ StreamTypes' /\ StreamOrder' /\ PqInvariant'
         /\ ReportedSound(records, track.since, track.owed)'
<1>1. HalfCycleFlaws \in SUBSET SUBSET Flags
  BY DEF HalfCycleFlaws, Flags
<1>2. /\ frame \in Frames
      /\ \/ frame = stream.newest /\ stream.newest # NoNewest
         \/ /\ frame # stream.newest /\ frame.sequence = stream.next
            /\ frame.sample \in {stream.sample, stream.sample + 1}
  BY <1>1, ArrivingFrames
<1>4. /\ frame.sample \in Nat /\ frame.sequence \in Nat /\ stream \in Streams
      /\ track \in Tracks
  BY <1>2 DEF Frames, StreamTypes
<1>6. PICK v \in PqStates : v = pq
  BY DEF PqInvariant
<1>7. /\ PqPaired(v) /\ v.records = <<>> /\ (v.active = NoFrame => PqFresh(v))
  BY <1>6 DEF PqInvariant, PqPaired, EventRecordsPair
<1>8. PICK p : p = PqConfigured(v, frame)
  OBVIOUS
<1>9. /\ p \in PqStates /\ PqPaired(p) /\ p.sequence = v.sequence
      /\ p = v \/ (p.active = frame.generation /\ PqFresh(p))
  BY <1>2, <1>7, <1>8, ConfiguredFields
<1>10. ASSUME NEW since \in Int, NEW owed
       PROVE  /\ ReportedSound(p.records, since, owed)
              /\ p = v \/ PqCarries(p, since, owed)
  BY <1>2, <1>7, <1>8, ConfiguredFields
<1>11. \/ track' = Heard(frame) \/ track' = Unheard \/ track' = [track EXCEPT !.owed = Owing]
  BY DEF PqProcess
<1>12. external' \in BOOLEAN
  BY DEF PqProcess, StreamTypes
<1>13. StreamTypes' /\ StreamOrder'
  BY <1>2, <1>11, <1>12, StreamAfterFrame
<1>14. stream'.newest = frame /\ frame # NoNewest
  BY <1>2, SentFrames
<1>15. PICK since, owed : since = track'.since /\ owed = track'.owed
  OBVIOUS
<1>16. since \in Int
  BY <1>13, <1>15 DEF StreamTypes, Tracks
<1>17. PqCarries(v, track.since, Owing)
  BY <1>6, NothingReported DEF PqInvariant, PqCarries, EventRecordsPair
(* Whatever is published: the rest of the invariant.                        *)
<1>18. ASSUME NEW q \in PqStates, PqPublish(q), PqCarries(q, since, owed),
              q.active = NoFrame => PqFresh(q),
              PqFresh(q) \/ (q.sequence = frame.sequence /\ track'.next = frame.sample + 1)
       PROVE  PqInvariant' /\ ReportedSound(records, track.since, track.owed)'
  <2>1. /\ pq' \in PqStates /\ pq'.records = <<>> /\ EventRecordsPair'
        /\ \A slot \in Slots : Open(pq', slot) => pq'.state[slot].first >= track'.since
        /\ "event" \in Owing' => pq'.firstAfter
        /\ pq'.active = q.active /\ pq'.sequence = q.sequence
        /\ PqFresh(q) => PqFresh(pq')
        /\ ReportedSound(records, track.since, track.owed)'
    BY <1>15, <1>16, <1>18, PublishedFields
  <2> QED
    BY <1>14, <1>18, <2>1 DEF PqInvariant
<1>19. CASE p.active # frame.generation
  <2>1. p = v
    BY <1>9, <1>19
  <2>2. PICK q : q = IF p.active # NoFrame THEN AbortAll(p, frame) ELSE p
    OBVIOUS
  <2>3. PqPublish(q)
    BY <1>6, <1>8, <1>19, <2>2 DEF PqProcess
  <2>4. q \in PqStates /\ PqFresh(q) /\ PqCarries(q, since, owed)
    <3>1. CASE p.active = NoFrame
      BY <1>7, <1>9, <1>10, <1>16, <2>1, <2>2, <3>1, FreshCarries
    <3>2. CASE p.active # NoFrame
      BY <1>2, <1>9, <1>10, <1>16, <2>2, <3>2, AbortAllFields
    <3> QED
      BY <3>1, <3>2
  <2> QED
    BY <1>13, <1>18, <2>3, <2>4
<1>20. CASE p.active = frame.generation /\ PqStale(p, frame)
  <2>1. PqPublish(p) /\ track' = [track EXCEPT !.owed = Owing]
    BY <1>6, <1>8, <1>20 DEF PqProcess
  <2>2. since = track.since /\ owed = Owing /\ track'.next = track.next
    BY <1>15, <2>1, UnheardFields
  <2>3. PqCarries(p, since, owed)
    BY <1>10, <1>16, <1>17, <2>2
  <2>4. p.active # NoFrame
    BY <1>2, <1>20 DEF Frames, NoFrame
  <2>5. PqFresh(p) \/ (p.sequence = frame.sequence /\ track'.next = frame.sample + 1)
    <3>1. ASSUME ~PqFresh(p)
          PROVE  p.sequence = frame.sequence /\ track'.next = frame.sample + 1
      <4>1. /\ p = v /\ stream.newest \in Frames /\ v.sequence = stream.newest.sequence
            /\ track.next = stream.newest.sample + 1
            /\ stream.newest.sequence < stream.next
        BY <1>4, <1>6, <1>9, <3>1 DEF PqInvariant, Streams, StreamOrder
      <4>2. frame = stream.newest
        BY <1>2, <1>4, <1>20, <4>1 DEF PqStale, Streams, Frames
      <4> QED
        BY <2>2, <4>1, <4>2
    <3> QED
      BY <3>1
  <2> QED
    BY <1>9, <1>13, <1>18, <2>1, <2>3, <2>4, <2>5
<1>21. CASE p.active = frame.generation /\ ~PqStale(p, frame)
  <2>1. PICK outcome \in [Slots -> Outcomes] : PqPublish(PqMeasured(p, frame, outcome))
    BY <1>6, <1>8, <1>21 DEF PqProcess
  <2>2. track' = Heard(frame)
    BY <1>6, <1>8, <1>21 DEF PqProcess
  <2>3. /\ track'.next = frame.sample + 1 /\ since <= frame.sample
        /\ frame.sample = track.next => since = track.since /\ owed = Owing
    BY <1>2, <1>15, <2>2, HeardFields
  <2>4. \/ "disc" \in frame.flags \/ external \/ PqGap(p, frame)
        \/ PqCarries(p, since, owed)
    <3>1. CASE p # v
      BY <1>10, <1>16, <3>1
    <3>2. CASE p = v /\ PqFresh(v)
      BY <1>9, <1>10, <1>16, <3>2, FreshCarries
    <3>3. CASE p = v /\ ~PqFresh(v) /\ ~PqGap(p, frame) /\ "disc" \notin frame.flags
      <4>1. /\ stream.newest # NoNewest /\ stream.newest \in Frames
            /\ v.sequence = stream.newest.sequence /\ track.next = stream.newest.sample + 1
        BY <1>4, <1>6, <3>3 DEF PqInvariant, Streams
      <4>2. frame.sequence = stream.newest.sequence + 1
        BY <3>3, <4>1 DEF PqGap, Frames, NoFrame
      <4>3. frame.flags \cap {"jump", "drop"} = {}
        BY <1>1, <3>3, <4>1, <4>2, FollowingFrame DEF HalfCycleFlaws
      <4>4. frame.sample = track.next
        BY <1>1, <4>1, <4>2, <4>3, FollowingFrame
      <4> QED
        BY <1>17, <2>3, <3>3, <4>4
    <3> QED
      BY <3>1, <3>2, <3>3
  <2>5. PICK q : q = PqMeasured(p, frame, outcome)
    OBVIOUS
  <2>6. /\ q \in PqStates /\ PqCarries(q, since, owed)
        /\ q.active = p.active /\ q.sequence = frame.sequence
    BY <1>2, <1>4, <1>9, <1>10, <1>16, <2>3, <2>4, <2>5, MeasuredCarries
  <2>7. q.active # NoFrame /\ q.sequence # NoFrame
    BY <1>2, <1>21, <2>6 DEF Frames, NoFrame
  <2> QED
    BY <1>4, <1>13, <1>18, <2>1, <2>3, <2>5, <2>6, <2>7
<1> QED
  BY <1>13, <1>19, <1>20, <1>21

LEMMA PqStep ==
  ASSUME StreamTypes, StreamOrder, PqInvariant,
         ReportedSound(records, track.since, track.owed), PqNext
  PROVE  /\ StreamTypes' /\ StreamOrder' /\ PqInvariant'
         /\ ReportedSound(records, track.since, track.owed)'
<1>1. ASSUME NEW frame \in Arriving(MaxHalfCycles, HalfCycleFlaws), PqProcess(frame), Sent(frame)
      PROVE  /\ StreamTypes' /\ StreamOrder' /\ PqInvariant'
             /\ ReportedSound(records, track.since, track.owed)'
  BY <1>1, PqFrame
<1>2. CASE LoseStreamFrames(MaxHalfCycles, {1}) /\ UNCHANGED pq
  <2>1. /\ StreamTypes' /\ StreamOrder' /\ records' = <<>>
        /\ track' = [track EXCEPT !.owed = Owing] /\ Owing' = Owing
        /\ stream'.newest = stream.newest
        /\ stream'.sample - stream.sample = stream'.next - stream.next
    BY <1>2, LostFrames
  <2>2. track'.since = track.since /\ track'.next = track.next
    BY <2>1, UnheardFields
  <2>3. PqInvariant'
    BY <1>2, <2>1, <2>2 DEF PqInvariant, EventRecordsPair
  <2> QED
    BY <2>1, <2>3, NothingReported
<1>3. CASE StreamInterference /\ UNCHANGED pq
  <2>1. /\ StreamTypes' /\ StreamOrder' /\ records' = records /\ track' = track
        /\ Owing' = Owing /\ stream'.newest = stream.newest
        /\ stream'.sample = stream.sample /\ stream'.next = stream.next
    BY <1>3, Interferes
  <2>2. PqInvariant'
    BY <1>3, <2>1 DEF PqInvariant, EventRecordsPair
  <2> QED
    BY <2>1, <2>2
<1> QED
  BY <1>1, <1>2, <1>3 DEF PqNext

--------------------------------------------------------------------------------
(* Signalling windows.                                                      *)

LEMMA FreshWindowCarries ==
  ASSUME NEW m \in MainsStates, MainsFresh(m), NEW since, NEW owed,
         ReportedSound(m.records, since, owed)
  PROVE  MainsCarries(m, since, owed)
BY DEF MainsFresh, MainsCarries

LEMMA ResetSignalFields ==
  ASSUME NEW m \in MainsStates, NEW c \in BOOLEAN
  PROVE  LET q == ResetSignalPath(m, c)
         IN /\ q \in MainsStates /\ q.window.span = 0 /\ q.newest = NoFrame
            /\ q.records = m.records /\ q.active = m.active /\ q.sequence = m.sequence
            /\ c => MainsFresh(q)
            /\ m.discontinuity => MainsFresh(q)
<1> DEFINE pending == m.discontinuity \/ c
           q == [m EXCEPT !.window = EmptyWindow, !.newest = NoFrame, !.discontinuity = pending]
<1>1. EmptyWindow \in Windows /\ EmptyWindow.span = 0 /\ NoFrame \in Int
  BY DEF EmptyWindow, Windows, NoFrame
<1>2. pending \in BOOLEAN /\ (c => pending) /\ (m.discontinuity => pending)
  OBVIOUS
<1>3. q = ResetSignalPath(m, c)
  BY DEF ResetSignalPath
<1> HIDE DEF pending
<1>4. /\ q \in MainsStates /\ q.window = EmptyWindow /\ q.newest = NoFrame
      /\ q.records = m.records /\ q.active = m.active /\ q.sequence = m.sequence
      /\ q.discontinuity = pending
  BY <1>1, <1>2 DEF MainsStates
<1> HIDE DEF q
<1> QED
  BY <1>1, <1>2, <1>3, <1>4 DEF MainsFresh

(* A sample joins the window; a full window is published.                   *)
LEMMA CompletedWindow ==
  ASSUME NEW m \in MainsStates, NEW last \in Int, NEW since \in Int, NEW owed,
         m.window.span \in 1 .. WindowBatches, m.window.first >= since,
         MainsCarries(m, since, owed)
  PROVE  LET q == CompleteWindow(m, last)
         IN /\ q \in MainsStates /\ MainsCarries(q, since, owed)
            /\ q.window.span < WindowBatches /\ q.newest = m.newest
            /\ q.active = m.active /\ q.sequence = m.sequence
<1>1. /\ m.window \in Windows /\ m.discontinuity \in BOOLEAN /\ m.records \in Seq(WindowReports)
  BY DEF MainsStates
<1>2. CASE m.window.span < WindowBatches
  BY <1>2 DEF CompleteWindow
<1>3. CASE ~(m.window.span < WindowBatches)
  <2> DEFINE r == [channel |-> "window", kind |-> "mains", valid |-> m.window.valid,
                   first |-> m.window.first, last |-> last, marked |-> m.discontinuity]
             recs == Append(m.records, r)
             q == [m EXCEPT !.records = recs, !.discontinuity = FALSE, !.window = EmptyWindow]
  <2>1. q = CompleteWindow(m, last)
    BY <1>3 DEF CompleteWindow
  <2>2. r \in WindowReports
    BY <1>1 DEF WindowReports, Windows
  <2>3. r.channel = "window" /\ r.first = m.window.first /\ (m.discontinuity => r.marked)
    OBVIOUS
  <2> HIDE DEF r
  <2>4. recs \in Seq(WindowReports)
    <3> HIDE DEF WindowReports
    <3> QED
      BY <1>1, <2>2
  <2>5. /\ ReportedSound(recs, since, owed)
        /\ Announced(recs) = Announced(m.records) \cup {"window"}
    <3>1. /\ ReportedSound(Append(m.records, r), since, owed)
          /\ Announced(Append(m.records, r)) = Announced(m.records) \cup {r.channel}
      BY <1>1, <2>2, <2>3, Reporting DEF MainsCarries
    <3> QED
      BY <2>3, <3>1
  <2> HIDE DEF recs
  <2>6. EmptyWindow \in Windows /\ EmptyWindow.span = 0
    BY DEF EmptyWindow, Windows
  <2>7. /\ q \in MainsStates /\ q.records = recs /\ q.window = EmptyWindow
        /\ q.newest = m.newest /\ q.active = m.active /\ q.sequence = m.sequence
    BY <2>4, <2>6 DEF MainsStates
  <2> HIDE DEF q
  <2> QED
    BY <2>1, <2>5, <2>6, <2>7, WindowLengthAssumption DEF MainsCarries
<1> QED
  BY <1>2, <1>3

LEMMA PlacedWindow ==
  ASSUME NEW m \in MainsStates, NEW number \in Int
  PROVE  /\ LET q == [m EXCEPT !.newest = number]
            IN /\ q \in MainsStates /\ q.window = m.window /\ q.discontinuity = m.discontinuity
               /\ q.newest = number /\ q.records = m.records
               /\ q.active = m.active /\ q.sequence = m.sequence
         /\ LET q == [m EXCEPT !.sequence = number]
            IN /\ q \in MainsStates /\ q.window = m.window /\ q.discontinuity = m.discontinuity
               /\ q.newest = m.newest /\ q.records = m.records
               /\ q.active = m.active /\ q.sequence = number
BY DEF MainsStates

LEMMA SampledWindow ==
  ASSUME NEW m \in MainsStates, NEW frame \in Frames, NEW since \in Int, NEW owed,
         since <= frame.sample, ReportedSound(m.records, since, owed),
         m.window.span < WindowBatches,
         \/ MainsFresh(m)
         \/ m.newest # NoFrame /\ frame.sample # m.newest + 1
         \/ MainsCarries(m, since, owed)
  PROVE  LET q == MainsSample(m, frame)
         IN /\ q \in MainsStates /\ MainsCarries(q, since, owed)
            /\ q.window.span < WindowBatches /\ q.newest = frame.sample
            /\ q.active = m.active /\ q.sequence = m.sequence
            /\ "malformed" \in frame.flags => MainsFresh(q) /\ q.records = m.records
<1> DEFINE jumped == m.newest # NoFrame /\ frame.sample # m.newest + 1
           sample == frame.sample
           reset == ResetSignalPath(m, TRUE)
<1>1. sample \in Int /\ since <= sample /\ TRUE \in BOOLEAN
  BY DEF Frames
<1>2. /\ reset \in MainsStates /\ reset.window.span = 0 /\ MainsFresh(reset)
      /\ reset.records = m.records /\ reset.active = m.active /\ reset.sequence = m.sequence
  BY ResetSignalFields
<1>3. PICK start \in MainsStates : start = IF jumped THEN reset ELSE m
  BY <1>2
<1>4. /\ start.records = m.records /\ start.active = m.active /\ start.sequence = m.sequence
      /\ start.window.span < WindowBatches
  <2>1. 0 < WindowBatches
    BY WindowLengthAssumption
  <2>2. CASE jumped
    <3> HIDE DEF reset
    <3> QED
      BY <1>2, <1>3, <2>1, <2>2
  <2>3. CASE ~jumped
    BY <1>3, <2>3
  <2> QED
    BY <2>2, <2>3
<1>5. MainsCarries(start, since, owed)
  <2>1. CASE jumped
    BY <1>2, <1>3, <2>1, FreshWindowCarries
  <2>2. CASE ~jumped
    BY <1>3, <2>2, FreshWindowCarries
  <2> QED
    BY <2>1, <2>2
<1>6. PICK base : base = [start EXCEPT !.newest = sample]
  OBVIOUS
<1>7. /\ base \in MainsStates /\ base.window = start.window
      /\ base.discontinuity = start.discontinuity /\ base.newest = sample
      /\ base.records = start.records /\ base.active = start.active
      /\ base.sequence = start.sequence
  BY <1>1, <1>6, PlacedWindow
<1>8. MainsCarries(base, since, owed)
  BY <1>5, <1>7 DEF MainsCarries
<1>9. CASE "malformed" \in frame.flags
  <2>1. PICK again : again = ResetSignalPath(base, TRUE)
    OBVIOUS
  <2>2. /\ again \in MainsStates /\ again.window.span = 0 /\ MainsFresh(again)
        /\ again.records = base.records /\ again.active = base.active
        /\ again.sequence = base.sequence
    BY <1>1, <1>7, <2>1, ResetSignalFields
  <2>3. PICK q : q = [again EXCEPT !.newest = sample]
    OBVIOUS
  <2>4. /\ q \in MainsStates /\ q.window = again.window
        /\ q.discontinuity = again.discontinuity /\ q.newest = sample
        /\ q.records = again.records /\ q.active = again.active
        /\ q.sequence = again.sequence
    BY <1>1, <2>2, <2>3, PlacedWindow
  <2>5. MainsFresh(q)
    BY <2>2, <2>4 DEF MainsFresh
  <2>6. ReportedSound(q.records, since, owed)
    BY <1>4, <1>7, <2>2, <2>4
  <2>7. MainsCarries(q, since, owed)
    BY <2>4, <2>5, <2>6, FreshWindowCarries
  <2>8. q = MainsSample(m, frame)
    BY <1>3, <1>6, <1>9, <2>1, <2>3 DEF MainsSample
  <2> QED
    BY <1>4, <1>7, <2>2, <2>4, <2>5, <2>7, <2>8, WindowLengthAssumption DEF MainsFresh
<1>10. CASE "malformed" \notin frame.flags
  <2> DEFINE span == base.window.span + 1
             first == IF base.window.span = 0 THEN sample ELSE base.window.first
             valid == base.window.valid /\ "invalid" \notin frame.flags
             window == [base.window EXCEPT !.span = span, !.first = first, !.valid = valid]
             q == [base EXCEPT !.window = window]
  <2>1. base.window \in Windows /\ base.window.span \in Nat /\ base.window.first \in Int
    BY <1>7 DEF MainsStates, Windows
  <2>2. span \in 1 .. WindowBatches /\ span \in Nat
    BY <1>4, <1>7, <2>1, WindowLengthAssumption
  <2>3. first \in Int /\ first >= since
    BY <1>1, <1>8, <2>1 DEF MainsCarries
  <2>4. valid \in BOOLEAN
    BY <2>1 DEF Windows
  <2>5. CompleteWindow(q, frame.sample) = MainsSample(m, frame)
    BY <1>3, <1>6, <1>10 DEF MainsSample
  <2> HIDE DEF span, first, valid
  <2>6. window \in Windows /\ window.span = span /\ window.first = first
    BY <2>1, <2>2, <2>3, <2>4 DEF Windows
  <2> HIDE DEF window
  <2>7. /\ q \in MainsStates /\ q.window = window /\ q.records = base.records
        /\ q.discontinuity = base.discontinuity /\ q.newest = base.newest
        /\ q.active = base.active /\ q.sequence = base.sequence
    BY <1>7, <2>6 DEF MainsStates
  <2> HIDE DEF q
  <2>8. MainsCarries(q, since, owed)
    BY <1>8, <2>3, <2>6, <2>7 DEF MainsCarries
  <2>9. PICK done : done = CompleteWindow(q, frame.sample)
    OBVIOUS
  <2>10. frame.sample \in Int
    BY DEF Frames
  <2>11. /\ done \in MainsStates /\ MainsCarries(done, since, owed)
         /\ done.window.span < WindowBatches /\ done.newest = q.newest
         /\ done.active = q.active /\ done.sequence = q.sequence
    BY <2>2, <2>3, <2>6, <2>7, <2>8, <2>9, <2>10, CompletedWindow
  <2> QED
    BY <1>4, <1>7, <1>10, <2>5, <2>7, <2>9, <2>11
<1> QED
  BY <1>9, <1>10

(* A batch: a hole empties the window and leaves a mark.                    *)
LEMMA MeasuredWindow ==
  ASSUME NEW m \in MainsStates, m.records = <<>>, m.window.span < WindowBatches,
         NEW frame \in Frames, NEW since \in Int, NEW owed, since <= frame.sample,
         \/ MainsFresh(m)
         \/ external \/ MainsGap(m, frame) \/ "drop" \in frame.flags
         \/ MainsCarries(m, since, owed)
         \/ "disc" \in frame.flags /\ ("window" \in owed => m.discontinuity)
         \/ m.newest # NoFrame /\ frame.sample # m.newest + 1 /\ "disc" \notin frame.flags
  PROVE  LET q == MainsMeasured(m, frame)
         IN /\ q \in MainsStates /\ MainsCarries(q, since, owed)
            /\ q.window.span < WindowBatches
            /\ q.active = m.active /\ q.sequence = frame.sequence
            /\ MainsFresh(q) \/ ("malformed" \notin frame.flags /\ q.newest = frame.sample)
            /\ "malformed" \in frame.flags => q.records = <<>>
<1> DEFINE hole == external \/ MainsGap(m, frame) \/ "drop" \in frame.flags
           sequence == frame.sequence
<1>1. PICK c \in BOOLEAN : c = hole
  <2>1. hole \in BOOLEAN
    OBVIOUS
  <2> HIDE DEF hole
  <2> QED
    BY <2>1
<1>2. sequence \in Int
  BY DEF Frames
<1>3. PICK reset : reset = ResetSignalPath(m, c)
  OBVIOUS
<1>4. /\ reset \in MainsStates /\ reset.window.span = 0 /\ reset.newest = NoFrame
      /\ reset.records = m.records /\ reset.active = m.active
      /\ c => MainsFresh(reset)
      /\ m.discontinuity => MainsFresh(reset)
  BY <1>3, ResetSignalFields
<1>5. PICK ready \in MainsStates : ready = IF hole \/ "disc" \in frame.flags THEN reset ELSE m
  BY <1>4
<1>6. /\ ready.records = <<>> /\ ready.active = m.active /\ ready.window.span < WindowBatches
  BY <1>4, <1>5, WindowLengthAssumption
<1>7. \/ MainsFresh(ready)
      \/ ready.newest # NoFrame /\ frame.sample # ready.newest + 1
      \/ MainsCarries(ready, since, owed)
  <2>1. CASE hole
    BY <1>1, <1>4, <1>5, <2>1
  <2>2. CASE ~hole /\ "disc" \in frame.flags
    <3>1. ready = reset
      BY <1>5, <2>2
    <3>2. MainsFresh(m) => MainsFresh(reset)
      BY <1>4 DEF MainsFresh
    <3>3. ("window" \in owed => m.discontinuity) => MainsCarries(reset, since, owed)
      BY <1>4, NothingReported DEF MainsCarries, MainsFresh
    <3>4. MainsCarries(m, since, owed) => ("window" \in owed => m.discontinuity)
      BY NothingReported DEF MainsCarries
    <3> QED
      BY <2>2, <3>1, <3>2, <3>3, <3>4
  <2>3. CASE ~hole /\ "disc" \notin frame.flags
    BY <1>5, <2>3
  <2> QED
    BY <2>1, <2>2, <2>3
<1>8. PICK numbered : numbered = [ready EXCEPT !.sequence = sequence]
  OBVIOUS
<1>9. /\ numbered \in MainsStates /\ numbered.window = ready.window
      /\ numbered.discontinuity = ready.discontinuity /\ numbered.newest = ready.newest
      /\ numbered.records = ready.records /\ numbered.active = ready.active
      /\ numbered.sequence = sequence
  BY <1>2, <1>8, PlacedWindow
<1>10. /\ MainsFresh(numbered) \/ (numbered.newest # NoFrame /\ frame.sample # numbered.newest + 1)
          \/ MainsCarries(numbered, since, owed)
       /\ ReportedSound(numbered.records, since, owed)
  <2>1. MainsFresh(ready) => MainsFresh(numbered)
    BY <1>9 DEF MainsFresh
  <2>2. MainsCarries(ready, since, owed) => MainsCarries(numbered, since, owed)
    BY <1>9 DEF MainsCarries
  <2>3. ReportedSound(numbered.records, since, owed)
    BY <1>6, <1>9, NothingReported
  <2> QED
    BY <1>7, <1>9, <2>1, <2>2, <2>3
<1>11. PICK sampled : sampled = MainsSample(numbered, frame)
  OBVIOUS
<1>12. /\ sampled \in MainsStates /\ MainsCarries(sampled, since, owed)
       /\ sampled.window.span < WindowBatches /\ sampled.newest = frame.sample
       /\ sampled.active = numbered.active /\ sampled.sequence = numbered.sequence
       /\ "malformed" \in frame.flags => MainsFresh(sampled) /\ sampled.records = <<>>
  BY <1>6, <1>9, <1>10, <1>11, SampledWindow
<1>13. CASE "drop" \in frame.flags
  <2>1. PICK q : q = ResetSignalPath(sampled, TRUE)
    OBVIOUS
  <2>2. TRUE \in BOOLEAN
    OBVIOUS
  <2>3. /\ q \in MainsStates /\ q.window.span = 0 /\ MainsFresh(q)
        /\ q.records = sampled.records /\ q.active = sampled.active
        /\ q.sequence = sampled.sequence
    BY <1>12, <2>1, <2>2, ResetSignalFields
  <2>4. MainsCarries(q, since, owed)
    BY <1>12, <2>3, FreshWindowCarries DEF MainsCarries
  <2>5. q = MainsMeasured(m, frame)
    BY <1>1, <1>3, <1>5, <1>8, <1>11, <1>13, <2>1 DEF MainsMeasured, MainsHole
  <2> QED
    BY <1>6, <1>9, <1>12, <2>3, <2>4, <2>5, WindowLengthAssumption
<1>14. CASE "drop" \notin frame.flags
  <2>1. sampled = MainsMeasured(m, frame)
    BY <1>1, <1>3, <1>5, <1>8, <1>11, <1>14 DEF MainsMeasured, MainsHole
  <2> QED
    BY <1>6, <1>9, <1>12, <2>1
<1> QED
  BY <1>13, <1>14

(* Publishing the records of a step.                                        *)
LEMMA PublishedWindow ==
  ASSUME NEW m \in MainsStates, mains' = [m EXCEPT !.records = <<>>], records' = m.records,
         NEW since \in Int, NEW owed, since = track'.since, owed = track'.owed,
         MainsCarries(m, since, owed)
  PROVE  /\ mains' \in MainsStates /\ mains'.records = <<>> /\ mains'.window = m.window
         /\ mains'.window.span # 0 => mains'.window.first >= track'.since
         /\ "window" \in Owing' => mains'.discontinuity
         /\ mains'.sequence = m.sequence /\ mains'.newest = m.newest
         /\ MainsFresh(m) => MainsFresh(mains')
         /\ ReportedSound(records, track.since, track.owed)'
<1>1. <<>> \in Seq(WindowReports)
  OBVIOUS
<1>2. /\ mains' \in MainsStates /\ mains'.records = <<>> /\ mains'.window = m.window
      /\ mains'.sequence = m.sequence /\ mains'.newest = m.newest
      /\ mains'.discontinuity = m.discontinuity
  BY <1>1 DEF MainsStates
<1>3. Owing' = owed \ Announced(m.records)
  BY DEF Owing, Announced
<1> QED
  BY <1>2, <1>3 DEF MainsCarries, MainsFresh

LEMMA MainsFrame ==
  ASSUME StreamTypes, StreamOrder, MainsInvariant,
         NEW frame \in Arriving(MaxBatches, BatchFlaws), MainsProcess(frame), Sent(frame)
  PROVE  /\ StreamTypes' /\ StreamOrder' /\ MainsInvariant'
         /\ ReportedSound(records, track.since, track.owed)'
<1>1. BatchFlaws \in SUBSET SUBSET Flags
  BY DEF BatchFlaws, Flags
<1>2. /\ frame \in Frames
      /\ \/ frame = stream.newest /\ stream.newest # NoNewest
         \/ /\ frame # stream.newest /\ frame.sequence = stream.next
            /\ frame.sample \in {stream.sample, stream.sample + 1}
  BY <1>1, ArrivingFrames
<1>3. /\ frame.sample \in Nat /\ frame.sequence \in Nat /\ stream \in Streams
      /\ track \in Tracks
  BY <1>2 DEF Frames, StreamTypes
<1>4. stream'.newest = frame /\ frame # NoNewest
  BY <1>2, SentFrames
<1>5. \/ track' = Heard(frame) \/ track' = [Heard(frame) EXCEPT !.owed = Owing]
      \/ track' = Unheard \/ track' = [track EXCEPT !.owed = Owing]
  BY DEF MainsProcess, MainsHeard
<1>6. external' \in BOOLEAN
  BY DEF MainsProcess, StreamTypes
<1>7. StreamTypes' /\ StreamOrder'
  BY <1>2, <1>5, <1>6, StreamAfterFrame
<1>8. PICK v \in MainsStates : v = mains
  BY DEF MainsInvariant
<1>9. v.records = <<>> /\ v.window.span < WindowBatches
  BY <1>8 DEF MainsInvariant
<1>10. PICK m : m = MainsConfigured(v, frame)
  OBVIOUS
<1>11. /\ m \in MainsStates /\ m.records = <<>> /\ m.window.span < WindowBatches
       /\ m = v \/ (MainsFresh(m) /\ m.sequence = NoFrame)
  <2>1. CASE m = v
    BY <1>9, <2>1
  <2>2. CASE m # v
    <3> DEFINE generation == frame.generation
               number == NoFrame
    <3>1. PICK w : w = [v EXCEPT !.active = generation, !.sequence = number]
      OBVIOUS
    <3>2. generation \in Int /\ number \in Int
      BY <1>2 DEF Frames, NoFrame
    <3>3. m = ResetSignalPath(w, TRUE)
      BY <1>10, <2>2, <3>1 DEF MainsConfigured
    <3>4. number = NoFrame
      OBVIOUS
    <3> HIDE DEF generation, number
    <3>5. w \in MainsStates /\ w.sequence = number /\ w.records = v.records
      BY <3>1, <3>2 DEF MainsStates
    <3>6. TRUE \in BOOLEAN
      OBVIOUS
    <3>7. /\ m \in MainsStates /\ m.window.span = 0 /\ MainsFresh(m)
          /\ m.records = w.records /\ m.sequence = w.sequence
      BY <3>3, <3>5, <3>6, ResetSignalFields
    <3> QED
      BY <1>9, <3>4, <3>5, <3>7, WindowLengthAssumption
  <2> QED
    BY <2>1, <2>2
<1>12. MainsCarries(v, track.since, Owing)
  BY <1>8, <1>9, NothingReported DEF MainsInvariant, MainsCarries
<1>13. CASE ~MainsMatches(v, frame)
  <2>1. /\ external' /\ records' = <<>> /\ track' = Unheard /\ mains' = mains
    BY <1>8, <1>13 DEF MainsProcess
  <2>2. track'.since = track.since /\ track'.owed = Owing
    BY <2>1, UnheardFields
  <2>3. Owing' = Owing
    BY <2>1, <2>2 DEF Owing
  <2>4. MainsInvariant'
    BY <2>1, <2>2, <2>3 DEF MainsInvariant
  <2> QED
    BY <1>7, <2>1, <2>4, NothingReported
<1>14. CASE MainsMatches(v, frame) /\ frame.sequence = m.sequence
  <2>1. m = v
    BY <1>3, <1>11, <1>14 DEF NoFrame
  <2>2. /\ external' = external /\ records' = <<>> /\ mains' = mains
        /\ track' = [track EXCEPT !.owed = Owing]
    BY <1>8, <1>10, <1>14, <2>1 DEF MainsProcess
  <2>3. track'.since = track.since /\ track'.owed = Owing /\ track'.next = track.next
    BY <2>2, UnheardFields
  <2>4. Owing' = Owing
    BY <2>2, <2>3 DEF Owing
  <2>5. ASSUME stream.newest # NoNewest, mains.sequence = stream.newest.sequence
        PROVE  frame = stream.newest
    <3>1. stream.newest.sequence < stream.next /\ stream.newest \in Frames
      BY <1>3, <2>5 DEF StreamOrder, Streams
    <3> QED
      BY <1>2, <1>3, <1>8, <1>14, <2>1, <2>5, <3>1 DEF Streams, Frames
  <2>6. MainsInvariant'
    BY <1>4, <2>2, <2>3, <2>4, <2>5 DEF MainsInvariant
  <2> QED
    BY <1>7, <2>2, <2>6, NothingReported
<1>15. CASE MainsMatches(v, frame) /\ frame.sequence # m.sequence
  <2>1. PICK q : q = MainsMeasured(m, frame)
    OBVIOUS
  <2>2. /\ ~external' /\ mains' = [q EXCEPT !.records = <<>>] /\ records' = q.records
        /\ track' = IF "malformed" \in frame.flags THEN Unheard ELSE MainsHeard(m, frame)
    BY <1>8, <1>10, <1>15, <2>1 DEF MainsProcess
  <2>3. PICK since, owed : since = track'.since /\ owed = track'.owed
    OBVIOUS
  <2>4. since \in Int /\ owed \in SUBSET Channels
    BY <1>7, <2>3 DEF StreamTypes, Tracks
  (* Without a hole and a jump the frame continues what was heard.          *)
  <2>5. \/ MainsFresh(m)
        \/ external \/ MainsGap(m, frame) \/ "drop" \in frame.flags
        \/ m = v /\ (frame.sample = track.next \/ JumpForgotten(m, frame))
        \/ m.newest # NoFrame /\ frame.sample # m.newest + 1 /\ "disc" \notin frame.flags
    <3>1. ASSUME ~MainsFresh(m), ~external, ~MainsGap(m, frame), "drop" \notin frame.flags
          PROVE  \/ m = v /\ (frame.sample = track.next \/ JumpForgotten(m, frame))
                 \/ m.newest # NoFrame /\ frame.sample # m.newest + 1 /\ "disc" \notin frame.flags
      <4>1. m = v
        BY <1>11, <3>1
      <4>2. /\ stream.newest # NoNewest /\ stream.newest \in Frames
            /\ v.sequence = stream.newest.sequence /\ v.newest = stream.newest.sample
            /\ track.next = v.newest + 1
        BY <1>3, <1>8, <3>1, <4>1 DEF MainsInvariant, Streams
      <4>3. frame.sequence = stream.newest.sequence + 1
        BY <3>1, <4>1, <4>2 DEF MainsGap, Frames, NoFrame
      <4>4. /\ frame.flags = {} \/ frame.flags \in BatchFlaws
            /\ frame.sample = IF frame.flags \cap {"jump", "drop"} = {}
                              THEN stream.newest.sample + 1 ELSE stream.newest.sample + 2
        BY <1>1, <4>2, <4>3, FollowingFrame
      <4>5. CASE frame.flags \cap {"jump", "drop"} = {}
        BY <4>1, <4>2, <4>4, <4>5
      <4>6. CASE frame.flags \cap {"jump", "drop"} # {}
        <5>1. m.newest # NoFrame /\ frame.sample # m.newest + 1
          BY <4>1, <4>2, <4>4, <4>6 DEF Frames, NoFrame
        <5> QED
          BY <3>1, <4>1, <5>1 DEF JumpForgotten, MainsHole
      <4> QED
        BY <4>5, <4>6
    <3> QED
      BY <3>1
  <2>6. /\ q \in MainsStates /\ MainsCarries(q, since, owed)
        /\ q.window.span < WindowBatches /\ q.sequence = frame.sequence
        /\ MainsFresh(q) \/ ("malformed" \notin frame.flags /\ q.newest = frame.sample)
    <3>1. CASE "malformed" \in frame.flags
      <4>1. PICK low \in Int : low = IF track.since <= frame.sample THEN track.since ELSE 0
        BY <1>3 DEF Tracks
      <4>2. \/ MainsFresh(m)
            \/ external \/ MainsGap(m, frame) \/ "drop" \in frame.flags
            \/ MainsCarries(m, low, {})
            \/ "disc" \in frame.flags /\ ("window" \in {} => m.discontinuity)
            \/ m.newest # NoFrame /\ frame.sample # m.newest + 1 /\ "disc" \notin frame.flags
        <5>1. ASSUME m = v, frame.sample = track.next
              PROVE  MainsCarries(m, low, {})
          <6>1. low = track.since
            BY <1>3, <4>1, <5>1 DEF StreamOrder, Tracks, NoFrame
          <6> QED
            BY <1>9, <1>12, <5>1, <6>1, NothingReported DEF MainsCarries
        <5> QED
          BY <2>5, <5>1 DEF JumpForgotten
      <4>3. low <= frame.sample
        BY <1>3, <4>1
      <4>4. /\ q \in MainsStates /\ MainsFresh(q) /\ q.records = <<>>
            /\ q.window.span < WindowBatches /\ q.sequence = frame.sequence
        BY <1>2, <1>11, <2>1, <3>1, <4>2, <4>3, MeasuredWindow
      <4> QED
        BY <4>4, NothingReported, FreshWindowCarries
    <3>2. CASE "malformed" \notin frame.flags
      <4>1. /\ since <= frame.sample
            /\ frame.sample = track.next => since = track.since /\ owed = Owing
            /\ JumpForgotten(m, frame) => owed = Owing
        BY <1>2, <2>2, <2>3, <3>2, HeardFields, OwedHere DEF MainsHeard
      <4>2. \/ MainsFresh(m)
            \/ external \/ MainsGap(m, frame) \/ "drop" \in frame.flags
            \/ MainsCarries(m, since, owed)
            \/ "disc" \in frame.flags /\ ("window" \in owed => m.discontinuity)
            \/ m.newest # NoFrame /\ frame.sample # m.newest + 1 /\ "disc" \notin frame.flags
        BY <1>8, <1>12, <2>5, <4>1 DEF JumpForgotten, MainsInvariant
      <4> QED
        BY <1>2, <1>11, <2>1, <2>4, <4>1, <4>2, MeasuredWindow
    <3> QED
      BY <3>1, <3>2
  <2>7. /\ mains' \in MainsStates /\ mains'.records = <<>> /\ mains'.window = q.window
        /\ mains'.window.span # 0 => mains'.window.first >= track'.since
        /\ "window" \in Owing' => mains'.discontinuity
        /\ mains'.sequence = q.sequence /\ mains'.newest = q.newest
        /\ MainsFresh(q) => MainsFresh(mains')
        /\ ReportedSound(records, track.since, track.owed)'
    BY <2>2, <2>3, <2>4, <2>6, PublishedWindow
  <2>8. "malformed" \notin frame.flags => track'.next = frame.sample + 1
    BY <1>2, <2>2, HeardFields, OwedHere DEF MainsHeard
  <2>9. MainsInvariant'
    BY <1>4, <2>6, <2>7, <2>8 DEF MainsInvariant
  <2> QED
    BY <1>7, <2>7, <2>9
<1> QED
  BY <1>13, <1>14, <1>15

LEMMA MainsStep ==
  ASSUME StreamTypes, StreamOrder, MainsInvariant,
         ReportedSound(records, track.since, track.owed), MainsNext
  PROVE  /\ StreamTypes' /\ StreamOrder' /\ MainsInvariant'
         /\ ReportedSound(records, track.since, track.owed)'
<1>1. ASSUME NEW frame \in Arriving(MaxBatches, BatchFlaws), MainsProcess(frame), Sent(frame)
      PROVE  /\ StreamTypes' /\ StreamOrder' /\ MainsInvariant'
             /\ ReportedSound(records, track.since, track.owed)'
  BY <1>1, MainsFrame
<1>2. CASE LoseStreamFrames(MaxBatches, {1}) /\ UNCHANGED mains
  <2>1. /\ StreamTypes' /\ StreamOrder' /\ records' = <<>> /\ external' = external
        /\ track' = [track EXCEPT !.owed = Owing] /\ Owing' = Owing
        /\ stream'.newest = stream.newest
    BY <1>2, LostFrames
  <2>2. track'.since = track.since /\ track'.next = track.next
    BY <2>1, UnheardFields
  <2>3. MainsInvariant'
    BY <1>2, <2>1, <2>2 DEF MainsInvariant
  <2> QED
    BY <2>1, <2>3, NothingReported
<1>3. CASE StreamInterference /\ UNCHANGED mains
  <2>1. /\ StreamTypes' /\ StreamOrder' /\ records' = records /\ track' = track
        /\ Owing' = Owing /\ (external => external') /\ stream'.newest = stream.newest
    BY <1>3, Interferes
  <2>2. MainsInvariant'
    BY <1>3, <2>1 DEF MainsInvariant
  <2> QED
    BY <2>1, <2>2
<1> QED
  BY <1>1, <1>2, <1>3 DEF MainsNext

--------------------------------------------------------------------------------
(* Flicker.                                                                 *)

LEMMA FreshFlickerCarries ==
  ASSUME NEW f \in FlickerStates, FlickerFresh(f), NEW since, NEW owed,
         ReportedSound(f.records, since, owed)
  PROVE  FlickerCarries(f, since, owed) /\ FlickerBounds(f)
<1>1. LiveBatches \in Nat \ {0} /\ IntervalBatches \in Nat \ {0} /\ PltPeriods \in Nat \ {0}
  BY FlickerAssumption
<1>2. Len(f.rolling) = 0 /\ \A i \in 1 .. Len(f.rolling) : FALSE
  BY DEF FlickerFresh
<1> QED
  BY <1>1, <1>2 DEF FlickerFresh, FlickerCarries, FlickerKept, FlickerBounds

LEMMA EmptyPart ==
  ASSUME NEW c \in BOOLEAN
  PROVE  /\ [Batches EXCEPT !.contaminated = c] \in Parts
         /\ [Batches EXCEPT !.contaminated = c].ticks = 0
         /\ [Batches EXCEPT !.contaminated = c].discontinuity
         /\ [Batches EXCEPT !.discontinuity = FALSE] \in Parts
         /\ [Batches EXCEPT !.discontinuity = FALSE].ticks = 0
<1>1. Batches \in Parts
  BY DEF Batches, Parts
<1>2. Batches.ticks = 0 /\ Batches.discontinuity = TRUE
  BY DEF Batches
<1>3. PICK b \in Parts : b = Batches
  BY <1>1
<1>4. /\ [b EXCEPT !.contaminated = c] \in Parts /\ [b EXCEPT !.discontinuity = FALSE] \in Parts
  BY DEF Parts
<1>5. /\ [b EXCEPT !.contaminated = c].ticks = b.ticks
      /\ [b EXCEPT !.contaminated = c].discontinuity = b.discontinuity
      /\ [b EXCEPT !.discontinuity = FALSE].ticks = b.ticks
  BY DEF Parts
<1> QED
  BY <1>2, <1>3, <1>4, <1>5

LEMMA ResetRuntimeFields ==
  ASSUME NEW f \in FlickerStates, NEW c \in BOOLEAN
  PROVE  LET q == ResetRuntime(f, c)
         IN /\ q \in FlickerStates /\ FlickerFresh(q) /\ q.newest = NoFrame
            /\ q.records = f.records /\ q.active = f.active /\ q.sequence = f.sequence
<1> DEFINE part == [Batches EXCEPT !.contaminated = c]
           rolling == <<>>
           q == [f EXCEPT !.settling = SettlingBatches, !.newest = NoFrame, !.overflow = FALSE,
                          !.live = part, !.interval = part, !.rolling = rolling,
                          !.firstAfter = TRUE]
<1>1. part \in Parts /\ part.ticks = 0 /\ part.discontinuity
  BY EmptyPart
<1>2. rolling \in Seq(Int) /\ rolling = <<>>
  OBVIOUS
<1>3. SettlingBatches \in Nat /\ NoFrame \in Int
  BY FlickerAssumption DEF NoFrame
<1>4. q = ResetRuntime(f, c)
  BY DEF ResetRuntime
<1> HIDE DEF part, rolling
<1>5. /\ q \in FlickerStates /\ q.live = part /\ q.interval = part /\ q.rolling = rolling
      /\ q.newest = NoFrame /\ q.records = f.records /\ q.active = f.active
      /\ q.sequence = f.sequence
  BY <1>1, <1>2, <1>3 DEF FlickerStates
<1> HIDE DEF q
<1> QED
  BY <1>1, <1>2, <1>4, <1>5 DEF FlickerFresh

FlickerReport(f, channel, kind, valid, first, last, status) ==
  [channel |-> channel, kind |-> kind, valid |-> valid, first |-> first, last |-> last,
   marked |-> status \/ f.firstAfter]

LEMMA FlickerReportFields ==
  ASSUME NEW f \in FlickerStates, NEW channel \in {"live", "interval"},
         NEW kind \in {"live", "pst", "plt"}, NEW valid \in BOOLEAN, NEW first \in Int,
         NEW last \in Int, NEW status \in BOOLEAN
  PROVE  LET r == FlickerReport(f, channel, kind, valid, first, last, status)
         IN /\ r \in FlickerReports /\ r.channel = channel /\ r.first = first
            /\ status => r.marked
<1> DEFINE marked == status \/ f.firstAfter
           r == [channel |-> channel, kind |-> kind, valid |-> valid, first |-> first,
                 last |-> last, marked |-> marked]
<1>1. marked \in BOOLEAN /\ (status => marked)
  OBVIOUS
<1>2. r = FlickerReport(f, channel, kind, valid, first, last, status)
  BY DEF FlickerReport
<1> HIDE DEF marked
<1>3. r \in FlickerReports
  BY <1>1 DEF FlickerReports
<1>4. r.channel = channel /\ r.first = first /\ r.marked = marked
  OBVIOUS
<1> QED
  BY <1>1, <1>2, <1>3, <1>4

LEMMA FlickerEmitFields ==
  ASSUME NEW f \in FlickerStates, NEW channel, NEW kind, NEW valid, NEW first, NEW last,
         NEW status, NEW r \in FlickerReports,
         r = FlickerReport(f, channel, kind, valid, first, last, status)
  PROVE  LET q == FlickerEmit(f, channel, kind, valid, first, last, status)
         IN /\ q \in FlickerStates /\ q.records = Append(f.records, r)
            /\ q.live = f.live /\ q.interval = f.interval /\ q.rolling = f.rolling
            /\ q.newest = f.newest /\ q.active = f.active /\ q.sequence = f.sequence
<1> DEFINE recs == Append(f.records, r)
           q == [f EXCEPT !.records = recs, !.firstAfter = FALSE]
<1>1. q = FlickerEmit(f, channel, kind, valid, first, last, status)
  BY DEF FlickerEmit, FlickerReport
<1>2. f.records \in Seq(FlickerReports)
  BY DEF FlickerStates
<1>3. recs \in Seq(FlickerReports)
  <2> HIDE DEF FlickerReports
  <2> QED
    BY <1>2
<1> HIDE DEF recs
<1>4. /\ q \in FlickerStates /\ q.records = recs
      /\ q.live = f.live /\ q.interval = f.interval /\ q.rolling = f.rolling
      /\ q.newest = f.newest /\ q.active = f.active /\ q.sequence = f.sequence
  BY <1>3 DEF FlickerStates
<1> HIDE DEF q
<1> QED
  BY <1>1, <1>4 DEF recs

(* A record of a part, marked if the part is.                               *)
LEMMA FlickerEmitSound ==
  ASSUME NEW f \in FlickerStates, NEW channel \in {"live", "interval"}, NEW q \in FlickerStates,
         NEW r \in FlickerReports, q.records = Append(f.records, r), r.channel = channel,
         NEW since \in Int, NEW owed,
         ReportedSound(f.records, since, owed), r.first >= since,
         channel \in owed \ Announced(f.records) => r.marked
  PROVE  /\ ReportedSound(q.records, since, owed)
         /\ Announced(q.records) = Announced(f.records) \cup {channel}
<1>1. f.records \in Seq(FlickerReports)
  BY DEF FlickerStates
<1>2. /\ ReportedSound(Append(f.records, r), since, owed)
      /\ Announced(Append(f.records, r)) = Announced(f.records) \cup {r.channel}
  BY <1>1, Reporting
<1> QED
  BY <1>2

(* A full second is published.                                              *)
LEMMA CompletedLive ==
  ASSUME NEW f \in FlickerStates, NEW last \in Int, NEW since \in Int, NEW owed,
         f.live.first >= since, FlickerCarries(f, since, owed)
  PROVE  LET q == CompleteLive(f, last)
         IN /\ q \in FlickerStates /\ FlickerCarries(q, since, owed)
            /\ q.live.ticks < LiveBatches /\ q.interval = f.interval /\ q.rolling = f.rolling
            /\ q.newest = f.newest /\ q.active = f.active /\ q.sequence = f.sequence
<1>1. /\ f.live \in Parts /\ f.overflow \in BOOLEAN /\ f.settling \in Nat
  BY DEF FlickerStates
<1>2. f.live.first \in Int /\ f.live.discontinuity \in BOOLEAN /\ f.live.contaminated \in BOOLEAN
  BY <1>1 DEF Parts
<1>3. CASE f.live.ticks < LiveBatches
  BY <1>3 DEF CompleteLive
<1>4. CASE ~(f.live.ticks < LiveBatches)
  <2>1. PICK valid \in BOOLEAN : valid = (~Spoiled(f, f.live) /\ f.settling = 0)
    <3>1. (~Spoiled(f, f.live) /\ f.settling = 0) \in BOOLEAN
      OBVIOUS
    <3> QED
      BY <3>1, Zenon
  <2>2. PICK status \in BOOLEAN : status = Marked(f.live)
    <3>1. Marked(f.live) \in BOOLEAN
      BY DEF Marked
    <3> QED
      BY <3>1, Zenon
  <2>3. PICK first \in Int : first = f.live.first
    BY <1>2
  <2>4. PICK e : e = FlickerEmit(f, "live", "live", valid, first, last, status)
    OBVIOUS
  <2> DEFINE r == FlickerReport(f, "live", "live", valid, first, last, status)
  <2>20. r \in FlickerReports /\ r.channel = "live" /\ r.first = first /\ (status => r.marked)
    BY FlickerReportFields
  <2>21. /\ e \in FlickerStates /\ e.records = Append(f.records, r)
         /\ e.live = f.live /\ e.interval = f.interval /\ e.rolling = f.rolling
         /\ e.newest = f.newest /\ e.active = f.active /\ e.sequence = f.sequence
    BY <2>4, <2>20, FlickerEmitFields
  <2> HIDE DEF r
  <2>5. "live" \in owed \ Announced(f.records) => status
    BY <2>2 DEF FlickerCarries, Marked
  <2>6. ReportedSound(f.records, since, owed) /\ first >= since
    BY <2>3 DEF FlickerCarries
  <2>7. /\ e \in FlickerStates /\ ReportedSound(e.records, since, owed)
        /\ Announced(e.records) = Announced(f.records) \cup {"live"}
        /\ e.live = f.live /\ e.interval = f.interval /\ e.rolling = f.rolling
        /\ e.newest = f.newest /\ e.active = f.active /\ e.sequence = f.sequence
    BY <2>5, <2>6, <2>20, <2>21, FlickerEmitSound
  <2> DEFINE part == [Batches EXCEPT !.discontinuity = FALSE]
             q == [e EXCEPT !.live = part]
  <2>8. part \in Parts /\ part.ticks = 0
    <3>1. TRUE \in BOOLEAN
      OBVIOUS
    <3> QED
      BY <3>1, EmptyPart
  <2>9. q = CompleteLive(f, last)
    BY <1>4, <2>1, <2>2, <2>3, <2>4 DEF CompleteLive
  <2> HIDE DEF part
  <2>10. /\ q \in FlickerStates /\ q.records = e.records /\ q.live = part
         /\ q.interval = e.interval /\ q.rolling = e.rolling
         /\ q.newest = e.newest /\ q.active = e.active /\ q.sequence = e.sequence
    BY <2>7, <2>8 DEF FlickerStates
  <2> HIDE DEF q
  <2>11. FlickerCarries(q, since, owed)
    BY <2>7, <2>8, <2>10 DEF FlickerCarries, FlickerKept
  <2>12. 0 < LiveBatches
    BY FlickerAssumption
  <2> QED
    BY <2>7, <2>8, <2>9, <2>10, <2>11, <2>12
<1> QED
  BY <1>3, <1>4

(* The chain of Pst that makes a Plt.                                       *)
LEMMA RolledFields ==
  ASSUME NEW f \in FlickerStates, NEW since \in Int, Len(f.rolling) <= PltPeriods,
         \A i \in 1 .. Len(f.rolling) : f.rolling[i] >= since, f.interval.first >= since
  PROVE  /\ Rolled(f) \in Seq(Int) /\ Len(Rolled(f)) <= PltPeriods
         /\ \A i \in 1 .. Len(Rolled(f)) : Rolled(f)[i] >= since
<1>1. f.interval.first \in Int /\ f.rolling \in Seq(Int)
  BY DEF FlickerStates, Parts
<1>2. PICK rolling \in Seq(Int), n \in Nat, first \in Int :
        rolling = f.rolling /\ n = Len(rolling) /\ first = f.interval.first
  BY <1>1
<1>3. PltPeriods \in Nat \ {0}
  BY FlickerAssumption
<1>4. CASE Spoiled(f, f.interval)
  <2>1. Rolled(f) = <<>>
    BY <1>4 DEF Rolled
  <2>2. <<>> \in Seq(Int) /\ Len(<<>>) = 0
    OBVIOUS
  <2> HIDE DEF FlickerStates
  <2> QED
    BY <1>3, <2>1, <2>2
<1>5. CASE ~Spoiled(f, f.interval) /\ n = PltPeriods
  <2>1. Rolled(f) = Append(Tail(rolling), first)
    BY <1>2, <1>5 DEF Rolled
  <2>2. /\ Tail(rolling) \in Seq(Int) /\ Len(Tail(rolling)) = n - 1
        /\ \A i \in 1 .. n - 1 : Tail(rolling)[i] = rolling[i + 1]
    <3>1. n > 0
      BY <1>3, <1>5
    <3>2. rolling # <<>>
      BY <1>2, <3>1
    <3>3. Tail(rolling) \in Seq(Int) /\ Len(Tail(rolling)) = n - 1
      BY <1>2, <3>1, <3>2
    <3>4. \A i \in 1 .. n - 1 : Tail(rolling)[i] = rolling[i + 1]
      BY <1>2, <3>1, <3>2
    <3> QED
      BY <3>3, <3>4
  <2>3. \A i \in 1 .. n - 1 : Tail(rolling)[i] >= since
    BY <1>2, <2>2
  <2>4. PICK t \in Seq(Int) : t = Tail(rolling)
    BY <2>2
  <2>5. /\ Append(t, first) \in Seq(Int) /\ Len(Append(t, first)) = n
        /\ Append(t, first)[n] = first
        /\ \A i \in 1 .. n - 1 : Append(t, first)[i] = t[i]
    BY <1>2, <2>2, <2>4
  <2>6. \A i \in 1 .. n : i = n \/ i \in 1 .. n - 1
    BY <1>2
  <2> QED
    BY <1>2, <1>5, <2>1, <2>3, <2>4, <2>5, <2>6
<1>6. CASE ~Spoiled(f, f.interval) /\ n # PltPeriods
  <2>1. Rolled(f) = Append(rolling, first)
    BY <1>2, <1>6 DEF Rolled
  <2>2. /\ Append(rolling, first) \in Seq(Int) /\ Len(Append(rolling, first)) = n + 1
        /\ Append(rolling, first)[n + 1] = first
        /\ \A i \in 1 .. n : Append(rolling, first)[i] = rolling[i]
    BY <1>2
  <2>3. \A i \in 1 .. n + 1 : i = n + 1 \/ i \in 1 .. n
    BY <1>2
  <2>4. n + 1 <= PltPeriods
    BY <1>2, <1>3, <1>6
  <2> QED
    BY <1>2, <2>1, <2>2, <2>3, <2>4
<1> QED
  BY <1>4, <1>5, <1>6

(* A full interval is published, and the Plt it completes.                  *)
LEMMA CompletedInterval ==
  ASSUME NEW f \in FlickerStates, NEW last \in Int, NEW since \in Int, NEW owed,
         f.interval.first >= since, FlickerCarries(f, since, owed),
         Len(f.rolling) <= PltPeriods, f.live.ticks < LiveBatches
  PROVE  LET q == CompleteInterval(f, last)
         IN /\ q \in FlickerStates /\ FlickerCarries(q, since, owed) /\ FlickerBounds(q)
            /\ q.newest = f.newest /\ q.active = f.active /\ q.sequence = f.sequence
<1>1. /\ f.interval \in Parts /\ f.overflow \in BOOLEAN
  BY DEF FlickerStates
<1>2. /\ f.interval.first \in Int /\ f.interval.discontinuity \in BOOLEAN
      /\ f.interval.contaminated \in BOOLEAN
  BY <1>1 DEF Parts
<1>3. CASE f.interval.ticks < IntervalBatches
  BY <1>3 DEF CompleteInterval, FlickerBounds
<1>4. CASE ~(f.interval.ticks < IntervalBatches)
  <2>1. PICK valid \in BOOLEAN : valid = ~Spoiled(f, f.interval)
    <3>1. (~Spoiled(f, f.interval)) \in BOOLEAN
      OBVIOUS
    <3> QED
      BY <3>1, Zenon
  <2>2. PICK status \in BOOLEAN : status = Marked(f.interval)
    <3>1. Marked(f.interval) \in BOOLEAN
      BY DEF Marked
    <3> QED
      BY <3>1, Zenon
  <2>3. PICK first \in Int : first = f.interval.first
    BY <1>2
  <2>4. /\ Rolled(f) \in Seq(Int) /\ Len(Rolled(f)) <= PltPeriods
        /\ \A i \in 1 .. Len(Rolled(f)) : Rolled(f)[i] >= since
    BY RolledFields DEF FlickerCarries, FlickerKept
  <2>5. PICK rolling \in Seq(Int) : rolling = Rolled(f)
    BY <2>4
  <2>6. PICK pst : pst = FlickerEmit(f, "interval", "pst", valid, first, last, status)
    OBVIOUS
  <2>7. "interval" \in owed \ Announced(f.records) => status
    BY <2>2 DEF FlickerCarries, Marked
  <2>8. ReportedSound(f.records, since, owed) /\ first >= since
    BY <2>3 DEF FlickerCarries
  <2>9. /\ pst \in FlickerStates /\ ReportedSound(pst.records, since, owed)
        /\ Announced(pst.records) = Announced(f.records) \cup {"interval"}
        /\ pst.live = f.live /\ pst.newest = f.newest /\ pst.active = f.active
        /\ pst.sequence = f.sequence
    <3> DEFINE r == FlickerReport(f, "interval", "pst", valid, first, last, status)
    <3>1. r \in FlickerReports /\ r.channel = "interval" /\ r.first = first /\ (status => r.marked)
      BY FlickerReportFields
    <3>2. /\ pst \in FlickerStates /\ pst.records = Append(f.records, r)
          /\ pst.live = f.live /\ pst.newest = f.newest /\ pst.active = f.active
          /\ pst.sequence = f.sequence
      BY <2>6, <3>1, FlickerEmitFields
    <3> HIDE DEF r
    <3> QED
      BY <2>7, <2>8, <3>1, <3>2, FlickerEmitSound
  <2>10. PICK plt : plt = IF Len(rolling) = PltPeriods
                          THEN FlickerEmit(pst, "interval", "plt", TRUE, rolling[1], last, status)
                          ELSE pst
    OBVIOUS
  <2>11. /\ plt \in FlickerStates /\ ReportedSound(plt.records, since, owed)
         /\ Announced(plt.records) = Announced(f.records) \cup {"interval"}
         /\ plt.live = f.live /\ plt.newest = f.newest /\ plt.active = f.active
         /\ plt.sequence = f.sequence
    <3>1. CASE Len(rolling) = PltPeriods
      <4>1. 1 \in 1 .. Len(rolling)
        BY <3>1, FlickerAssumption
      <4>2. PICK start \in Int : start = rolling[1]
        BY <4>1
      <4>3. start >= since
        BY <2>4, <2>5, <4>1, <4>2
      <4>4. PICK good \in BOOLEAN : good = TRUE
        OBVIOUS
      <4>5. PICK q : q = FlickerEmit(pst, "interval", "plt", good, start, last, status)
        OBVIOUS
      <4>7. /\ q \in FlickerStates /\ ReportedSound(q.records, since, owed)
            /\ Announced(q.records) = Announced(pst.records) \cup {"interval"}
            /\ q.live = pst.live /\ q.newest = pst.newest /\ q.active = pst.active
            /\ q.sequence = pst.sequence
        <5> DEFINE r == FlickerReport(pst, "interval", "plt", good, start, last, status)
        <5>1. r \in FlickerReports /\ r.channel = "interval" /\ r.first = start
          BY <2>9, FlickerReportFields
        <5>2. /\ q \in FlickerStates /\ q.records = Append(pst.records, r)
              /\ q.live = pst.live /\ q.newest = pst.newest /\ q.active = pst.active
              /\ q.sequence = pst.sequence
          BY <2>9, <4>5, <5>1, FlickerEmitFields
        <5> HIDE DEF r
        <5>3. "interval" \notin owed \ Announced(pst.records)
          BY <2>9
        <5> QED
          BY <2>9, <4>3, <5>1, <5>2, <5>3, FlickerEmitSound
      <4>8. plt = q
        BY <2>10, <3>1, <4>2, <4>4, <4>5
      <4> QED
        BY <2>9, <4>7, <4>8
    <3>2. CASE Len(rolling) # PltPeriods
      BY <2>9, <2>10, <3>2
    <3> QED
      BY <3>1, <3>2
  <2> DEFINE part == [Batches EXCEPT !.discontinuity = FALSE]
             q == [plt EXCEPT !.rolling = rolling, !.interval = part]
  <2>12. part \in Parts /\ part.ticks = 0
    <3>1. TRUE \in BOOLEAN
      OBVIOUS
    <3> QED
      BY <3>1, EmptyPart
  <2>13. q = CompleteInterval(f, last)
    BY <1>4, <2>1, <2>2, <2>3, <2>5, <2>6, <2>10 DEF CompleteInterval
  <2> HIDE DEF part
  <2>14. /\ q \in FlickerStates /\ q.records = plt.records /\ q.live = plt.live
         /\ q.interval = part /\ q.rolling = rolling
         /\ q.newest = plt.newest /\ q.active = plt.active /\ q.sequence = plt.sequence
    BY <2>11, <2>12 DEF FlickerStates
  <2> HIDE DEF q
  <2>15. FlickerCarries(q, since, owed)
    BY <2>4, <2>5, <2>11, <2>12, <2>14 DEF FlickerCarries, FlickerKept
  <2>16. FlickerBounds(q)
    <3>1. 0 < IntervalBatches
      BY FlickerAssumption
    <3> QED
      BY <2>4, <2>5, <2>11, <2>12, <2>14, <3>1 DEF FlickerBounds
  <2> QED
    BY <2>11, <2>13, <2>14, <2>15, <2>16
<1> QED
  BY <1>3, <1>4

(* A part with one more sample.                                             *)
CountedTo(part, sample, invalid, ticks) ==
  [part EXCEPT !.ticks = ticks, !.first = IF part.ticks = 0 THEN sample ELSE @,
               !.contaminated = @ \/ invalid]

LEMMA CountedFields ==
  ASSUME NEW part \in Parts, NEW sample \in Int, NEW invalid \in BOOLEAN, NEW ticks \in Nat
  PROVE  /\ CountedTo(part, sample, invalid, ticks) \in Parts
         /\ CountedTo(part, sample, invalid, ticks).first =
              IF part.ticks = 0 THEN sample ELSE part.first
         /\ CountedTo(part, sample, invalid, ticks).discontinuity = part.discontinuity
<1> DEFINE first == IF part.ticks = 0 THEN sample ELSE part.first
           spoiled == part.contaminated \/ invalid
           q == [part EXCEPT !.ticks = ticks, !.first = first, !.contaminated = spoiled]
<1>1. part.ticks \in Nat /\ part.first \in Int /\ part.contaminated \in BOOLEAN
  BY DEF Parts
<1>2. first \in Int /\ spoiled \in BOOLEAN
  BY <1>1
<1>3. q = CountedTo(part, sample, invalid, ticks)
  BY DEF CountedTo
<1> HIDE DEF spoiled
<1>4. first \in Int /\ first = IF part.ticks = 0 THEN sample ELSE part.first
  BY <1>2
<1> HIDE DEF first
<1>5. q \in Parts /\ q.first = first /\ q.discontinuity = part.discontinuity
  BY <1>2 DEF Parts
<1> HIDE DEF q
<1> QED
  BY <1>3, <1>4, <1>5

(* A sample counts for both parts.                                          *)
LEMMA DecimatedFlicker ==
  ASSUME NEW f \in FlickerStates, NEW frame \in Frames, NEW since \in Int, NEW owed,
         since <= frame.sample, FlickerCarries(f, since, owed), FlickerBounds(f)
  PROVE  LET q == FlickerDecimated(f, frame)
         IN /\ q \in FlickerStates /\ FlickerCarries(q, since, owed) /\ FlickerBounds(q)
            /\ q.newest = f.newest /\ q.active = f.active /\ q.sequence = f.sequence
<1>1. PICK sample \in Int : sample = frame.sample
  BY DEF Frames
<1>2. PICK invalid \in BOOLEAN : invalid = ("invalid" \in frame.flags)
  <2>1. ("invalid" \in frame.flags) \in BOOLEAN
    OBVIOUS
  <2> QED
    BY <2>1, Zenon
<1>3. PICK settled \in BOOLEAN : settled = (f.settling = 0)
  <2>1. (f.settling = 0) \in BOOLEAN
    OBVIOUS
  <2> QED
    BY <2>1, Zenon
<1>4. /\ f.live \in Parts /\ f.interval \in Parts /\ f.settling \in Nat
  BY DEF FlickerStates
<1>5. PICK always \in BOOLEAN : always
  OBVIOUS
<1> DEFINE live == Counted(f.live, sample, invalid, always)
           interval == Counted(f.interval, sample, invalid, settled)
<1>7. live \in Parts /\ live.first >= since /\ live.discontinuity = f.live.discontinuity
  <2>1. f.live.ticks # 0 => f.live.first >= since
    BY DEF FlickerCarries, FlickerKept
  <2>2. PICK part \in Parts : part = f.live
    BY <1>4
  <2>3. PICK ticks \in Nat : ticks = part.ticks + (IF always THEN 1 ELSE 0)
    BY DEF Parts
  <2>4. live = CountedTo(part, sample, invalid, ticks)
    BY <2>2, <2>3 DEF Counted, CountedTo
  <2> HIDE DEF live
  <2>5. /\ live \in Parts /\ live.first = IF part.ticks = 0 THEN sample ELSE part.first
        /\ live.discontinuity = part.discontinuity
    BY <2>4, CountedFields
  <2> QED
    BY <1>1, <2>1, <2>2, <2>5
<1>8. interval \in Parts /\ interval.first >= since
      /\ interval.discontinuity = f.interval.discontinuity
  <2>1. f.interval.ticks # 0 => f.interval.first >= since
    BY DEF FlickerCarries, FlickerKept
  <2>2. PICK part \in Parts : part = f.interval
    BY <1>4
  <2>3. PICK ticks \in Nat : ticks = part.ticks + (IF settled THEN 1 ELSE 0)
    BY DEF Parts
  <2>4. interval = CountedTo(part, sample, invalid, ticks)
    BY <2>2, <2>3 DEF Counted, CountedTo
  <2> HIDE DEF interval
  <2>5. /\ interval \in Parts /\ interval.first = IF part.ticks = 0 THEN sample ELSE part.first
        /\ interval.discontinuity = part.discontinuity
    BY <2>4, CountedFields
  <2> QED
    BY <1>1, <2>1, <2>2, <2>5
<1> DEFINE settling == IF settled THEN 0 ELSE f.settling - 1
           counted == [f EXCEPT !.settling = settling, !.live = live, !.interval = interval]
<1>9. settling \in Nat
  <2>1. CASE settled
    BY <2>1
  <2>2. CASE ~settled
    <3>1. f.settling # 0
      BY <1>3, <2>2
    <3>2. settling = f.settling - 1
      BY <2>2
    <3> HIDE DEF settling
    <3> QED
      BY <1>4, <3>1, <3>2
  <2> QED
    BY <2>1, <2>2
<1>10. FlickerDecimated(f, frame) = CompleteInterval(CompleteLive(counted, sample), sample)
  BY <1>1, <1>2, <1>3, <1>5 DEF FlickerDecimated
<1> HIDE DEF settling, live, interval
<1>11. /\ counted \in FlickerStates /\ counted.live = live /\ counted.interval = interval
       /\ counted.rolling = f.rolling /\ counted.records = f.records
       /\ counted.newest = f.newest /\ counted.active = f.active
       /\ counted.sequence = f.sequence
  BY <1>7, <1>8, <1>9 DEF FlickerStates
<1> HIDE DEF counted
<1>12. FlickerCarries(counted, since, owed)
  BY <1>7, <1>8, <1>11 DEF FlickerCarries, FlickerKept
<1>13. PICK done : done = CompleteLive(counted, sample)
  OBVIOUS
<1>14. /\ done \in FlickerStates /\ FlickerCarries(done, since, owed)
       /\ done.live.ticks < LiveBatches /\ done.interval = counted.interval
       /\ done.rolling = counted.rolling
       /\ done.newest = counted.newest /\ done.active = counted.active
       /\ done.sequence = counted.sequence
  BY <1>7, <1>11, <1>12, <1>13, CompletedLive
<1>15. done.interval.first >= since /\ Len(done.rolling) <= PltPeriods
  BY <1>8, <1>11, <1>14 DEF FlickerBounds
<1>16. PICK q : q = CompleteInterval(done, sample)
  OBVIOUS
<1>17. /\ q \in FlickerStates /\ FlickerCarries(q, since, owed) /\ FlickerBounds(q)
       /\ q.newest = done.newest /\ q.active = done.active /\ q.sequence = done.sequence
  BY <1>14, <1>15, <1>16, CompletedInterval
<1> QED
  BY <1>10, <1>11, <1>13, <1>14, <1>16, <1>17

LEMMA PlacedFlicker ==
  ASSUME NEW f \in FlickerStates, NEW number \in Int
  PROVE  LET q == [f EXCEPT !.newest = number]
         IN /\ q \in FlickerStates /\ q.live = f.live /\ q.interval = f.interval
            /\ q.rolling = f.rolling /\ q.records = f.records
            /\ q.newest = number /\ q.active = f.active /\ q.sequence = f.sequence
BY DEF FlickerStates

LEMMA NumberedFlicker ==
  ASSUME NEW f \in FlickerStates, NEW number \in Int
  PROVE  LET q == [f EXCEPT !.sequence = number]
         IN /\ q \in FlickerStates /\ q.live = f.live /\ q.interval = f.interval
            /\ q.rolling = f.rolling /\ q.records = f.records
            /\ q.newest = f.newest /\ q.active = f.active /\ q.sequence = number
BY DEF FlickerStates

LEMMA SaturatedFlicker ==
  ASSUME NEW f \in FlickerStates, NEW c \in BOOLEAN
  PROVE  LET q == [f EXCEPT !.overflow = c]
         IN /\ q \in FlickerStates /\ q.live = f.live /\ q.interval = f.interval
            /\ q.rolling = f.rolling /\ q.records = f.records
            /\ q.newest = f.newest /\ q.active = f.active /\ q.sequence = f.sequence
BY DEF FlickerStates

(* Only the parts, the chain and the records tell what a state carries.     *)
LEMMA SameFlicker ==
  ASSUME NEW f, NEW q, q.live = f.live, q.interval = f.interval, q.rolling = f.rolling
  PROVE  /\ FlickerFresh(f) => FlickerFresh(q)
         /\ FlickerBounds(f) => FlickerBounds(q)
         /\ \A since, owed :
              q.records = f.records /\ FlickerCarries(f, since, owed)
              => FlickerCarries(q, since, owed)
BY DEF FlickerFresh, FlickerBounds, FlickerCarries, FlickerKept

LEMMA SampledFlicker ==
  ASSUME NEW f \in FlickerStates, NEW frame \in Frames, NEW since \in Int, NEW owed,
         since <= frame.sample, ReportedSound(f.records, since, owed), FlickerBounds(f),
         \/ FlickerFresh(f)
         \/ f.newest # NoFrame /\ frame.sample # f.newest + 1
         \/ FlickerCarries(f, since, owed)
  PROVE  LET q == FlickerSample(f, frame)
         IN /\ q \in FlickerStates /\ FlickerCarries(q, since, owed) /\ FlickerBounds(q)
            /\ q.newest = frame.sample /\ q.active = f.active /\ q.sequence = f.sequence
            /\ "malformed" \in frame.flags => FlickerFresh(q) /\ q.records = f.records
<1> DEFINE jumped == f.newest # NoFrame /\ frame.sample # f.newest + 1
           sample == frame.sample
           reset == ResetRuntime(f, TRUE)
<1>1. sample \in Int /\ since <= sample /\ TRUE \in BOOLEAN
  BY DEF Frames
<1>2. /\ reset \in FlickerStates /\ FlickerFresh(reset)
      /\ reset.records = f.records /\ reset.active = f.active /\ reset.sequence = f.sequence
  BY <1>1, ResetRuntimeFields
<1>3. PICK start \in FlickerStates : start = IF jumped THEN reset ELSE f
  BY <1>2
<1>4. /\ start.records = f.records /\ start.active = f.active /\ start.sequence = f.sequence
      /\ FlickerCarries(start, since, owed) /\ FlickerBounds(start)
  <2>1. CASE jumped
    <3>1. start = reset
      BY <1>3, <2>1
    <3> HIDE DEF reset
    <3> QED
      BY <1>2, <3>1, FreshFlickerCarries
  <2>2. CASE ~jumped
    BY <1>3, <2>2, FreshFlickerCarries
  <2> QED
    BY <2>1, <2>2
<1>5. PICK base : base = [start EXCEPT !.newest = sample]
  OBVIOUS
<1>6. /\ base \in FlickerStates /\ base.live = start.live /\ base.interval = start.interval
      /\ base.rolling = start.rolling /\ base.records = start.records
      /\ base.newest = sample /\ base.active = start.active /\ base.sequence = start.sequence
  BY <1>1, <1>5, PlacedFlicker
<1>7. FlickerCarries(base, since, owed) /\ FlickerBounds(base)
  BY <1>4, <1>6, SameFlicker
<1>8. CASE "malformed" \in frame.flags
  <2>1. PICK again : again = ResetRuntime(base, TRUE)
    OBVIOUS
  <2>2. /\ again \in FlickerStates /\ FlickerFresh(again) /\ again.records = base.records
        /\ again.active = base.active /\ again.sequence = base.sequence
    BY <1>1, <1>6, <2>1, ResetRuntimeFields
  <2>3. PICK q : q = [again EXCEPT !.newest = sample]
    OBVIOUS
  <2>4. /\ q \in FlickerStates /\ q.live = again.live /\ q.interval = again.interval
        /\ q.rolling = again.rolling /\ q.records = again.records
        /\ q.newest = sample /\ q.active = again.active /\ q.sequence = again.sequence
    BY <1>1, <2>2, <2>3, PlacedFlicker
  <2>5. FlickerFresh(q)
    BY <2>2, <2>4, SameFlicker
  <2>6. FlickerCarries(q, since, owed) /\ FlickerBounds(q)
    BY <1>4, <1>6, <2>2, <2>4, <2>5, FreshFlickerCarries
  <2>7. q = FlickerSample(f, frame)
    BY <1>3, <1>5, <1>8, <2>1, <2>3 DEF FlickerSample
  <2> QED
    BY <1>4, <1>6, <2>2, <2>4, <2>5, <2>6, <2>7
<1>9. CASE "malformed" \notin frame.flags
  <2>1. PICK c \in BOOLEAN : c = (base.overflow \/ "saturated" \in frame.flags)
    <3>1. base.overflow \in BOOLEAN
      BY <1>6 DEF FlickerStates
    <3>2. (base.overflow \/ "saturated" \in frame.flags) \in BOOLEAN
      OBVIOUS
    <3> QED
      BY <3>2, Zenon
  <2>2. PICK spoiled : spoiled = [base EXCEPT !.overflow = c]
    OBVIOUS
  <2>3. /\ spoiled \in FlickerStates /\ spoiled.live = base.live
        /\ spoiled.interval = base.interval /\ spoiled.rolling = base.rolling
        /\ spoiled.records = base.records /\ spoiled.newest = base.newest
        /\ spoiled.active = base.active /\ spoiled.sequence = base.sequence
    BY <1>6, <2>2, SaturatedFlicker
  <2>4. FlickerCarries(spoiled, since, owed) /\ FlickerBounds(spoiled)
    BY <1>7, <2>3, SameFlicker
  <2>5. FlickerDecimated(spoiled, frame) = FlickerSample(f, frame)
    BY <1>3, <1>5, <1>9, <2>1, <2>2 DEF FlickerSample
  <2>6. PICK q : q = FlickerDecimated(spoiled, frame)
    OBVIOUS
  <2>7. /\ q \in FlickerStates /\ FlickerCarries(q, since, owed) /\ FlickerBounds(q)
        /\ q.newest = spoiled.newest /\ q.active = spoiled.active
        /\ q.sequence = spoiled.sequence
    BY <2>3, <2>4, <2>6, DecimatedFlicker
  <2> QED
    BY <1>4, <1>6, <1>9, <2>3, <2>5, <2>6, <2>7
<1> QED
  BY <1>8, <1>9

(* A batch: a hole, or a discontinuity, begins both parts anew.             *)
LEMMA MeasuredFlicker ==
  ASSUME NEW f \in FlickerStates, f.records = <<>>, FlickerBounds(f),
         NEW frame \in Frames, NEW since \in Int, NEW owed, since <= frame.sample,
         \/ FlickerFresh(f)
         \/ external \/ FlickerGap(f, frame) \/ "drop" \in frame.flags \/ "disc" \in frame.flags
         \/ f.newest # NoFrame /\ frame.sample # f.newest + 1
         \/ FlickerCarries(f, since, owed)
  PROVE  LET q == FlickerMeasured(f, frame)
         IN /\ q \in FlickerStates /\ FlickerCarries(q, since, owed) /\ FlickerBounds(q)
            /\ FlickerFresh(q) \/ ("malformed" \notin frame.flags /\ q.newest = frame.sample)
            /\ "malformed" \in frame.flags => q.records = <<>>
<1> DEFINE hole == external \/ FlickerGap(f, frame) \/ "drop" \in frame.flags
           sequence == frame.sequence
<1>1. PICK c \in BOOLEAN : c = hole
  <2>1. hole \in BOOLEAN
    OBVIOUS
  <2> HIDE DEF hole
  <2> QED
    BY <2>1
<1>2. sequence \in Int
  BY DEF Frames
<1>3. PICK reset : reset = ResetRuntime(f, c)
  OBVIOUS
<1>4. /\ reset \in FlickerStates /\ FlickerFresh(reset) /\ reset.records = f.records
  BY <1>3, ResetRuntimeFields
<1>5. PICK ready \in FlickerStates : ready = IF hole \/ "disc" \in frame.flags THEN reset ELSE f
  BY <1>4
<1>6. ReportedSound(<<>>, since, owed)
  BY NothingReported
<1>7. /\ ready.records = <<>> /\ FlickerBounds(ready)
      /\ \/ FlickerFresh(ready)
         \/ ready.newest # NoFrame /\ frame.sample # ready.newest + 1
         \/ FlickerCarries(ready, since, owed)
  <2>1. CASE hole \/ "disc" \in frame.flags
    BY <1>4, <1>5, <1>6, <2>1, FreshFlickerCarries
  <2>2. CASE ~(hole \/ "disc" \in frame.flags)
    BY <1>5, <2>2
  <2> QED
    BY <2>1, <2>2
<1>8. PICK numbered : numbered = [ready EXCEPT !.sequence = sequence]
  OBVIOUS
<1>9. /\ numbered \in FlickerStates /\ numbered.live = ready.live
      /\ numbered.interval = ready.interval /\ numbered.rolling = ready.rolling
      /\ numbered.records = ready.records /\ numbered.newest = ready.newest
  BY <1>2, <1>8, NumberedFlicker
<1>10. /\ FlickerBounds(numbered) /\ ReportedSound(numbered.records, since, owed)
       /\ \/ FlickerFresh(numbered)
          \/ numbered.newest # NoFrame /\ frame.sample # numbered.newest + 1
          \/ FlickerCarries(numbered, since, owed)
  BY <1>6, <1>7, <1>9, SameFlicker
<1>11. PICK sampled : sampled = FlickerSample(numbered, frame)
  OBVIOUS
<1>12. /\ sampled \in FlickerStates /\ FlickerCarries(sampled, since, owed)
       /\ FlickerBounds(sampled) /\ sampled.newest = frame.sample
       /\ "malformed" \in frame.flags => FlickerFresh(sampled) /\ sampled.records = <<>>
  BY <1>7, <1>9, <1>10, <1>11, SampledFlicker
<1>13. CASE "drop" \in frame.flags
  <2>1. PICK q : q = ResetRuntime(sampled, TRUE)
    OBVIOUS
  <2>2. TRUE \in BOOLEAN
    OBVIOUS
  <2>3. q \in FlickerStates /\ FlickerFresh(q) /\ q.records = sampled.records
    BY <1>12, <2>1, <2>2, ResetRuntimeFields
  <2>4. ReportedSound(q.records, since, owed)
    BY <1>12, <2>3 DEF FlickerCarries
  <2>5. FlickerCarries(q, since, owed) /\ FlickerBounds(q)
    BY <2>3, <2>4, FreshFlickerCarries
  <2>6. q = FlickerMeasured(f, frame)
    BY <1>1, <1>3, <1>5, <1>8, <1>11, <1>13, <2>1 DEF FlickerMeasured
  <2> QED
    BY <1>12, <2>3, <2>5, <2>6
<1>14. CASE "drop" \notin frame.flags
  <2>1. sampled = FlickerMeasured(f, frame)
    BY <1>1, <1>3, <1>5, <1>8, <1>11, <1>14 DEF FlickerMeasured
  <2> QED
    BY <1>12, <2>1
<1> QED
  BY <1>13, <1>14

LEMMA PublishedFlicker ==
  ASSUME NEW f \in FlickerStates, flicker' = [f EXCEPT !.records = <<>>], records' = f.records,
         NEW since \in Int, NEW owed, since = track'.since, owed = track'.owed,
         FlickerCarries(f, since, owed), FlickerBounds(f)
  PROVE  /\ flicker' \in FlickerStates /\ flicker'.records = <<>> /\ FlickerBounds(flicker')
         /\ FlickerKept(flicker', track'.since)
         /\ "live" \in Owing' => flicker'.live.discontinuity
         /\ "interval" \in Owing' => flicker'.interval.discontinuity
         /\ FlickerFresh(f) => FlickerFresh(flicker')
         /\ flicker'.newest = f.newest
         /\ ReportedSound(records, track.since, track.owed)'
<1>1. <<>> \in Seq(FlickerReports)
  OBVIOUS
<1>2. /\ flicker' \in FlickerStates /\ flicker'.records = <<>> /\ flicker'.live = f.live
      /\ flicker'.interval = f.interval /\ flicker'.rolling = f.rolling
      /\ flicker'.newest = f.newest
  BY <1>1 DEF FlickerStates
<1>3. Owing' = owed \ Announced(f.records)
  BY DEF Owing, Announced
<1> QED
  BY <1>2, <1>3 DEF FlickerCarries, FlickerKept, FlickerFresh, FlickerBounds

LEMMA FlickerFrame ==
  ASSUME StreamTypes, StreamOrder, FlickerInvariant,
         NEW frame \in Arriving(MaxBatches, BatchFlaws), FlickerProcess(frame), Sent(frame)
  PROVE  /\ StreamTypes' /\ StreamOrder' /\ FlickerInvariant'
         /\ ReportedSound(records, track.since, track.owed)'
<1>1. BatchFlaws \in SUBSET SUBSET Flags
  BY DEF BatchFlaws, Flags
<1>2. /\ frame \in Frames
      /\ \/ frame = stream.newest /\ stream.newest # NoNewest
         \/ /\ frame # stream.newest /\ frame.sequence = stream.next
            /\ frame.sample \in {stream.sample, stream.sample + 1}
  BY <1>1, ArrivingFrames
<1>3. /\ frame.sample \in Nat /\ frame.sequence \in Nat /\ track \in Tracks
  BY <1>2 DEF Frames, StreamTypes
<1>4. track' = Heard(frame) \/ track' = Unheard
  BY DEF FlickerProcess
<1>5. external' \in BOOLEAN
  BY DEF FlickerProcess
<1>6. StreamTypes' /\ StreamOrder'
  BY <1>2, <1>4, <1>5, StreamAfterFrame
<1>7. PICK v \in FlickerStates : v = flicker
  BY DEF FlickerInvariant
<1>8. v.records = <<>> /\ FlickerBounds(v)
  BY <1>7 DEF FlickerInvariant
<1>9. PICK f : f = FlickerConfigured(v, frame)
  OBVIOUS
<1>10. /\ f \in FlickerStates /\ f.records = <<>> /\ FlickerBounds(f)
       /\ f = v \/ FlickerFresh(f)
  <2>1. CASE f = v
    BY <1>8, <2>1
  <2>2. CASE f # v
    <3> DEFINE generation == frame.generation
               number == NoFrame
    <3>1. PICK w : w = [v EXCEPT !.active = generation, !.sequence = number]
      OBVIOUS
    <3>2. generation \in Int /\ number \in Int
      BY <1>2 DEF Frames, NoFrame
    <3>3. f = ResetRuntime(w, FALSE)
      BY <1>9, <2>2, <3>1 DEF FlickerConfigured
    <3> HIDE DEF generation, number
    <3>4. w \in FlickerStates /\ w.records = v.records
      BY <3>1, <3>2 DEF FlickerStates
    <3>5. FALSE \in BOOLEAN
      OBVIOUS
    <3>6. f \in FlickerStates /\ FlickerFresh(f) /\ f.records = w.records
      BY <3>3, <3>4, <3>5, ResetRuntimeFields
    <3>7. PICK since : since = 0
      OBVIOUS
    <3>8. ReportedSound(f.records, since, {})
      BY <1>8, <3>4, <3>6, NothingReported
    <3> QED
      BY <1>8, <3>4, <3>6, <3>8, FreshFlickerCarries
  <2> QED
    BY <2>1, <2>2
<1>11. FlickerCarries(v, track.since, Owing)
  BY <1>7, <1>8, NothingReported DEF FlickerInvariant, FlickerCarries
<1>12. CASE ~FlickerMatches(v, frame)
  <2>1. /\ external' /\ records' = <<>> /\ track' = Unheard /\ flicker' = flicker
    BY <1>7, <1>12 DEF FlickerProcess
  <2>2. track'.since = track.since /\ track'.owed = Owing
    BY <2>1, UnheardFields
  <2>3. Owing' = Owing
    BY <2>1, <2>2 DEF Owing
  <2>4. FlickerInvariant'
    BY <2>1, <2>2, <2>3 DEF FlickerInvariant
  <2> QED
    BY <1>6, <2>1, <2>4, NothingReported
<1>13. CASE FlickerMatches(v, frame)
  <2>1. PICK q : q = FlickerMeasured(f, frame)
    OBVIOUS
  <2>2. /\ ~external' /\ flicker' = [q EXCEPT !.records = <<>>] /\ records' = q.records
        /\ track' = IF "malformed" \in frame.flags THEN Unheard ELSE Heard(frame)
    BY <1>7, <1>9, <1>13, <2>1 DEF FlickerProcess
  <2>3. PICK since, owed : since = track'.since /\ owed = track'.owed
    OBVIOUS
  <2>4. since \in Int /\ owed \in SUBSET Channels
    BY <1>6, <2>3 DEF StreamTypes, Tracks
  (* Without a hole and a jump the frame continues what was heard.          *)
  <2>5. \/ FlickerFresh(f)
        \/ external \/ FlickerGap(f, frame) \/ "drop" \in frame.flags \/ "disc" \in frame.flags
        \/ f = v /\ frame.sample = track.next
        \/ f.newest # NoFrame /\ frame.sample # f.newest + 1
    BY <1>7, <1>10 DEF FlickerInvariant
  <2>6. /\ q \in FlickerStates /\ FlickerCarries(q, since, owed) /\ FlickerBounds(q)
        /\ FlickerFresh(q) \/ ("malformed" \notin frame.flags /\ q.newest = frame.sample)
    <3>1. CASE "malformed" \in frame.flags
      <4>1. PICK low \in Int : low = IF track.since <= frame.sample THEN track.since ELSE 0
        BY <1>3 DEF Tracks
      <4>2. \/ FlickerFresh(f)
            \/ external \/ FlickerGap(f, frame) \/ "drop" \in frame.flags
               \/ "disc" \in frame.flags
            \/ f.newest # NoFrame /\ frame.sample # f.newest + 1
            \/ FlickerCarries(f, low, {})
        <5>1. ASSUME f = v, frame.sample = track.next
              PROVE  FlickerCarries(f, low, {})
          <6>1. low = track.since
            BY <1>3, <4>1, <5>1 DEF StreamOrder, Tracks, NoFrame
          <6> QED
            BY <1>8, <1>11, <5>1, <6>1, NothingReported DEF FlickerCarries
        <5> QED
          BY <2>5, <5>1
      <4>3. low <= frame.sample
        BY <1>3, <4>1
      <4>4. /\ q \in FlickerStates /\ FlickerFresh(q) /\ q.records = <<>>
        BY <1>2, <1>10, <2>1, <3>1, <4>2, <4>3, MeasuredFlicker
      <4> QED
        BY <4>4, NothingReported, FreshFlickerCarries
    <3>2. CASE "malformed" \notin frame.flags
      <4>1. /\ since <= frame.sample
            /\ frame.sample = track.next => since = track.since /\ owed = Owing
        BY <1>2, <2>2, <2>3, <3>2, HeardFields
      <4>2. \/ FlickerFresh(f)
            \/ external \/ FlickerGap(f, frame) \/ "drop" \in frame.flags
               \/ "disc" \in frame.flags
            \/ f.newest # NoFrame /\ frame.sample # f.newest + 1
            \/ FlickerCarries(f, since, owed)
        BY <1>11, <2>5, <4>1
      <4> QED
        BY <1>2, <1>10, <2>1, <2>4, <4>1, <4>2, MeasuredFlicker
    <3> QED
      BY <3>1, <3>2
  <2>7. /\ flicker' \in FlickerStates /\ flicker'.records = <<>> /\ FlickerBounds(flicker')
        /\ FlickerKept(flicker', track'.since)
        /\ "live" \in Owing' => flicker'.live.discontinuity
        /\ "interval" \in Owing' => flicker'.interval.discontinuity
        /\ FlickerFresh(q) => FlickerFresh(flicker')
        /\ flicker'.newest = q.newest
        /\ ReportedSound(records, track.since, track.owed)'
    BY <2>2, <2>3, <2>4, <2>6, PublishedFlicker
  <2>8. "malformed" \notin frame.flags => track'.next = frame.sample + 1
    BY <1>2, <2>2, HeardFields
  <2>9. frame.sample # NoFrame
    BY <1>3 DEF NoFrame
  <2>10. FlickerInvariant'
    BY <2>6, <2>7, <2>8, <2>9 DEF FlickerInvariant
  <2> QED
    BY <1>6, <2>7, <2>10
<1> QED
  BY <1>12, <1>13

LEMMA FlickerStep ==
  ASSUME StreamTypes, StreamOrder, FlickerInvariant,
         ReportedSound(records, track.since, track.owed), FlickerNext
  PROVE  /\ StreamTypes' /\ StreamOrder' /\ FlickerInvariant'
         /\ ReportedSound(records, track.since, track.owed)'
<1>1. ASSUME NEW frame \in Arriving(MaxBatches, BatchFlaws), FlickerProcess(frame), Sent(frame)
      PROVE  /\ StreamTypes' /\ StreamOrder' /\ FlickerInvariant'
             /\ ReportedSound(records, track.since, track.owed)'
  BY <1>1, FlickerFrame
<1>2. CASE LoseStreamFrames(MaxBatches, {1}) /\ UNCHANGED flicker
  <2>1. /\ StreamTypes' /\ StreamOrder' /\ records' = <<>> /\ external' = external
        /\ track' = [track EXCEPT !.owed = Owing] /\ Owing' = Owing
    BY <1>2, LostFrames
  <2>2. track'.since = track.since /\ track'.next = track.next
    BY <2>1, UnheardFields
  <2>3. FlickerInvariant'
    BY <1>2, <2>1, <2>2 DEF FlickerInvariant
  <2> QED
    BY <2>1, <2>3, NothingReported
<1>3. CASE StreamInterference /\ UNCHANGED flicker
  <2>1. /\ StreamTypes' /\ StreamOrder' /\ records' = records /\ track' = track
        /\ Owing' = Owing /\ (external => external')
    BY <1>3, Interferes
  <2>2. FlickerInvariant'
    BY <1>3, <2>1 DEF FlickerInvariant
  <2> QED
    BY <2>1, <2>2
<1> QED
  BY <1>1, <1>2, <1>3 DEF FlickerNext

--------------------------------------------------------------------------------
(* Harmonics.                                                               *)

LEMMA EmptySpectra ==
  /\ EmptyTier \in Spectra /\ EmptyTier.contributors = 0 /\ EmptyTier.firstAfter
  /\ Renewed \in Spectra /\ Renewed.contributors = 0 /\ ~Renewed.firstAfter
<1>1. EmptyTier \in Spectra /\ EmptyTier.contributors = 0 /\ EmptyTier.firstAfter
  BY DEF EmptyTier, Spectra
<1>2. PICK tier \in Spectra : tier = EmptyTier
  BY <1>1
<1>3. Renewed = [tier EXCEPT !.firstAfter = FALSE]
  BY <1>2 DEF Renewed
<1> QED
  BY <1>1, <1>2, <1>3 DEF Spectra

LEMMA FreshHarmonicCarries ==
  ASSUME NEW h \in HarmonicStates, HarmonicFresh(h), NEW since, NEW owed,
         ReportedSound(h.records, since, owed)
  PROVE  HarmonicCarries(h, since, owed) /\ HarmonicBounds(h)
  BY HarmonicAssumption DEF HarmonicFresh, HarmonicCarries, HarmonicBounds, TierCarries

LEMMA ResetFields ==
  ASSUME NEW h \in HarmonicStates
  PROVE  /\ LET q == ResetLong(h)
            IN /\ q \in HarmonicStates /\ q.three = h.three
               /\ q.ten = EmptyTier /\ q.two = EmptyTier
               /\ q.records = h.records /\ q.sequence = h.sequence /\ q.expected = h.expected
         /\ LET q == ResetAll(h)
            IN /\ q \in HarmonicStates /\ HarmonicFresh(q)
               /\ q.records = h.records /\ q.sequence = h.sequence /\ q.expected = h.expected
<1>1. PICK tier \in Spectra : tier = EmptyTier
  BY EmptySpectra
<1>2. PICK q : q = ResetLong(h)
  OBVIOUS
<1>3. /\ q \in HarmonicStates /\ q.three = h.three /\ q.ten = tier /\ q.two = tier
      /\ q.records = h.records /\ q.sequence = h.sequence /\ q.expected = h.expected
  BY <1>1, <1>2 DEF ResetLong, HarmonicStates
<1>4. PICK a : a = ResetAll(h)
  OBVIOUS
<1>5. a = [q EXCEPT !.three = tier]
  BY <1>1, <1>2, <1>4 DEF ResetAll
<1>6. /\ a \in HarmonicStates /\ a.three = tier /\ a.ten = q.ten /\ a.two = q.two
      /\ a.records = q.records /\ a.sequence = q.sequence /\ a.expected = q.expected
  BY <1>1, <1>3, <1>5 DEF HarmonicStates
<1>7. HarmonicFresh(a)
  BY <1>1, <1>3, <1>6, EmptySpectra DEF HarmonicFresh
<1> QED
  BY <1>1, <1>2, <1>3, <1>4, <1>6, <1>7

PlacedAt(h, number, sample) == [h EXCEPT !.sequence = number, !.expected = sample]

LEMMA PlacedFamily ==
  ASSUME NEW h \in HarmonicStates, NEW number \in Int, NEW sample \in Int
  PROVE  LET q == PlacedAt(h, number, sample)
         IN /\ q \in HarmonicStates /\ q.sequence = number /\ q.expected = sample
            /\ q.three = h.three /\ q.ten = h.ten /\ q.two = h.two /\ q.records = h.records
  BY DEF HarmonicStates, PlacedAt

LEMMA PlacedThree ==
  ASSUME NEW h \in HarmonicStates, NEW tier \in Spectra
  PROVE  LET q == [h EXCEPT !.three = tier]
         IN /\ q \in HarmonicStates /\ q.sequence = h.sequence /\ q.expected = h.expected
            /\ q.three = tier /\ q.ten = h.ten /\ q.two = h.two /\ q.records = h.records
  BY DEF HarmonicStates

LEMMA PlacedTen ==
  ASSUME NEW h \in HarmonicStates, NEW tier \in Spectra
  PROVE  LET q == [h EXCEPT !.ten = tier]
         IN /\ q \in HarmonicStates /\ q.sequence = h.sequence /\ q.expected = h.expected
            /\ q.three = h.three /\ q.ten = tier /\ q.two = h.two /\ q.records = h.records
  BY DEF HarmonicStates

LEMMA PlacedTwo ==
  ASSUME NEW h \in HarmonicStates, NEW tier \in Spectra
  PROVE  LET q == [h EXCEPT !.two = tier]
         IN /\ q \in HarmonicStates /\ q.sequence = h.sequence /\ q.expected = h.expected
            /\ q.three = h.three /\ q.ten = h.ten /\ q.two = tier /\ q.records = h.records
  BY DEF HarmonicStates

LEMMA AccumulatedFields ==
  ASSUME NEW tier \in Spectra, NEW generation \in Int, NEW first \in Int, NEW since \in Int,
         first >= since, tier.contributors # 0 => tier.first >= since
  PROVE  LET q == Accumulated(tier, generation, first)
         IN /\ q \in Spectra /\ q.contributors = tier.contributors + 1
            /\ q.first >= since /\ q.firstAfter = tier.firstAfter
<1>1. tier.contributors \in Nat
  BY DEF Spectra
<1>2. CASE tier.contributors = 0
  <2> DEFINE q == [tier EXCEPT !.contributors = 1, !.generation = generation, !.first = first]
  <2>1. q = Accumulated(tier, generation, first)
    BY <1>2 DEF Accumulated
  <2>2. q \in Spectra /\ q.contributors = 1 /\ q.first = first /\ q.firstAfter = tier.firstAfter
    BY DEF Spectra
  <2> HIDE DEF q
  <2> QED
    BY <1>2, <2>1, <2>2
<1>3. CASE tier.contributors # 0
  <2> DEFINE count == tier.contributors + 1
             q == [tier EXCEPT !.contributors = count]
  <2>1. q = Accumulated(tier, generation, first)
    BY <1>3 DEF Accumulated
  <2>2. count \in Nat /\ count = tier.contributors + 1
    BY <1>1
  <2> HIDE DEF count
  <2>3. /\ q \in Spectra /\ q.contributors = count /\ q.first = tier.first
        /\ q.firstAfter = tier.firstAfter
    BY <2>2 DEF Spectra
  <2> HIDE DEF q
  <2> QED
    BY <1>3, <2>1, <2>2, <2>3
<1> QED
  BY <1>2, <1>3

FamilyReport(tier, channel, valid, last) ==
  [channel |-> channel, kind |-> "harmonic", valid |-> valid, first |-> tier.first,
   last |-> last, marked |-> tier.firstAfter]

(* A spectrum is published.                                                 *)
LEMMA FamilyReportFields ==
  ASSUME NEW tier \in Spectra, NEW channel \in {"three", "ten", "two"},
         NEW valid \in BOOLEAN, NEW last \in Int
  PROVE  LET r == FamilyReport(tier, channel, valid, last)
         IN /\ r \in FamilyReports /\ r.channel = channel /\ r.first = tier.first
            /\ r.marked = tier.firstAfter
<1>1. tier.first \in Int /\ tier.firstAfter \in BOOLEAN
  BY DEF Spectra
<1> QED
  BY <1>1 DEF FamilyReport, FamilyReports

LEMMA FamilyEmitFields ==
  ASSUME NEW h \in HarmonicStates, NEW tier, NEW channel, NEW valid, NEW last,
         FamilyReport(tier, channel, valid, last) \in FamilyReports
  PROVE  LET q == EmitFamily(h, tier, channel, valid, last)
         IN /\ q \in HarmonicStates
            /\ q.records = Append(h.records, FamilyReport(tier, channel, valid, last))
            /\ q.three = h.three /\ q.ten = h.ten /\ q.two = h.two
            /\ q.sequence = h.sequence /\ q.expected = h.expected
<1> DEFINE r == FamilyReport(tier, channel, valid, last)
           recs == Append(h.records, r)
           q == [h EXCEPT !.records = recs]
<1>1. q = EmitFamily(h, tier, channel, valid, last)
  BY DEF EmitFamily, FamilyReport
<1> HIDE DEF r
<1>2. h.records \in Seq(FamilyReports) /\ r \in FamilyReports
  BY DEF HarmonicStates, r
<1>3. recs \in Seq(FamilyReports)
  <2> HIDE DEF FamilyReports
  <2> QED
    BY <1>2
<1>4. recs = Append(h.records, FamilyReport(tier, channel, valid, last))
  BY DEF r
<1> HIDE DEF recs
<1>5. /\ q \in HarmonicStates /\ q.records = recs
      /\ q.three = h.three /\ q.ten = h.ten /\ q.two = h.two
      /\ q.sequence = h.sequence /\ q.expected = h.expected
  BY <1>3 DEF HarmonicStates
<1> HIDE DEF q
<1> QED
  BY <1>1, <1>4, <1>5

LEMMA FamilyEmitSound ==
  ASSUME NEW h \in HarmonicStates, NEW channel, NEW q \in HarmonicStates,
         NEW r \in FamilyReports, q.records = Append(h.records, r), r.channel = channel,
         NEW since \in Int, NEW owed,
         ReportedSound(h.records, since, owed), r.first >= since,
         channel \in owed \ Announced(h.records) => r.marked
  PROVE  /\ ReportedSound(q.records, since, owed)
         /\ Announced(q.records) = Announced(h.records) \cup {channel}
<1>1. h.records \in Seq(FamilyReports)
  BY DEF HarmonicStates
<1>2. /\ ReportedSound(Append(h.records, r), since, owed)
      /\ Announced(Append(h.records, r)) = Announced(h.records) \cup {r.channel}
  BY <1>1, Reporting
<1> QED
  BY <1>2

LEMMA AggregatedFamily ==
  ASSUME NEW h \in HarmonicStates, NEW frame \in Frames, NEW since \in Int, NEW owed,
         since <= frame.sample, HarmonicCarries(h, since, owed), HarmonicBounds(h)
  PROVE  LET q == AggregateFamily(h, frame)
         IN /\ q \in HarmonicStates /\ HarmonicCarries(q, since, owed) /\ HarmonicBounds(q)
            /\ q.sequence = h.sequence /\ q.expected = h.expected
<1>1. PICK generation \in Int, sample \in Int :
        generation = frame.generation /\ sample = frame.sample
  BY DEF Frames
<1>2. PICK three : three = Accumulated(h.three, generation, sample)
  OBVIOUS
<1>3. h.three \in Spectra /\ (h.three.contributors # 0 => h.three.first >= since)
  BY DEF HarmonicStates, HarmonicCarries, TierCarries
<1>4. /\ three \in Spectra /\ three.contributors = h.three.contributors + 1
      /\ three.first >= since /\ three.firstAfter = h.three.firstAfter
  BY <1>1, <1>2, <1>3, AccumulatedFields
<1>5. h.three.contributors \in Nat /\ FamiliesPerAggregate \in Nat
  BY <1>3, HarmonicAssumption DEF Spectra
<1>6. CASE three.contributors # FamiliesPerAggregate
  <2>1. PICK q : q = [h EXCEPT !.three = three]
    OBVIOUS
  <2>2. q = AggregateFamily(h, frame)
    BY <1>1, <1>2, <1>6, <2>1 DEF AggregateFamily
  <2>3. /\ q \in HarmonicStates /\ q.sequence = h.sequence /\ q.expected = h.expected
        /\ q.three = three /\ q.ten = h.ten /\ q.two = h.two /\ q.records = h.records
    BY <1>4, <2>1, PlacedThree
  <2>4. HarmonicCarries(q, since, owed)
    BY <1>4, <2>3 DEF HarmonicCarries, TierCarries
  <2>5. HarmonicBounds(q)
    BY <1>4, <1>5, <1>6, <2>3 DEF HarmonicBounds
  <2> QED
    BY <2>2, <2>3, <2>4, <2>5
<1>7. CASE three.contributors = FamiliesPerAggregate
  <2>1. PICK valid \in BOOLEAN : valid = TRUE
    OBVIOUS
  <2>2. PICK channel \in {"three", "ten", "two"} : channel = "three"
    OBVIOUS
  <2>3. PICK e : e = EmitFamily(h, three, channel, valid, sample)
    OBVIOUS
  <2>4. /\ ReportedSound(h.records, since, owed)
        /\ channel \in owed \ Announced(h.records) => three.firstAfter
    BY <1>4, <2>2 DEF HarmonicCarries, TierCarries
  <2>5. /\ e \in HarmonicStates /\ e.three = h.three /\ e.ten = h.ten /\ e.two = h.two
        /\ e.sequence = h.sequence /\ e.expected = h.expected
        /\ ReportedSound(e.records, since, owed)
        /\ Announced(e.records) = Announced(h.records) \cup {channel}
    <3> DEFINE r == FamilyReport(three, channel, valid, sample)
    <3>1. /\ r \in FamilyReports /\ r.channel = channel /\ r.first = three.first
          /\ r.marked = three.firstAfter
      BY <1>4, FamilyReportFields
    <3>2. /\ e \in HarmonicStates /\ e.records = Append(h.records, r)
          /\ e.three = h.three /\ e.ten = h.ten /\ e.two = h.two
          /\ e.sequence = h.sequence /\ e.expected = h.expected
      BY <2>3, <3>1, FamilyEmitFields
    <3> HIDE DEF r
    <3>3. r.first >= since /\ (channel \in owed \ Announced(h.records) => r.marked)
      BY <1>4, <2>4, <3>1
    <3>4. /\ ReportedSound(e.records, since, owed)
          /\ Announced(e.records) = Announced(h.records) \cup {channel}
      BY <2>4, <3>1, <3>2, <3>3, FamilyEmitSound
    <3> QED
      BY <3>2, <3>4
  <2>6. PICK tier \in Spectra : tier = Renewed
    BY EmptySpectra
  <2>7. PICK q : q = [e EXCEPT !.three = tier]
    OBVIOUS
  <2>8. q = AggregateFamily(h, frame)
    BY <1>1, <1>2, <1>7, <2>1, <2>2, <2>3, <2>6, <2>7 DEF AggregateFamily
  <2>9. /\ q \in HarmonicStates /\ q.sequence = e.sequence /\ q.expected = e.expected
        /\ q.three = tier /\ q.ten = e.ten /\ q.two = e.two /\ q.records = e.records
    BY <2>5, <2>7, PlacedThree
  <2>10. HarmonicCarries(q, since, owed)
    BY <2>2, <2>5, <2>6, <2>9, EmptySpectra DEF HarmonicCarries, TierCarries
  <2>11. HarmonicBounds(q)
    BY <2>5, <2>6, <2>9, EmptySpectra, HarmonicAssumption DEF HarmonicBounds
  <2> QED
    BY <2>5, <2>8, <2>9, <2>10, <2>11
<1> QED
  BY <1>6, <1>7

(* A ten-minute spectrum goes into the two-hour one.                        *)
LEMMA CascadedFamily ==
  ASSUME NEW h \in HarmonicStates, NEW ten \in Spectra, NEW last \in Int, NEW since \in Int,
         NEW owed, ten.first >= since, HarmonicCarries(h, since, owed), HarmonicBounds(h)
  PROVE  LET q == Cascaded(h, ten, last)
         IN /\ q \in HarmonicStates /\ HarmonicCarries(q, since, owed) /\ HarmonicBounds(q)
            /\ Announced(h.records) \subseteq Announced(q.records)
            /\ q.sequence = h.sequence /\ q.expected = h.expected
<1>1. PICK generation \in Int, first \in Int : generation = ten.generation /\ first = ten.first
  BY DEF Spectra
<1>2. PICK two : two = Accumulated(h.two, generation, first)
  OBVIOUS
<1>3. h.two \in Spectra /\ (h.two.contributors # 0 => h.two.first >= since)
  BY DEF HarmonicStates, HarmonicCarries, TierCarries
<1>4. /\ two \in Spectra /\ two.contributors = h.two.contributors + 1
      /\ two.first >= since /\ two.firstAfter = h.two.firstAfter
  BY <1>1, <1>2, <1>3, AccumulatedFields
<1>5. h.two.contributors \in Nat /\ IntervalsPerTwoHours \in Nat
  BY <1>3, HarmonicAssumption DEF Spectra
<1>6. CASE h.contaminated
  <2>1. Cascaded(h, ten, last) = h
    BY <1>6 DEF Cascaded
  <2> QED
    BY <2>1
<1>7. CASE ~h.contaminated /\ two.contributors # IntervalsPerTwoHours
  <2>1. PICK q : q = [h EXCEPT !.two = two]
    OBVIOUS
  <2>2. q = Cascaded(h, ten, last)
    BY <1>1, <1>2, <1>7, <2>1 DEF Cascaded
  <2>3. /\ q \in HarmonicStates /\ q.sequence = h.sequence /\ q.expected = h.expected
        /\ q.three = h.three /\ q.ten = h.ten /\ q.two = two /\ q.records = h.records
    BY <1>4, <2>1, PlacedTwo
  <2>4. HarmonicCarries(q, since, owed)
    BY <1>4, <2>3 DEF HarmonicCarries, TierCarries
  <2>5. HarmonicBounds(q)
    BY <1>4, <1>5, <1>7, <2>3 DEF HarmonicBounds
  <2> QED
    BY <2>2, <2>3, <2>4, <2>5
<1>8. CASE ~h.contaminated /\ two.contributors = IntervalsPerTwoHours
  <2>1. PICK valid \in BOOLEAN : valid = TRUE
    OBVIOUS
  <2>2. PICK channel \in {"three", "ten", "two"} : channel = "two"
    OBVIOUS
  <2>3. PICK e : e = EmitFamily(h, two, channel, valid, last)
    OBVIOUS
  <2>4. /\ ReportedSound(h.records, since, owed)
        /\ channel \in owed \ Announced(h.records) => two.firstAfter
    BY <1>4, <2>2 DEF HarmonicCarries, TierCarries
  <2>5. /\ e \in HarmonicStates /\ e.three = h.three /\ e.ten = h.ten /\ e.two = h.two
        /\ e.sequence = h.sequence /\ e.expected = h.expected
        /\ ReportedSound(e.records, since, owed)
        /\ Announced(e.records) = Announced(h.records) \cup {channel}
    <3> DEFINE r == FamilyReport(two, channel, valid, last)
    <3>1. /\ r \in FamilyReports /\ r.channel = channel /\ r.first = two.first
          /\ r.marked = two.firstAfter
      BY <1>4, FamilyReportFields
    <3>2. /\ e \in HarmonicStates /\ e.records = Append(h.records, r)
          /\ e.three = h.three /\ e.ten = h.ten /\ e.two = h.two
          /\ e.sequence = h.sequence /\ e.expected = h.expected
      BY <2>3, <3>1, FamilyEmitFields
    <3> HIDE DEF r
    <3>3. r.first >= since /\ (channel \in owed \ Announced(h.records) => r.marked)
      BY <1>4, <2>4, <3>1
    <3>4. /\ ReportedSound(e.records, since, owed)
          /\ Announced(e.records) = Announced(h.records) \cup {channel}
      BY <2>4, <3>1, <3>2, <3>3, FamilyEmitSound
    <3> QED
      BY <3>2, <3>4
  <2>6. PICK tier \in Spectra : tier = Renewed
    BY EmptySpectra
  <2>7. PICK q : q = [e EXCEPT !.two = tier]
    OBVIOUS
  <2>8. q = Cascaded(h, ten, last)
    BY <1>1, <1>2, <1>8, <2>1, <2>2, <2>3, <2>6, <2>7 DEF Cascaded
  <2>9. /\ q \in HarmonicStates /\ q.sequence = e.sequence /\ q.expected = e.expected
        /\ q.three = e.three /\ q.ten = e.ten /\ q.two = tier /\ q.records = e.records
    BY <2>5, <2>7, PlacedTwo
  <2>10. HarmonicCarries(q, since, owed)
    BY <2>2, <2>5, <2>6, <2>9, EmptySpectra DEF HarmonicCarries, TierCarries
  <2>11. HarmonicBounds(q)
    BY <2>5, <2>6, <2>9, EmptySpectra, HarmonicAssumption DEF HarmonicBounds
  <2> QED
    BY <2>5, <2>8, <2>9, <2>10, <2>11
<1> QED
  BY <1>6, <1>7, <1>8

LEMMA AlignedCarries ==
  ASSUME NEW h \in HarmonicStates, NEW frame \in Frames, NEW since \in Int, NEW owed,
         since <= frame.sample, HarmonicCarries(h, since, owed), HarmonicBounds(h)
  PROVE  LET q == AlignedFamily(h, frame)
         IN /\ q \in HarmonicStates /\ HarmonicCarries(q, since, owed) /\ HarmonicBounds(q)
            /\ q.sequence = h.sequence /\ q.expected = h.expected
<1>1. PICK generation \in Int, sample \in Int :
        generation = frame.generation /\ sample = frame.sample
  BY DEF Frames
<1>2. PICK ten : ten = Accumulated(h.ten, generation, sample)
  OBVIOUS
<1>3. h.ten \in Spectra /\ (h.ten.contributors # 0 => h.ten.first >= since)
  BY DEF HarmonicStates, HarmonicCarries, TierCarries
<1>4. /\ ten \in Spectra /\ ten.first >= since /\ ten.firstAfter = h.ten.firstAfter
  BY <1>1, <1>2, <1>3, AccumulatedFields
<1>5. CASE h.target = NoFrame
  <2>1. AlignedFamily(h, frame) = h
    BY <1>5 DEF AlignedFamily
  <2> QED
    BY <2>1
<1>6. CASE h.target # NoFrame /\ frame.sample + 1 < h.target
  <2>1. PICK q : q = [h EXCEPT !.ten = ten]
    OBVIOUS
  <2>2. q = AlignedFamily(h, frame)
    BY <1>1, <1>2, <1>6, <2>1 DEF AlignedFamily
  <2>3. /\ q \in HarmonicStates /\ q.sequence = h.sequence /\ q.expected = h.expected
        /\ q.three = h.three /\ q.ten = ten /\ q.two = h.two /\ q.records = h.records
    BY <1>4, <2>1, PlacedTen
  <2>4. HarmonicCarries(q, since, owed) /\ HarmonicBounds(q)
    BY <1>4, <2>3 DEF HarmonicCarries, HarmonicBounds, TierCarries
  <2> QED
    BY <2>2, <2>3, <2>4
<1>7. CASE h.target # NoFrame /\ ~(frame.sample + 1 < h.target)
  <2>1. PICK valid \in BOOLEAN : valid = ~h.contaminated
    <3>1. (~h.contaminated) \in BOOLEAN
      OBVIOUS
    <3> QED
      BY <3>1, Zenon
  <2>2. PICK channel \in {"three", "ten", "two"} : channel = "ten"
    OBVIOUS
  <2>3. PICK e : e = EmitFamily(h, ten, channel, valid, sample)
    OBVIOUS
  <2>4. /\ ReportedSound(h.records, since, owed)
        /\ channel \in owed \ Announced(h.records) => ten.firstAfter
    BY <1>4, <2>2 DEF HarmonicCarries, TierCarries
  <2>5. /\ e \in HarmonicStates /\ e.three = h.three /\ e.ten = h.ten /\ e.two = h.two
        /\ e.sequence = h.sequence /\ e.expected = h.expected
        /\ ReportedSound(e.records, since, owed)
        /\ Announced(e.records) = Announced(h.records) \cup {channel}
    <3> DEFINE r == FamilyReport(ten, channel, valid, sample)
    <3>1. /\ r \in FamilyReports /\ r.channel = channel /\ r.first = ten.first
          /\ r.marked = ten.firstAfter
      BY <1>4, FamilyReportFields
    <3>2. /\ e \in HarmonicStates /\ e.records = Append(h.records, r)
          /\ e.three = h.three /\ e.ten = h.ten /\ e.two = h.two
          /\ e.sequence = h.sequence /\ e.expected = h.expected
      BY <2>3, <3>1, FamilyEmitFields
    <3> HIDE DEF r
    <3>3. r.first >= since /\ (channel \in owed \ Announced(h.records) => r.marked)
      BY <1>4, <2>4, <3>1
    <3>4. /\ ReportedSound(e.records, since, owed)
          /\ Announced(e.records) = Announced(h.records) \cup {channel}
      BY <2>4, <3>1, <3>2, <3>3, FamilyEmitSound
    <3> QED
      BY <3>2, <3>4
  <2>6. HarmonicCarries(e, since, owed) /\ HarmonicBounds(e)
    BY <2>5 DEF HarmonicCarries, HarmonicBounds, TierCarries
  <2>7. PICK g : g = Cascaded(e, ten, sample)
    OBVIOUS
  <2>8. /\ g \in HarmonicStates /\ HarmonicCarries(g, since, owed) /\ HarmonicBounds(g)
        /\ Announced(e.records) \subseteq Announced(g.records)
        /\ g.sequence = e.sequence /\ g.expected = e.expected
    BY <1>4, <2>5, <2>6, <2>7, CascadedFamily
  <2>9. PICK tier \in Spectra : tier = Renewed
    BY EmptySpectra
  <2> DEFINE target == g.target + FamilyInterval
             q == [g EXCEPT !.ten = tier, !.target = target, !.contaminated = FALSE]
  <2>10. q = AlignedFamily(h, frame)
    BY <1>1, <1>2, <1>7, <2>1, <2>2, <2>3, <2>7, <2>9 DEF AlignedFamily
  <2>11. target \in Int
    BY <2>8, HarmonicAssumption DEF HarmonicStates
  <2> HIDE DEF target
  <2>12. /\ q \in HarmonicStates /\ q.sequence = g.sequence /\ q.expected = g.expected
         /\ q.three = g.three /\ q.ten = tier /\ q.two = g.two /\ q.records = g.records
    BY <2>8, <2>11 DEF HarmonicStates
  <2> HIDE DEF q
  <2>13. "ten" \in Announced(q.records)
    BY <2>2, <2>5, <2>8, <2>12
  <2>14. HarmonicCarries(q, since, owed)
    BY <2>8, <2>9, <2>12, <2>13, EmptySpectra DEF HarmonicCarries, TierCarries
  <2>15. HarmonicBounds(q)
    BY <2>8, <2>12 DEF HarmonicBounds
  <2> QED
    BY <2>5, <2>8, <2>10, <2>12, <2>14, <2>15
<1> QED
  BY <1>5, <1>6, <1>7

(* A family: whatever breaks the stream begins every tier anew.             *)
LEMMA MeasuredFamily ==
  ASSUME NEW h \in HarmonicStates, h.records = <<>>, HarmonicBounds(h),
         NEW frame \in Frames, NEW since \in Int, NEW owed, since <= frame.sample,
         \/ HarmonicFresh(h)
         \/ external \/ "disc" \in frame.flags \/ HarmonicGap(h, frame)
         \/ HarmonicCarries(h, since, owed)
  PROVE  LET q == HarmonicMeasured(h, frame)
         IN /\ q \in HarmonicStates /\ HarmonicCarries(q, since, owed) /\ HarmonicBounds(q)
            /\ q.sequence = frame.sequence /\ q.expected = frame.sample + 1
            /\ "invalid" \in frame.flags => HarmonicFresh(q) /\ q.records = <<>>
<1> DEFINE broken == external \/ "disc" \in frame.flags \/ HarmonicGap(h, frame)
<1>1. PICK sequence \in Int, expected \in Int :
        sequence = frame.sequence /\ expected = frame.sample + 1
  BY DEF Frames
<1>2. PICK reset \in HarmonicStates : reset = ResetAll(h)
  BY ResetFields
<1>3. HarmonicFresh(reset) /\ reset.records = <<>>
  BY <1>2, ResetFields
<1>4. PICK start \in HarmonicStates : start = IF broken THEN reset ELSE h
  OBVIOUS
<1>5. start.records = <<>> /\ HarmonicCarries(start, since, owed) /\ HarmonicBounds(start)
  <2>1. ReportedSound(<<>>, since, owed)
    BY NothingReported
  <2>2. CASE broken
    BY <1>3, <1>4, <2>1, <2>2, FreshHarmonicCarries
  <2>3. CASE ~broken
    BY <1>4, <2>1, <2>3, FreshHarmonicCarries
  <2> QED
    BY <2>2, <2>3
<1>6. PICK placed : placed = PlacedAt(start, sequence, expected)
  OBVIOUS
<1>7. /\ placed \in HarmonicStates /\ placed.sequence = sequence /\ placed.expected = expected
      /\ placed.three = start.three /\ placed.ten = start.ten /\ placed.two = start.two
      /\ placed.records = start.records
  BY <1>6, PlacedFamily
<1>8. HarmonicCarries(placed, since, owed) /\ HarmonicBounds(placed)
  BY <1>5, <1>7 DEF HarmonicCarries, HarmonicBounds
<1>9. PICK again : again = ResetAll(placed)
  OBVIOUS
<1>10. /\ again \in HarmonicStates /\ HarmonicFresh(again) /\ again.records = <<>>
       /\ again.sequence = sequence /\ again.expected = expected
  BY <1>5, <1>7, <1>9, ResetFields
<1>11. HarmonicCarries(again, since, owed) /\ HarmonicBounds(again)
  BY <1>10, NothingReported, FreshHarmonicCarries
<1>12. CASE "invalid" \in frame.flags
  <2>1. again = HarmonicMeasured(h, frame)
    BY <1>1, <1>2, <1>4, <1>6, <1>9, <1>12 DEF HarmonicMeasured, PlacedAt
  <2> QED
    BY <1>1, <1>10, <1>11, <2>1
<1>13. CASE "invalid" \notin frame.flags
  <2>1. PICK ready \in HarmonicStates :
          ready = IF Incompatible(placed.three, frame) \/ Incompatible(placed.ten, frame)
                  THEN again ELSE placed
    BY <1>7, <1>10
  <2>2. /\ HarmonicCarries(ready, since, owed) /\ HarmonicBounds(ready)
        /\ ready.sequence = sequence /\ ready.expected = expected
    BY <1>7, <1>8, <1>10, <1>11, <2>1
  <2>3. PICK a : a = AggregateFamily(ready, frame)
    OBVIOUS
  <2>4. /\ a \in HarmonicStates /\ HarmonicCarries(a, since, owed) /\ HarmonicBounds(a)
        /\ a.sequence = ready.sequence /\ a.expected = ready.expected
    BY <2>2, <2>3, AggregatedFamily
  <2>5. PICK q : q = AlignedFamily(a, frame)
    OBVIOUS
  <2>6. /\ q \in HarmonicStates /\ HarmonicCarries(q, since, owed) /\ HarmonicBounds(q)
        /\ q.sequence = a.sequence /\ q.expected = a.expected
    BY <2>4, <2>5, AlignedCarries
  <2>7. q = HarmonicMeasured(h, frame)
    BY <1>1, <1>2, <1>4, <1>6, <1>9, <1>13, <2>1, <2>3, <2>5 DEF HarmonicMeasured, PlacedAt
  <2> QED
    BY <1>1, <1>13, <2>2, <2>4, <2>6, <2>7
<1> QED
  BY <1>12, <1>13

LEMMA PublishedFamily ==
  ASSUME NEW h \in HarmonicStates, harmonic' = [h EXCEPT !.records = <<>>],
         records' = h.records,
         NEW since \in Int, NEW owed, since = track'.since, owed = track'.owed,
         HarmonicCarries(h, since, owed), HarmonicBounds(h)
  PROVE  /\ harmonic' \in HarmonicStates /\ harmonic'.records = <<>>
         /\ HarmonicBounds(harmonic')
         /\ TierCarries(harmonic'.three, track'.since, "three" \in Owing')
         /\ TierCarries(harmonic'.ten, track'.since, "ten" \in Owing')
         /\ TierCarries(harmonic'.two, track'.since, "two" \in Owing')
         /\ HarmonicFresh(h) => HarmonicFresh(harmonic')
         /\ harmonic'.sequence = h.sequence /\ harmonic'.expected = h.expected
         /\ ReportedSound(records, track.since, track.owed)'
<1>1. <<>> \in Seq(FamilyReports)
  OBVIOUS
<1>2. /\ harmonic' \in HarmonicStates /\ harmonic'.records = <<>>
      /\ harmonic'.three = h.three /\ harmonic'.ten = h.ten /\ harmonic'.two = h.two
      /\ harmonic'.sequence = h.sequence /\ harmonic'.expected = h.expected
  BY <1>1 DEF HarmonicStates
<1>3. Owing' = owed \ Announced(h.records)
  BY DEF Owing, Announced
<1> QED
  BY <1>2, <1>3 DEF HarmonicCarries, HarmonicFresh, HarmonicBounds

LEMMA HarmonicFrame ==
  ASSUME StreamTypes, StreamOrder, HarmonicInvariant,
         NEW frame \in Arriving(MaxFamilies, HarmonicFlaws), HarmonicProcess(frame), Sent(frame)
  PROVE  /\ StreamTypes' /\ StreamOrder' /\ HarmonicInvariant'
         /\ ReportedSound(records, track.since, track.owed)'
<1>1. HarmonicFlaws \in SUBSET SUBSET Flags
  BY DEF HarmonicFlaws, Flags
<1>2. /\ frame \in Frames
      /\ \/ frame = stream.newest /\ stream.newest # NoNewest
         \/ /\ frame # stream.newest /\ frame.sequence = stream.next
            /\ frame.sample \in {stream.sample, stream.sample + 1}
  BY <1>1, ArrivingFrames
<1>3. /\ frame.sample \in Nat /\ frame.sequence \in Nat /\ track \in Tracks
  BY <1>2 DEF Frames, StreamTypes
<1>4. track' = Heard(frame) \/ track' = Unheard \/ track' = [track EXCEPT !.owed = Owing]
  BY DEF HarmonicProcess
<1>5. external' \in BOOLEAN
  BY DEF HarmonicProcess, StreamTypes
<1>6. StreamTypes' /\ StreamOrder'
  BY <1>2, <1>4, <1>5, StreamAfterFrame
<1>7. PICK v \in HarmonicStates : v = harmonic
  BY DEF HarmonicInvariant
<1>8. v.records = <<>> /\ HarmonicBounds(v)
  BY <1>7 DEF HarmonicInvariant
<1>9. HarmonicCarries(v, track.since, Owing)
  BY <1>7, <1>8, NothingReported DEF HarmonicInvariant, HarmonicCarries
<1>10. CASE OldFamily(v, frame)
  <2>1. /\ external' = external /\ records' = <<>> /\ harmonic' = harmonic
        /\ track' = [track EXCEPT !.owed = Owing]
    BY <1>7, <1>10 DEF HarmonicProcess
  <2>2. track'.since = track.since /\ track'.owed = Owing /\ track'.next = track.next
    BY <2>1, UnheardFields
  <2>3. Owing' = Owing
    BY <2>1, <2>2 DEF Owing
  <2>4. HarmonicInvariant'
    BY <2>1, <2>2, <2>3 DEF HarmonicInvariant
  <2> QED
    BY <1>6, <2>1, <2>4, NothingReported
<1>11. CASE ~OldFamily(v, frame)
  <2>1. PICK q : q = HarmonicMeasured(v, frame)
    OBVIOUS
  <2>2. /\ ~external' /\ harmonic' = [q EXCEPT !.records = <<>>] /\ records' = q.records
        /\ track' = IF "invalid" \in frame.flags THEN Unheard ELSE Heard(frame)
    BY <1>7, <1>11, <2>1 DEF HarmonicProcess
  <2>3. PICK since, owed : since = track'.since /\ owed = track'.owed
    OBVIOUS
  <2>4. since \in Int /\ owed \in SUBSET Channels
    BY <1>6, <2>3 DEF StreamTypes, Tracks
  (* A family that is expected continues what was heard.                    *)
  <2>5. \/ HarmonicFresh(v)
        \/ external \/ "disc" \in frame.flags \/ HarmonicGap(v, frame)
        \/ frame.sample = track.next
    BY <1>7 DEF HarmonicInvariant, HarmonicGap
  <2>6. /\ q \in HarmonicStates /\ HarmonicCarries(q, since, owed) /\ HarmonicBounds(q)
        /\ q.sequence = frame.sequence /\ q.expected = frame.sample + 1
        /\ "invalid" \in frame.flags => HarmonicFresh(q)
    <3>1. CASE "invalid" \in frame.flags
      <4>1. PICK low \in Int : low = IF track.since <= frame.sample THEN track.since ELSE 0
        BY <1>3 DEF Tracks
      <4>2. \/ HarmonicFresh(v)
            \/ external \/ "disc" \in frame.flags \/ HarmonicGap(v, frame)
            \/ HarmonicCarries(v, low, {})
        <5>1. ASSUME frame.sample = track.next
              PROVE  HarmonicCarries(v, low, {})
          <6>1. low = track.since
            BY <1>3, <4>1, <5>1 DEF StreamOrder, Tracks, NoFrame
          <6> QED
            BY <1>8, <1>9, <6>1, NothingReported DEF HarmonicCarries, TierCarries
        <5> QED
          BY <2>5, <5>1
      <4>3. low <= frame.sample
        BY <1>3, <4>1
      <4>4. /\ q \in HarmonicStates /\ HarmonicFresh(q) /\ q.records = <<>>
            /\ q.sequence = frame.sequence /\ q.expected = frame.sample + 1
        BY <1>2, <1>8, <2>1, <3>1, <4>2, <4>3, MeasuredFamily
      <4> QED
        BY <4>4, NothingReported, FreshHarmonicCarries
    <3>2. CASE "invalid" \notin frame.flags
      <4>1. /\ since <= frame.sample
            /\ frame.sample = track.next => since = track.since /\ owed = Owing
        BY <1>2, <2>2, <2>3, <3>2, HeardFields
      <4>2. \/ HarmonicFresh(v)
            \/ external \/ "disc" \in frame.flags \/ HarmonicGap(v, frame)
            \/ HarmonicCarries(v, since, owed)
        BY <1>9, <2>5, <4>1
      <4> QED
        BY <1>2, <1>8, <2>1, <2>4, <3>2, <4>1, <4>2, MeasuredFamily
    <3> QED
      BY <3>1, <3>2
  <2>7. /\ harmonic' \in HarmonicStates /\ harmonic'.records = <<>>
        /\ HarmonicBounds(harmonic')
        /\ TierCarries(harmonic'.three, track'.since, "three" \in Owing')
        /\ TierCarries(harmonic'.ten, track'.since, "ten" \in Owing')
        /\ TierCarries(harmonic'.two, track'.since, "two" \in Owing')
        /\ HarmonicFresh(q) => HarmonicFresh(harmonic')
        /\ harmonic'.sequence = q.sequence /\ harmonic'.expected = q.expected
        /\ ReportedSound(records, track.since, track.owed)'
    BY <2>2, <2>3, <2>4, <2>6, PublishedFamily
  <2>8. "invalid" \notin frame.flags => track'.next = frame.sample + 1
    BY <1>2, <2>2, HeardFields
  <2>9. frame.sequence # NoFrame
    BY <1>3 DEF NoFrame
  <2>10. HarmonicInvariant'
    BY <2>6, <2>7, <2>8, <2>9 DEF HarmonicInvariant
  <2> QED
    BY <1>6, <2>7, <2>10
<1> QED
  BY <1>10, <1>11

(* A new UTC mark ends the two tiers that follow the clock.                 *)
LEMMA TargetObserved ==
  ASSUME StreamTypes, StreamOrder, HarmonicInvariant, ObserveTarget
  PROVE  /\ StreamTypes' /\ StreamOrder' /\ HarmonicInvariant' /\ UNCHANGED <<records, track>>
<1>1. /\ UNCHANGED <<external, records, track>> /\ stream \in Streams
      /\ stream' = IF harmonic.target = NoFrame THEN stream ELSE Fault(stream)
  BY DEF ObserveTarget, StreamTypes
<1>2. /\ stream' \in Streams /\ stream'.newest = stream.newest
      /\ stream'.sample = stream.sample /\ stream'.next = stream.next
  <2>1. CASE stream' = stream
    BY <1>1, <2>1
  <2>2. CASE stream' = Fault(stream)
    <3>1. stream.faults \in Int
      BY <1>1 DEF Streams
    <3> DEFINE faults == stream.faults - 1
    <3>2. stream' = [stream EXCEPT !.faults = faults] /\ faults \in Int
      BY <2>2, <3>1 DEF Fault
    <3> HIDE DEF faults
    <3> QED
      BY <1>1, <3>2 DEF Streams
  <2> QED
    BY <1>1, <2>1, <2>2
<1>3. StreamTypes' /\ StreamOrder'
  BY <1>1, <1>2 DEF StreamTypes, StreamOrder
<1>4. PICK target \in stream.sample + 1 .. stream.sample + FamilyInterval :
        harmonic' = [ResetLong(harmonic) EXCEPT !.target = target]
  BY DEF ObserveTarget
<1>5. PICK v \in HarmonicStates : v = harmonic
  BY DEF HarmonicInvariant
<1>6. PICK h \in HarmonicStates : h = ResetLong(v)
  BY ResetFields
<1>7. /\ h.three = v.three /\ h.ten = EmptyTier /\ h.two = EmptyTier
      /\ h.records = v.records /\ h.sequence = v.sequence /\ h.expected = v.expected
  BY <1>6, ResetFields
<1>8. target \in Int
  BY <1>1, HarmonicAssumption DEF Streams
<1>9. /\ harmonic' \in HarmonicStates /\ harmonic'.three = v.three
      /\ harmonic'.ten = EmptyTier /\ harmonic'.two = EmptyTier
      /\ harmonic'.records = v.records /\ harmonic'.sequence = v.sequence
      /\ harmonic'.expected = v.expected
  <2>1. harmonic' = [h EXCEPT !.target = target]
    BY <1>4, <1>5, <1>6
  <2>2. /\ harmonic' \in HarmonicStates /\ harmonic'.three = h.three
        /\ harmonic'.ten = h.ten /\ harmonic'.two = h.two
        /\ harmonic'.records = h.records /\ harmonic'.sequence = h.sequence
        /\ harmonic'.expected = h.expected
    BY <1>8, <2>1 DEF HarmonicStates
  <2> QED
    BY <1>7, <2>2
<1>10. Owing' = Owing /\ track' = track
  BY <1>1 DEF Owing
<1>11. HarmonicBounds(harmonic')
  BY <1>5, <1>9, EmptySpectra, HarmonicAssumption DEF HarmonicInvariant, HarmonicBounds
<1>12. /\ TierCarries(harmonic'.three, track'.since, "three" \in Owing')
       /\ TierCarries(harmonic'.ten, track'.since, "ten" \in Owing')
       /\ TierCarries(harmonic'.two, track'.since, "two" \in Owing')
  BY <1>5, <1>9, <1>10, EmptySpectra DEF HarmonicInvariant, TierCarries
<1>13. HarmonicFresh(v) => HarmonicFresh(harmonic')
  BY <1>9, EmptySpectra DEF HarmonicFresh
<1>14. HarmonicInvariant'
  BY <1>5, <1>9, <1>10, <1>11, <1>12, <1>13 DEF HarmonicInvariant
<1> QED
  BY <1>1, <1>3, <1>14

LEMMA HarmonicStep ==
  ASSUME StreamTypes, StreamOrder, HarmonicInvariant,
         ReportedSound(records, track.since, track.owed), HarmonicNext
  PROVE  /\ StreamTypes' /\ StreamOrder' /\ HarmonicInvariant'
         /\ ReportedSound(records, track.since, track.owed)'
<1>1. ASSUME NEW frame \in Arriving(MaxFamilies, HarmonicFlaws),
             HarmonicProcess(frame), Sent(frame)
      PROVE  /\ StreamTypes' /\ StreamOrder' /\ HarmonicInvariant'
             /\ ReportedSound(records, track.since, track.owed)'
  BY <1>1, HarmonicFrame
<1>2. CASE LoseStreamFrames(MaxFamilies, {1, FamilyInterval + 1}) /\ UNCHANGED harmonic
  <2>1. {1, FamilyInterval + 1} \in SUBSET Nat
    BY HarmonicAssumption
  <2>2. /\ StreamTypes' /\ StreamOrder' /\ records' = <<>> /\ external' = external
        /\ track' = [track EXCEPT !.owed = Owing] /\ Owing' = Owing
    BY <1>2, <2>1, LostFrames
  <2>3. track'.since = track.since /\ track'.next = track.next
    BY <2>2, UnheardFields
  <2>4. HarmonicInvariant'
    BY <1>2, <2>2, <2>3 DEF HarmonicInvariant
  <2> QED
    BY <2>2, <2>4, NothingReported
<1>3. CASE StreamInterference /\ UNCHANGED harmonic
  <2>1. /\ StreamTypes' /\ StreamOrder' /\ records' = records /\ track' = track
        /\ Owing' = Owing /\ (external => external')
    BY <1>3, Interferes
  <2>2. HarmonicInvariant'
    BY <1>3, <2>1 DEF HarmonicInvariant
  <2> QED
    BY <2>1, <2>2
<1>4. CASE ObserveTarget
  BY <1>4, TargetObserved
<1> QED
  BY <1>1, <1>2, <1>3, <1>4 DEF HarmonicNext, HarmonicFlaws

--------------------------------------------------------------------------------
(* The engines together.                                                    *)

LEMMA StreamBegins ==
  ASSUME InitStream
  PROVE  /\ StreamTypes /\ StreamOrder /\ records = <<>> /\ track.owed = {}
         /\ track.since = NoFrame /\ Owing = {} /\ stream.next = 0 /\ stream.sample = 0
         /\ stream.newest = NoNewest
<1>1. stream = [next |-> 0, sample |-> 0, generation |-> 1, staged |-> 0,
                newest |-> NoNewest, faults |-> MaxFaults]
  BY DEF InitStream, NoNewest
<1>2. NoNewest \in Frames \cup {NoNewest}
  OBVIOUS
<1>3. stream \in Streams /\ stream.newest = NoNewest /\ stream.next = 0 /\ stream.sample = 0
  <2> HIDE DEF Frames, NoNewest
  <2> QED
    BY <1>1, <1>2, FaultAssumption DEF Streams
<1>4. /\ track = [since |-> NoFrame, next |-> NoFrame, owed |-> {}]
      /\ external = FALSE /\ records = <<>>
  BY DEF InitStream
<1>5. track \in Tracks
  BY <1>4 DEF Tracks, NoFrame
<1>6. Owing = {}
  BY <1>4 DEF Owing
<1>7. StreamTypes
  BY <1>3, <1>4, <1>5 DEF StreamTypes
<1>8. StreamOrder
  BY <1>3, <1>4 DEF StreamOrder
<1> QED
  BY <1>3, <1>4, <1>6, <1>7, <1>8

LEMMA FlickerBegins ==
  ASSUME InitStream, InitFlicker
  PROVE  FlickerInvariant
<1>1. flicker.records = <<>> /\ FlickerFresh(flicker)
  BY DEF InitFlicker, Batches, FlickerFresh
<1>2. flicker \in FlickerStates
  <2>1. Batches \in Parts
    BY DEF Batches, Parts
  <2>2. <<>> \in Seq(Int) /\ <<>> \in Seq(FlickerReports)
    OBVIOUS
  <2> HIDE DEF Batches, Parts
  <2> QED
    BY <2>1, <2>2, FlickerAssumption DEF InitFlicker, FlickerStates, NoFrame
<1>3. FlickerCarries(flicker, track.since, Owing) /\ FlickerBounds(flicker)
  BY <1>1, <1>2, NothingReported, FreshFlickerCarries
<1> QED
  BY <1>1, <1>2, <1>3, StreamBegins DEF FlickerInvariant, FlickerCarries

LEMMA MainsBegins ==
  ASSUME InitStream, InitMains
  PROVE  MainsInvariant
<1>1. mains.records = <<>> /\ MainsFresh(mains)
  BY DEF InitMains, EmptyWindow, MainsFresh
<1>2. mains \in MainsStates
  <2>1. EmptyWindow \in Windows
    BY DEF EmptyWindow, Windows
  <2>2. <<>> \in Seq(WindowReports)
    OBVIOUS
  <2> HIDE DEF EmptyWindow, Windows
  <2> QED
    BY <2>1, <2>2 DEF InitMains, MainsStates, NoFrame
<1> QED
  BY <1>1, <1>2, StreamBegins, WindowLengthAssumption DEF MainsInvariant, MainsFresh

LEMMA EventsBegin ==
  ASSUME InitStream, InitPq
  PROVE  PqInvariant
<1>1. /\ pq.records = <<>> /\ pq.firstAfter
      /\ \A slot \in Slots : pq.state[slot].id = NoEvent /\ pq.told[slot] = NoEvent
  BY DEF InitPq, Closed
<1>2. PqFresh(pq)
  BY <1>1 DEF PqFresh, Open
<1>3. pq \in PqStates
  <2>1. Closed \in PqEvents /\ NoEvent \in Int
    BY DEF Closed, PqEvents, NoEvent
  <2>2. /\ [slot \in Slots |-> Closed] \in [Slots -> PqEvents]
        /\ [slot \in Slots |-> NoEvent] \in [Slots -> Int]
    BY <2>1
  <2>3. <<>> \in Seq(PqReports) /\ <<FALSE, FALSE>> \in BOOLEAN \X BOOLEAN
    <3>1. \A c \in BOOLEAN : <<c, c>> \in BOOLEAN \X BOOLEAN
      OBVIOUS
    <3>2. FALSE \in BOOLEAN
      OBVIOUS
    <3>3. <<FALSE, FALSE>> \in BOOLEAN \X BOOLEAN
      BY <3>1, <3>2, Zenon
    <3>4. <<>> \in Seq(PqReports)
      OBVIOUS
    <3> QED
      BY <3>3, <3>4
  <2> DEFINE states == [slot \in Slots |-> Closed]
             told == [slot \in Slots |-> NoEvent]
             p == [active |-> NoFrame, sequence |-> NoFrame, counter |-> 0,
                   state |-> states, history |-> <<FALSE, FALSE>>,
                   armed |-> FALSE, firstAfter |-> TRUE, records |-> <<>>, told |-> told]
  <2>4. pq = p
    BY DEF InitPq
  <2> HIDE DEF states, told
  <2>5. states \in [Slots -> PqEvents] /\ told \in [Slots -> Int]
    BY <2>2 DEF states, told
  <2>6. p \in PqStates
    <3> HIDE DEF Slots, PqEvents, PqReports
    <3> QED
      BY <2>3, <2>5 DEF PqStates, NoFrame
  <2> QED
    BY <2>4, <2>6
<1>4. EventRecordsPair
  BY <1>1 DEF EventRecordsPair
<1>5. \A slot \in Slots : ~Open(pq, slot)
  BY <1>1 DEF Open
<1> QED
  BY <1>1, <1>2, <1>3, <1>4, <1>5, StreamBegins DEF PqInvariant

LEMMA FrequencyBegins ==
  ASSUME InitStream, InitFrequency
  PROVE  FrequencyInvariant
<1>1. <<>> \in Seq(FrequencyReports)
  OBVIOUS
<1>2. /\ frequency = [ready |-> TRUE, sequence |-> NoFrame, last |-> NoFrame]
      /\ published = NoFrame
  BY DEF InitFrequency
<1>3. FrequencyTypes
  BY <1>1, <1>2, StreamBegins DEF FrequencyTypes, NoFrame
<1>4. stream.newest.sequence = NoFrame
  BY StreamBegins DEF NoNewest
<1>5. FrequencySound
  BY <1>2, <1>4, StreamBegins DEF FrequencySound
<1> QED
  BY <1>3, <1>5, StreamBegins DEF FrequencyInvariant

LEMMA HarmonicBegins ==
  ASSUME InitStream, InitHarmonic
  PROVE  HarmonicInvariant
<1>1. PICK tier \in Spectra : tier = EmptyTier
  BY EmptySpectra
<1>2. harmonic = [sequence |-> NoFrame, expected |-> NoFrame, target |-> NoFrame,
                  three |-> tier, ten |-> tier, two |-> tier,
                  contaminated |-> TRUE, records |-> <<>>]
  BY <1>1 DEF InitHarmonic
<1>3. <<>> \in Seq(FamilyReports)
  OBVIOUS
<1>4. harmonic \in HarmonicStates
  BY <1>2, <1>3 DEF HarmonicStates, NoFrame
<1>5. /\ harmonic.records = <<>> /\ harmonic.three = EmptyTier
      /\ harmonic.ten = EmptyTier /\ harmonic.two = EmptyTier
  BY <1>1, <1>2
<1>6. HarmonicFresh(harmonic)
  BY <1>5, EmptySpectra DEF HarmonicFresh
<1>7. HarmonicCarries(harmonic, track.since, Owing) /\ HarmonicBounds(harmonic)
  BY <1>4, <1>5, <1>6, NothingReported, FreshHarmonicCarries
<1> QED
  BY <1>4, <1>5, <1>6, <1>7, StreamBegins DEF HarmonicInvariant, HarmonicCarries

LEMMA EngineBegins == EngineInit => EngineInvariant
<1> SUFFICES ASSUME EngineInit PROVE EngineInvariant
  OBVIOUS
<1>1. /\ engine \in StreamEngines /\ InitStream
      /\ StreamTypes /\ StreamOrder /\ records = <<>>
  BY StreamBegins DEF EngineInit
<1>2. FlickerInvariant /\ MainsInvariant /\ PqInvariant /\ FrequencyInvariant /\ HarmonicInvariant
  BY FlickerBegins, MainsBegins, EventsBegin, FrequencyBegins, HarmonicBegins DEF EngineInit
<1>3. EngineBounds
  BY <1>2 DEF EngineBounds, FlickerInvariant, MainsInvariant, PqInvariant, HarmonicInvariant
<1> QED
  BY <1>1, <1>2, <1>3, NothingReported DEF EngineInvariant

LEMMA EngineKeeps == EngineInvariant /\ [EngineNext]_engineStreamVars => EngineInvariant'
<1> SUFFICES ASSUME EngineInvariant, [EngineNext]_engineStreamVars
             PROVE  EngineInvariant'
  OBVIOUS
<1> USE DEF engineStreamVars, streamEngineVars, streamVars, frequencyVars
<1>1. /\ StreamTypes /\ StreamOrder /\ ReportedSound(records, track.since, track.owed)
      /\ engine \in StreamEngines /\ EngineBounds
  BY DEF EngineInvariant
<1>2. ASSUME UNCHANGED <<engine, streamEngineVars>>
      PROVE  EngineInvariant'
  <2>1. Owing' = Owing
    BY <1>2 DEF Owing
  <2>2. StreamTypes' /\ StreamOrder' /\ ReportedSound(records, track.since, track.owed)'
    BY <1>1, <1>2 DEF StreamTypes, StreamOrder
  <2>3. EngineBounds'
    BY <1>1, <1>2 DEF EngineBounds, EventRecordsPair
  <2>4. engine = "flicker" => FlickerInvariant'
    BY <1>2, <2>1 DEF EngineInvariant, FlickerInvariant
  <2>5. engine = "mains" => MainsInvariant'
    BY <1>2, <2>1 DEF EngineInvariant, MainsInvariant
  <2>6. engine = "pq" => PqInvariant'
    BY <1>2, <2>1, <2>3 DEF EngineInvariant, PqInvariant, EngineBounds
  <2>7. engine = "frequency" => FrequencyInvariant'
    BY <1>2, <2>1 DEF EngineInvariant, FrequencyInvariant, FrequencyTypes, FrequencySound
  <2>8. engine = "harmonic" => HarmonicInvariant'
    BY <1>2, <2>1 DEF EngineInvariant, HarmonicInvariant
  <2> QED
    BY <1>1, <1>2, <2>2, <2>3, <2>4, <2>5, <2>6, <2>7, <2>8 DEF EngineInvariant
<1>3. CASE UNCHANGED engineStreamVars
  BY <1>2, <1>3
<1>4. CASE TiersRun
  BY <1>2, <1>4 DEF TiersRun
<1>5. CASE FlickerRuns
  <2>1. /\ engine = "flicker" /\ FlickerNext
        /\ UNCHANGED <<engine, mains, pq, frequencyVars, harmonic>>
    BY <1>5 DEF FlickerRuns
  <2>2. /\ StreamTypes' /\ StreamOrder' /\ FlickerInvariant'
        /\ ReportedSound(records, track.since, track.owed)'
    BY <1>1, <2>1, FlickerStep DEF EngineInvariant
  <2>3. EngineBounds'
    BY <1>1, <2>1, <2>2 DEF EngineBounds, EventRecordsPair, FlickerInvariant
  <2> QED
    BY <1>1, <2>1, <2>2, <2>3 DEF EngineInvariant
<1>6. CASE MainsRuns
  <2>1. /\ engine = "mains" /\ MainsNext
        /\ UNCHANGED <<engine, flicker, pq, frequencyVars, harmonic>>
    BY <1>6 DEF MainsRuns
  <2>2. /\ StreamTypes' /\ StreamOrder' /\ MainsInvariant'
        /\ ReportedSound(records, track.since, track.owed)'
    BY <1>1, <2>1, MainsStep DEF EngineInvariant
  <2>3. EngineBounds'
    BY <1>1, <2>1, <2>2 DEF EngineBounds, EventRecordsPair, MainsInvariant
  <2> QED
    BY <1>1, <2>1, <2>2, <2>3 DEF EngineInvariant
<1>7. CASE PqRuns
  <2>1. /\ engine = "pq" /\ PqNext
        /\ UNCHANGED <<engine, flicker, mains, frequencyVars, harmonic>>
    BY <1>7 DEF PqRuns
  <2>2. /\ StreamTypes' /\ StreamOrder' /\ PqInvariant'
        /\ ReportedSound(records, track.since, track.owed)'
    BY <1>1, <2>1, PqStep DEF EngineInvariant
  <2>3. EngineBounds'
    BY <1>1, <2>1, <2>2 DEF EngineBounds, PqInvariant
  <2> QED
    BY <1>1, <2>1, <2>2, <2>3 DEF EngineInvariant
<1>8. CASE FrequencyRuns
  <2>1. /\ engine = "frequency" /\ FrequencyNext
        /\ UNCHANGED <<engine, flicker, mains, pq, harmonic>>
    BY <1>8 DEF FrequencyRuns
  <2>2. /\ StreamTypes' /\ StreamOrder' /\ FrequencyInvariant'
        /\ ReportedSound(records, track.since, track.owed)'
    BY <1>1, <2>1, FrequencyStep DEF EngineInvariant
  <2>3. EngineBounds'
    BY <1>1, <2>1 DEF EngineBounds, EventRecordsPair
  <2> QED
    BY <1>1, <2>1, <2>2, <2>3 DEF EngineInvariant
<1>9. CASE HarmonicRuns
  <2>1. /\ engine = "harmonic" /\ HarmonicNext
        /\ UNCHANGED <<engine, flicker, mains, pq, frequencyVars>>
    BY <1>9 DEF HarmonicRuns
  <2>2. /\ StreamTypes' /\ StreamOrder' /\ HarmonicInvariant'
        /\ ReportedSound(records, track.since, track.owed)'
    BY <1>1, <2>1, HarmonicStep DEF EngineInvariant
  <2>3. EngineBounds'
    BY <1>1, <2>1, <2>2 DEF EngineBounds, EventRecordsPair, HarmonicInvariant
  <2> QED
    BY <1>1, <2>1, <2>2, <2>3 DEF EngineInvariant
<1> QED
  BY <1>3, <1>4, <1>5, <1>6, <1>7, <1>8, <1>9 DEF EngineNext

THEOREM EnginesSound == EngineSpec => []EngineInvariant
<1>1. EngineInit => EngineInvariant
  BY EngineBegins
<1>2. EngineInvariant /\ [EngineNext]_engineStreamVars => EngineInvariant'
  BY EngineKeeps
<1> QED
  BY <1>1, <1>2, PTL DEF EngineSpec

(* The first record a part of an engine publishes after a loss says that it *)
(* follows one: the firstAfter, pending_discontinuity_ and discontinuity    *)
(* flags of the engines are taken by that record and by nothing else.      *)
THEOREM FirstRecordTellsOfLoss == EngineSpec => []LossIsMarked
<1>1. EngineInvariant => LossIsMarked
  BY DEF EngineInvariant, ReportedSound, LossIsMarked
<1> QED
  BY <1>1, EnginesSound, PTL

(* PqEventLifecycleEngine: every event that is started is ended or aborted  *)
(* once, whatever reconfiguration, loss or repeated frame comes between.   *)
THEOREM StartsAndEndsPair == EngineSpec => []EventRecordsPair
<1>1. EngineInvariant => EventRecordsPair
  BY DEF EngineInvariant, EngineBounds
<1> QED
  BY <1>1, EnginesSound, PTL

(* Frequency10sEngine: the placeholders and the record of a frame continue  *)
(* the numbers of the records before, for every length of the gap.         *)
THEOREM FrequencyNumbersContinue == EngineSpec => []FrequencySequenceHasNoHole
<1>1. EngineInvariant => FrequencySequenceHasNoHole
  BY DEF EngineInvariant, FrequencyInvariant, NumberedFrom, FrequencySequenceHasNoHole
<1> QED
  BY <1>1, EnginesSound, PTL

(* The part of NoResultSpansAGap that is about these engines: a valid       *)
(* record lies behind the newest sample that was not heard.                *)
ValidRecordsFollowLoss == \A i \in DOMAIN records : records[i].valid => records[i].first >= track.since

LEMMA NoRecordSpansAGap == EngineInvariant => ValidRecordsFollowLoss
  BY DEF EngineInvariant, ReportedSound, ValidRecordsFollowLoss

--------------------------------------------------------------------------------
(* The aggregation tiers, whichever engine runs: the others leave them as   *)
(* they begin.                                                             *)
THEOREM TiersSoundAmongEngines == EngineSpec => []TierInvariant
<1>1. EngineInit => TierInvariant
  BY TiersBegin DEF EngineInit
<1>2. TierInvariant /\ [EngineNext]_engineStreamVars => TierInvariant'
  <2> SUFFICES ASSUME TierInvariant, [EngineNext]_engineStreamVars
               PROVE  TierInvariant'
    OBVIOUS
  <2>1. CASE TiersRun
    BY <2>1, TierStep DEF TiersRun
  <2>2. CASE UNCHANGED allTierVars
    BY <2>2, TiersUnchanged
  <2>3. ~TiersRun => UNCHANGED allTierVars
    BY DEF EngineNext, FlickerRuns, MainsRuns, PqRuns, FrequencyRuns, HarmonicRuns,
           engineStreamVars
  <2> QED
    BY <2>1, <2>2, <2>3
<1> QED
  BY <1>1, <1>2, PTL DEF EngineSpec

(* The types and bounds of every engine; of the tiers, that process() has   *)
(* drained the deferred passes within its count, for any length of block,   *)
(* aggregate, interval and window.                                         *)
THEOREM EngineTypes == EngineSpec => []StreamTypeOK
<1>1. EngineInvariant /\ TierInvariant => StreamTypeOK
  <2> SUFFICES ASSUME EngineInvariant, TierInvariant
               PROVE  StreamTypeOK
    OBVIOUS
  <2>1. FlickerBounds(flicker) /\ mains.window.span < WindowBatches /\ HarmonicBounds(harmonic)
    BY DEF EngineInvariant, EngineBounds
  <2> QED
    BY <2>1, TierBounds DEF StreamTypeOK, FlickerBounds, HarmonicBounds
<1> QED
  BY <1>1, EnginesSound, TiersSoundAmongEngines, PTL

(* No interval, no valid demand and no valid record of an engine reaches    *)
(* across a hole, however the holes, the UTC marks, the configurations and  *)
(* the changes of frequency fall.                                          *)
THEOREM NoResultCoversAHole == EngineSpec => []NoResultSpansAGap
<1>1. EngineInvariant /\ TierInvariant => NoResultSpansAGap
  <2> SUFFICES ASSUME EngineInvariant, TierInvariant
               PROVE  NoResultSpansAGap
    OBVIOUS
  <2>1. \A i \in DOMAIN records : records[i].valid => records[i].first >= track.since
    BY NoRecordSpansAGap DEF ValidRecordsFollowLoss
  <2>2. output # Nothing => Unbroken(output) /\ ~Crosses(output, history.changed)
    BY ResultsUnbroken DEF Unbroken, Crosses
  <2>3. demand.result # Nothing /\ demand.result.valid => Unbroken(demand.result)
    BY ResultsUnbroken DEF Unbroken, Crosses
  <2> QED
    BY <2>1, <2>2, <2>3 DEF NoResultSpansAGap
<1> QED
  BY <1>1, EnginesSound, TiersSoundAmongEngines, PTL

(* A result has the samples of its span, although the blocks overlap at an  *)
(* UTC mark.                                                               *)
THEOREM OverlapIsNotCountedTwice == EngineSpec => []SamplesCountedOnce
<1>1. TierInvariant => SamplesCountedOnce
  BY ResultsCountOnce DEF SamplesCountedOnce
<1> QED
  BY <1>1, TiersSoundAmongEngines, PTL

(* EnergyDemandEngine loses no block and no sample without saying so.       *)
THEOREM EnergyAccountIsComplete == EngineSpec => []EnergyAccountsForEveryBlock
<1>1. TierInvariant => EnergyAccountsForEveryBlock
  BY BlocksAccounted DEF EnergyAccountsForEveryBlock
<1> QED
  BY <1>1, TiersSoundAmongEngines, PTL

(* The aligned ten-minute intervals of one configuration overlap or follow  *)
(* each other: the pass of one either adds it to the two-hour chain or      *)
(* finds that it begins before the chain ends.  A missing sample, a missed  *)
(* interval or a number out of order never is what restarts the chain.      *)
OnlyAnOverlapBreaksTheChain ==
  [][/\ output' # output /\ output'.tier = "ten" /\ output'.aligned
     /\ kernel.two.intervals # 0 /\ output'.settings = kernel.two.settings
     => \/ kernel'.two.intervals = kernel.two.intervals + 1
        \/ output'.first < kernel.two.nextFirst]_tierVars

(* The two-hour fold of the kernel: what AlignedIntervalAddsItself misses   *)
(* is the overlap at a UTC mark and nothing else.                          *)
THEOREM OnlyAnOverlapRestartsTwoHours == EngineSpec => OnlyAnOverlapBreaksTheChain
<1> DEFINE broken == \/ kernel'.two.intervals = kernel.two.intervals + 1
                     \/ output'.first < kernel.two.nextFirst
           folded == /\ output' # output /\ output'.tier = "ten" /\ output'.aligned
                     /\ kernel.two.intervals # 0 /\ output'.settings = kernel.two.settings
<1>1. TierInvariant /\ [EngineNext]_engineStreamVars => [folded => broken]_tierVars
  <2> SUFFICES ASSUME TierInvariant, [EngineNext]_engineStreamVars
               PROVE  [folded => broken]_tierVars
    OBVIOUS
  <2>1. CASE TiersRun
    BY <2>1, ChainBreaksOnOverlap DEF TiersRun
  <2>2. ~TiersRun => UNCHANGED tierVars
    BY DEF EngineNext, FlickerRuns, MainsRuns, PqRuns, FrequencyRuns, HarmonicRuns,
           engineStreamVars, allTierVars
  <2> QED
    BY <2>1, <2>2
<1> QED
  BY <1>1, TiersSoundAmongEngines, PTL DEF EngineSpec, OnlyAnOverlapBreaksTheChain
================================================================================
