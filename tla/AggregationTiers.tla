---------------------------- MODULE AggregationTiers ----------------------------
(***************************************************************************)
(* What R5AggregationEngine does with the stream of grid cycles: it folds  *)
(* cycles into 10/12-cycle Basic blocks, blocks into 150/180-cycle         *)
(* aggregates and into clock-aligned ten-minute intervals, and ten-minute  *)
(* intervals into two-hour ones.  The model keeps where each interval      *)
(* begins and ends, what it was measured with and what terminates it; the  *)
(* accumulators are left out.  An UTC mark that falls inside a block opens *)
(* a second, shadow, block that overlaps the first.  What the engine does  *)
(* when a record is refused is in AggregationOutput.                       *)
(***************************************************************************)
EXTENDS Integers, FiniteSets

CONSTANTS
  CycleSamples,         \* samples of a grid cycle
  CyclesAt50,           \* cycles of a Basic block at 50 Hz (10)
  CyclesAt60,           \* and at 60 Hz (12)
  BlocksPerAggregate,   \* MET_BASIC_BLOCKS_PER_AGGREGATE (15)
  IntervalSamples,      \* samples of ten minutes (600 s at the sample rate)
  IntervalsPerTwoHour,  \* A2H_INTERVALS_TARGET (12)
  MaxDeferredPasses,    \* deferred_pass_count (8)
  MarkOffsets,          \* how far from the next cycle Linux may put a mark
  MaxCycles,            \* bound of the model: cycles the PL measures
  MaxDisturbances       \* bound of the model: everything that is not a plain cycle

ASSUME TierAssumption ==
  /\ {CycleSamples, CyclesAt50, CyclesAt60, BlocksPerAggregate, IntervalSamples,
      IntervalsPerTwoHour, MaxDeferredPasses, MaxCycles} \subseteq Nat \ {0}
  /\ MaxDeferredPasses >= 5   \* as many kinds of pass as there are
  /\ MarkOffsets \subseteq Int
  /\ MaxDisturbances \in Nat

VARIABLES
  source,        \* the PL and Linux: configuration, UTC mark, cycles and frames so far
  disturbances,  \* disturbances left
  feed,          \* R5AggregationEngine: last_transport_sequence_, discontinuity_pending_
  kernel,        \* the static state of hls_aggregation_engine
  passes,        \* deferred passes run for the present frame
  output,        \* the record family published by the last step
  history        \* auxiliary: the newest hole, change of frequency and cycle without lock

tierVars == <<source, disturbances, feed, kernel, passes, output, history>>

None == -1                      \* no sequence number, no UTC mark
Nothing == [tier |-> "none"]

Nominals == {50, 60}
met_expected_cycles(nominal) == IF nominal = 50 THEN CyclesAt50 ELSE CyclesAt60

FirstSample(cycle) == cycle * CycleSamples
LastSample(cycle) == FirstSample(cycle) + CycleSamples - 1

(* The bits of aggregation_interval_pending, served from the lowest.        *)
Aggregate == 0
TenMinute == 1
TwoHour == 2
OpenTen == 3
OpenTwo == 4
Previews == {OpenTen, OpenTwo}

NoBlock == [cycles |-> 0, nominal |-> 50, first |-> 0, samples |-> 0,
            locked |-> TRUE, valid |-> TRUE, resync |-> FALSE]
NoSlot == [blocks |-> 0, settings |-> <<0, 50>>, first |-> 0, last |-> 0, samples |-> 0,
           nextSeq |-> 0, nextFirst |-> 0, valid |-> TRUE, overlap |-> FALSE,
           resync |-> FALSE]

Init ==
  /\ source = [frame |-> 0, cycle |-> 0, nominal |-> 50, generation |-> 1, enable |-> TRUE,
               update |-> 0, target |-> None]
  /\ disturbances = MaxDisturbances
  /\ feed = [last |-> None, reported |-> FALSE]
  /\ kernel = [toggle |-> 0, generation |-> 0, enable |-> FALSE, update |-> 0,
               expected |-> None, disc |-> TRUE, mark |-> None, sequence |-> 0,
               primary |-> NoBlock, shadow |-> NoBlock,
               open |-> NoSlot, openShadow |-> NoSlot, closed |-> NoSlot, syncSeed |-> FALSE,
               ten |-> [blocks |-> 0, settings |-> <<0, 50>>, first |-> 0, last |-> 0,
                        samples |-> 0, valid |-> TRUE, nextSeq |-> 0, nextFirst |-> 0, target |-> None,
                        closed |-> None, contaminated |-> TRUE, sequence |-> 0],
               two |-> [intervals |-> 0, settings |-> <<0, 50>>, first |-> 0, last |-> 0,
                        samples |-> 0, nextSeq |-> 0, nextFirst |-> 0, closed |-> None],
               pending |-> {}]
  /\ passes = 0
  /\ output = Nothing
  /\ history = [cut |-> 0, changed |-> 0, unlocked |-> None, nominal |-> 50]

Disturb == disturbances > 0 /\ disturbances' = disturbances - 1

--------------------------------------------------------------------------------
(* The context that travels with a cycle.  A new UTC mark supersedes both   *)
(* shadows, the open ten-minute interval and the two-hour chain.           *)
AdoptMark(k, x) ==
  IF x.update = k.update THEN k
  ELSE [k EXCEPT !.update = x.update, !.mark = x.target, !.shadow = NoBlock,
                 !.openShadow = NoSlot, !.syncSeed = FALSE,
                 !.ten = [@ EXCEPT !.blocks = 0, !.target = x.target, !.contaminated = TRUE],
                 !.two.intervals = 0, !.pending = @ \ Previews]

(* The toggle, not the generation, says that there is a new configuration.  *)
Toggle(generation) == generation % 2

ApplyConfiguration(k, x) ==
  IF Toggle(x.generation) = k.toggle THEN k
  ELSE [k EXCEPT !.toggle = Toggle(x.generation), !.generation = x.generation,
                 !.enable = x.enable, !.primary = NoBlock, !.shadow = NoBlock,
                 !.expected = None, !.disc = TRUE, !.two.intervals = 0,
                 !.pending = @ \ Previews]

Discarded(k) == [k EXCEPT !.primary = NoBlock, !.shadow = NoBlock, !.disc = TRUE]

(* A gap, a break of the sequence or a new nominal frequency discards the   *)
(* partial block; the cycle that shows it begins the next one.             *)
BrokenByFlags(k, x) ==
  x.gap \/ (k.primary.cycles # 0 /\ x.nominal # k.primary.nominal)
Broken(k, x) ==
  \/ x.gap
  \/ k.expected # None /\ x.cycle # k.expected
  \/ k.primary.cycles # 0 /\ x.nominal # k.primary.nominal

CheckContinuity(k, x) ==
  [(IF Broken(k, x) THEN Discarded(k) ELSE k) EXCEPT !.expected = x.cycle + 1]

(* The first cycle at or after the mark begins a block: the primary one if  *)
(* none is open, a shadow otherwise.  The next mark is a whole number of    *)
(* intervals later.                                                        *)
AtMark(k, x) == k.mark # None /\ FirstSample(x.cycle) >= k.mark
NextMark(k, x) ==
  IF AtMark(k, x)
  THEN k.mark + IntervalSamples * ((FirstSample(x.cycle) - k.mark) \div IntervalSamples + 1)
  ELSE k.mark

Extended(b, x, resync) ==
  LET base == IF b.cycles = 0
              THEN [NoBlock EXCEPT !.nominal = x.nominal, !.first = FirstSample(x.cycle),
                                   !.resync = resync]
              ELSE b
  IN [base EXCEPT !.cycles = @ + 1, !.samples = @ + CycleSamples,
                  !.locked = @ /\ x.locked, !.valid = @ /\ x.valid]

MergeCycle(k, x) ==
  LET opensShadow == AtMark(k, x) /\ k.primary.cycles # 0
  IN [k EXCEPT !.mark = NextMark(k, x),
               !.primary = Extended(@, x, AtMark(k, x)),
               !.shadow = IF opensShadow THEN Extended(NoBlock, x, TRUE)
                          ELSE IF @.cycles # 0 THEN Extended(@, x, FALSE) ELSE NoBlock]

BlockComplete(k) == k.primary.cycles >= met_expected_cycles(k.primary.nominal)

--------------------------------------------------------------------------------
(* A complete Basic block goes into the ten-minute interval and into the    *)
(* aggregates, if the frequency was locked and no gap precedes it.         *)
BasicResult(k, x) ==
  LET b == k.primary
  IN [tier |-> "basic", sequence |-> k.sequence + 1, settings |-> <<k.generation, b.nominal>>,
      first |-> b.first, last |-> LastSample(x.cycle), samples |-> b.samples,
      eligible |-> b.locked /\ ~k.disc, afterGap |-> k.disc, valid |-> b.valid,
      resync |-> b.resync]

Seed(r, resync) ==
  [blocks |-> 1, settings |-> r.settings, first |-> r.first, last |-> r.last,
   samples |-> r.samples, nextSeq |-> r.sequence + 1, nextFirst |-> r.first + r.samples,
   valid |-> r.valid, overlap |-> FALSE, resync |-> resync]
Added(s, r) ==
  [s EXCEPT !.blocks = @ + 1, !.last = r.last, !.samples = @ + r.samples,
            !.nextSeq = r.sequence + 1, !.nextFirst = r.first + r.samples,
            !.valid = @ /\ r.valid]

Follows(t, r) == r.settings = t.settings /\ r.sequence = t.nextSeq /\ r.first = t.nextFirst

(* A break in front of a block contaminates the interval it begins; the     *)
(* interval is closed by the first block that ends at or after the target. *)
FoldTen(k, r) ==
  LET t == k.ten
      seed == t.blocks = 0 \/ ~Follows(t, r)
      merged == [t EXCEPT !.blocks = IF seed THEN 1 ELSE @ + 1,
                          !.settings = r.settings,
                          !.first = IF seed THEN r.first ELSE @,
                          !.samples = IF seed THEN r.samples ELSE @ + r.samples,
                          !.valid = IF seed THEN r.valid ELSE @ /\ r.valid,
                          !.last = r.last, !.nextSeq = r.sequence + 1,
                          !.nextFirst = r.first + r.samples,
                          !.contaminated = @ \/ (seed /\ t.blocks # 0)]
  IN IF t.target = None \/ ~r.eligible
     THEN [k EXCEPT !.ten = [t EXCEPT !.blocks = 0, !.contaminated = TRUE],
                    !.pending = @ \ {OpenTen}]
     ELSE IF r.last < t.target
     THEN [k EXCEPT !.ten = merged]
     ELSE [k EXCEPT !.ten = [merged EXCEPT !.closed = t.target, !.target = @ + IntervalSamples],
                    !.pending = @ \cup {TenMinute}]

(* The aggregates tolerate the one overlap that a mark causes: the block    *)
(* goes on in the open aggregate and begins a synchronised one beside it.  *)
Continues(s, r) ==
  \/ Follows(s, r)
  \/ /\ r.settings = s.settings /\ r.sequence = s.nextSeq
     /\ r.resync /\ r.first <= s.last /\ r.last > s.last

FoldAggregates(k, r) ==
  LET seed == k.open.blocks = 0 \/ ~Continues(k.open, r)
      sync == k.syncSeed \/ r.resync
      splits == r.resync /\ ~seed
      open == IF seed THEN Seed(r, sync)
              ELSE Added([k.open EXCEPT !.overlap = @ \/ splits], r)
      beside == IF splits THEN Seed(r, TRUE)
                ELSE IF seed \/ k.openShadow.blocks = 0 THEN NoSlot
                ELSE Added(k.openShadow, r)
      folded == [k EXCEPT !.open = open, !.openShadow = beside,
                          !.syncSeed = sync /\ ~seed /\ ~splits]
  IN IF ~r.eligible
     THEN [k EXCEPT !.open = NoSlot, !.openShadow = NoSlot, !.syncSeed = r.resync]
     ELSE IF open.blocks # BlocksPerAggregate
     THEN folded
     ELSE [folded EXCEPT !.closed = open, !.open = beside, !.openShadow = NoSlot,
                         !.pending = @ \cup {Aggregate}]

(* Pass 0.  The shadow block goes on as the primary one.                    *)
CloseBlock(k, x) ==
  LET r == BasicResult(k, x)
      closed == [k EXCEPT !.primary = k.shadow, !.shadow = NoBlock,
                          !.sequence = @ + 1, !.disc = FALSE]
  IN FoldAggregates(FoldTen(closed, r), r)

--------------------------------------------------------------------------------
(* R5AggregationEngine::process.  A frame that is not newer than the last   *)
(* one is ignored; a hole in front of it, or one that AGG_RX reported, is   *)
(* passed on as the cycle's own gap mark.                                  *)
Stale(frame) == feed.last # None /\ frame <= feed.last
HoleBefore(frame) == feed.last # None /\ frame > feed.last + 1

(* One invocation of the kernel with a cycle.                               *)
Configured(k, x) == ApplyConfiguration(AdoptMark(k, x), x)
Measures(k, x) == k.enable /\ x.generation = k.generation
Merged(k, x) == MergeCycle(CheckContinuity(k, x), x)

Invoke(k, x) ==
  IF ~k.enable THEN k
  ELSE IF ~Measures(k, x) THEN [Discarded(k) EXCEPT !.expected = None]
  ELSE IF BlockComplete(Merged(k, x)) THEN CloseBlock(Merged(k, x), x) ELSE Merged(k, x)

Published(k, x) ==
  IF Measures(k, x) /\ BlockComplete(Merged(k, x)) THEN BasicResult(Merged(k, x), x) ELSE Nothing

(* Where the newest samples lie that were not measured, or were with        *)
(* another nominal frequency or without lock.                              *)
Remember(k, x) ==
  [cut |-> IF ~Measures(k, x) THEN FirstSample(x.cycle + 1)
           ELSE IF x.gap \/ x.cycle # k.expected THEN FirstSample(x.cycle) ELSE history.cut,
   changed |-> IF x.nominal # history.nominal THEN FirstSample(x.cycle) ELSE history.changed,
   unlocked |-> IF x.locked THEN history.unlocked ELSE FirstSample(x.cycle),
   nominal |-> x.nominal]

Process(frame, packet) ==
  LET x == [packet EXCEPT !.gap = @ \/ HoleBefore(frame) \/ feed.reported]
      k == Configured(kernel, x)
  IN IF Stale(frame)
     THEN output' = Nothing /\ UNCHANGED <<feed, kernel, passes, history>>
     ELSE /\ feed' = [last |-> frame, reported |-> FALSE]
          /\ kernel' = Invoke(k, x)
          /\ passes' = 0
          /\ output' = Published(k, x)
          /\ history' = Remember(k, x)

(* AGG_VAL takes the next frame when the last one has been dealt with.      *)
Idle == kernel.pending = {}

Packet(cycle) ==
  [cycle |-> cycle, nominal |-> source.nominal, generation |-> source.generation,
   enable |-> source.enable, update |-> source.update, target |-> source.target,
   gap |-> FALSE, locked |-> TRUE, valid |-> TRUE]

(* The PL measures a cycle; its frame arrives.                              *)
Measured == source.cycle < MaxCycles
Cycle ==
  /\ Idle /\ Measured
  /\ Process(source.frame, Packet(source.cycle))
  /\ source' = [source EXCEPT !.frame = @ + 1, !.cycle = @ + 1]
  /\ UNCHANGED disturbances

(* It comes with a gap mark, without lock or with a channel that is invalid.*)
FlawedCycle ==
  /\ Idle /\ Measured /\ Disturb
  /\ \E flaw \in {"gap", "unlocked", "invalid"} :
       Process(source.frame, [Packet(source.cycle) EXCEPT
         !.gap = (flaw = "gap"), !.locked = (flaw # "unlocked"), !.valid = (flaw # "invalid")])
  /\ source' = [source EXCEPT !.frame = @ + 1, !.cycle = @ + 1]

(* Cycles the PL measures and whose frames are lost: one, or a long outage. *)
LoseFrames(cycles) ==
  /\ Idle /\ source.cycle + cycles < MaxCycles /\ Disturb
  /\ source' = [source EXCEPT !.frame = @ + cycles, !.cycle = @ + cycles]
  /\ UNCHANGED <<feed, kernel, passes, output, history>>

(* A cycle the PL drops before it is given a frame.                         *)
DropCycle ==
  /\ Idle /\ source.cycle + 1 < MaxCycles /\ Disturb
  /\ source' = [source EXCEPT !.cycle = @ + 1]
  /\ UNCHANGED <<feed, kernel, passes, output, history>>

(* The last frame arrives again.                                            *)
RepeatFrame ==
  /\ Idle /\ source.frame > 0 /\ Disturb
  /\ Process(source.frame - 1, Packet(source.cycle - 1))
  /\ UNCHANGED source

(* AGG_RX saw an error or a full ring: note_transport_discontinuity.        *)
ReportDiscontinuity ==
  /\ ~feed.reported /\ Disturb
  /\ feed' = [feed EXCEPT !.reported = TRUE]
  /\ UNCHANGED <<source, kernel, passes, output, history>>

ChangeNominal ==
  /\ Idle /\ Measured /\ Disturb
  /\ \E nominal \in Nominals \ {source.nominal} : source' = [source EXCEPT !.nominal = nominal]
  /\ UNCHANGED <<feed, kernel, passes, output, history>>

(* Linux gives the PL a configuration, or tells it where the next UTC mark  *)
(* is; the first mark is part of the start and costs nothing.              *)
Configure ==
  /\ Idle /\ Measured /\ Disturb
  /\ \E enable \in BOOLEAN :
       source' = [source EXCEPT !.generation = @ + 1, !.enable = enable]
  /\ UNCHANGED <<feed, kernel, passes, output, history>>

SetMark ==
  /\ Idle /\ Measured
  /\ IF source.update = 0 /\ source.cycle = 0 THEN UNCHANGED disturbances ELSE Disturb
  /\ \E target \in {FirstSample(source.cycle) + d : d \in MarkOffsets} \cap Nat :
       source' = [source EXCEPT !.update = 1 - @, !.target = target]
  /\ UNCHANGED <<feed, kernel, passes, output, history>>

--------------------------------------------------------------------------------
(* The deferred passes, one per invocation and the lowest first, while the  *)
(* same call of process() drains them.                                     *)
Turn(pass) ==
  /\ pass \in kernel.pending /\ \A p \in kernel.pending : pass <= p
  /\ passes' = passes + 1
  /\ UNCHANGED <<source, disturbances, feed, history>>

ServedAndKept(pass) == kernel
Served(pass) == [kernel EXCEPT !.pending = @ \ {pass}]

(* Pass 1 publishes the aggregate and asks for the ten-minute preview,      *)
(* unless the same block has closed that interval.                         *)
FinishAggregate ==
  /\ Turn(Aggregate)
  /\ output' = [tier |-> "aggregate", settings |-> kernel.closed.settings,
                first |-> kernel.closed.first, last |-> kernel.closed.last,
                samples |-> kernel.closed.samples, valid |-> kernel.closed.valid,
                overlap |-> kernel.closed.overlap,
                resync |-> kernel.closed.resync]
  /\ kernel' = [Served(Aggregate) EXCEPT
       !.closed = NoSlot,
       !.pending = IF kernel.ten.blocks # 0 /\ TenMinute \notin @ THEN @ \cup {OpenTen} ELSE @]

(* Pass 2 publishes the ten-minute interval and folds it into the two-hour  *)
(* one if it is whole; anything else ends the chain.                       *)
Sequence == kernel.ten.sequence + 1

ChainsInSequence(w, t) == t.settings = w.settings /\ Sequence = w.nextSeq
Chains(w, t) == t.settings = w.settings /\ Sequence = w.nextSeq /\ t.first = w.nextFirst

FoldTwo(k, t) ==
  LET w == k.two
      seed == w.intervals = 0 \/ ~Chains(w, t)
      merged == [w EXCEPT !.intervals = IF seed THEN 1 ELSE @ + 1, !.settings = t.settings,
                          !.first = IF seed THEN t.first ELSE @, !.last = t.last,
                          !.samples = IF seed THEN t.samples ELSE @ + t.samples,
                          !.nextSeq = Sequence + 1, !.nextFirst = t.first + t.samples,
                          !.closed = t.closed]
  IN IF t.contaminated
     THEN [k EXCEPT !.two.intervals = 0, !.pending = @ \ {OpenTwo}]
     ELSE [k EXCEPT !.two = merged,
                    !.pending = IF merged.intervals = IntervalsPerTwoHour
                                THEN (@ \ {OpenTwo}) \cup {TwoHour} ELSE @ \cup {OpenTwo}]

FinishTenMinutes ==
  /\ Turn(TenMinute)
  /\ output' = [tier |-> "ten", settings |-> kernel.ten.settings, first |-> kernel.ten.first,
                last |-> kernel.ten.last, samples |-> kernel.ten.samples,
                valid |-> kernel.ten.valid, closed |-> kernel.ten.closed, aligned |-> ~kernel.ten.contaminated]
  /\ kernel' = [FoldTwo(Served(TenMinute), kernel.ten) EXCEPT
       !.ten = [@ EXCEPT !.sequence = Sequence, !.blocks = 0, !.contaminated = FALSE]]

(* Pass 3.                                                                  *)
FinishTwoHours ==
  /\ Turn(TwoHour)
  /\ output' = [tier |-> "two", settings |-> kernel.two.settings, first |-> kernel.two.first,
                last |-> kernel.two.last, samples |-> kernel.two.samples,
                closed |-> kernel.two.closed]
  /\ kernel' = [Served(TwoHour) EXCEPT !.two.intervals = 0]

(* Passes 4 and 5: the open intervals, under formats of their own.          *)
OpenInterval(tier, interval, parts) ==
  [tier |-> tier, settings |-> interval.settings, first |-> interval.first,
   last |-> interval.last, parts |-> parts]

PreviewTenMinutes ==
  /\ Turn(OpenTen)
  /\ output' = OpenInterval("openTen", kernel.ten, kernel.ten.blocks)
  /\ kernel' = Served(OpenTen)

PreviewTwoHours ==
  /\ Turn(OpenTwo)
  /\ output' = OpenInterval("openTwo", kernel.two, kernel.two.intervals)
  /\ kernel' = Served(OpenTwo)

--------------------------------------------------------------------------------
CycleArrives == Cycle \/ FlawedCycle \/ RepeatFrame

Interference ==
  \/ \E cycles \in {1, MaxCycles \div 2} : LoseFrames(cycles)
  \/ DropCycle \/ ReportDiscontinuity \/ ChangeNominal \/ Configure \/ SetMark

DeferredPass == FinishAggregate \/ FinishTenMinutes \/ FinishTwoHours
                \/ PreviewTenMinutes \/ PreviewTwoHours

Next == CycleArrives \/ Interference \/ DeferredPass

Spec == Init /\ [][Next]_tierVars

--------------------------------------------------------------------------------
(* "It folds exactly twelve COMPLETE, ALIGNED ten-minute accumulator sets":  *)
(* an aligned ten-minute interval adds itself to the two-hour one that is   *)
(* open under the same settings.                                           *)
AlignedIntervalAddsItself ==
  [][/\ output' # output /\ output'.tier = "ten" /\ output'.aligned
     /\ kernel.two.intervals # 0 /\ output'.settings = kernel.two.settings
     => kernel'.two.intervals = kernel.two.intervals + 1]_tierVars
================================================================================
