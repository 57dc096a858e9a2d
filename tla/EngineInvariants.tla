---------------------------- MODULE EngineInvariants ----------------------------
(***************************************************************************)
(* The inductive invariants behind the theorems of EngineStreamsProofs:    *)
(* TierInvariant for the aggregation tiers, energy and demand, and         *)
(* EngineInvariant for the engines that follow a stream of their own.      *)
(***************************************************************************)
EXTENDS EngineStreams

(* The types of the kernel's state and of what travels with a cycle.        *)
Settings == Nat \X Nominals
Blocks == [cycles : Nat, nominal : Nominals, first : Int, samples : Int,
           locked : BOOLEAN, valid : BOOLEAN, resync : BOOLEAN]
AggregateSlots == [blocks : Nat, settings : Settings, first : Int, last : Int, samples : Int,
                   nextSeq : Int, nextFirst : Int, valid : BOOLEAN, overlap : BOOLEAN,
                   resync : BOOLEAN]
TenMinuteSlots == [blocks : Nat, settings : Settings, first : Int, last : Int, samples : Int,
                   valid : BOOLEAN, nextSeq : Int, nextFirst : Int, target : Int, closed : Int,
                   contaminated : BOOLEAN, sequence : Nat]
TwoHourSlots == [intervals : Nat, settings : Settings, first : Int, last : Int,
                 samples : Int, nextSeq : Int, nextFirst : Int, closed : Int]
Kernels == [toggle : Int, generation : Nat, enable : BOOLEAN, update : {0, 1},
            expected : Int, disc : BOOLEAN, mark : Int, sequence : Nat,
            primary : Blocks, shadow : Blocks, open : AggregateSlots,
            openShadow : AggregateSlots, closed : AggregateSlots, syncSeed : BOOLEAN,
            ten : TenMinuteSlots, two : TwoHourSlots, pending : SUBSET (0 .. 4)]
Histories == [cut : Int, changed : Int, unlocked : Int, nominal : Nominals]
CyclePackets == [cycle : Nat, nominal : Nominals, generation : Nat, enable : BOOLEAN,
            update : {0, 1}, target : Int, gap : BOOLEAN, locked : BOOLEAN, valid : BOOLEAN]
BasicResults == [tier : {"basic"}, sequence : Nat, settings : Settings, first : Int, last : Int,
                 samples : Int, eligible : BOOLEAN, afterGap : BOOLEAN, valid : BOOLEAN,
                 resync : BOOLEAN]

--------------------------------------------------------------------------------
(* The kernel, when the samples before "now" have been heard and h is the  *)
(* history.                                                                *)

(* An open block ends with the last sample heard and began after every hole *)
(* and every change of frequency.                                          *)
BlockSound(b, now, h) ==
  /\ b.first < now /\ b.samples = now - b.first
  /\ h.cut <= b.first /\ h.changed <= b.first
  /\ b.locked => h.unlocked < b.first
  /\ b.nominal = h.nominal

(* The shadow block began after the primary one, and the next block will    *)
(* not begin at a hole unless it is marked as following one.               *)
BlocksSound(k, now, h) ==
  /\ k.primary.cycles # 0 => BlockSound(k.primary, now, h)
  /\ k.shadow.cycles # 0 => /\ BlockSound(k.shadow, now, h)
                            /\ k.shadow.cycles < k.primary.cycles
                            /\ k.primary.first < k.shadow.first
  /\ ~k.disc => h.cut < IF k.primary.cycles = 0 THEN now ELSE k.primary.first

BlockOpen(k) == k.primary.cycles < met_expected_cycles(k.primary.nominal)

Expecting(k) ==
  /\ ~k.disc => k.expected # None
  /\ k.expected = None => k.primary.cycles = 0 /\ k.shadow.cycles = 0
  /\ ~k.enable => k.expected = None

(* An interval lies behind, and contains no cycle without lock.             *)
Placed(s, now, h) ==
  /\ s.first <= s.last /\ s.last < now /\ s.nextFirst = s.last + 1
  /\ s.first <= h.unlocked => s.last < h.unlocked

Once(s) == s.samples = s.last - s.first + 1

(* It contains no hole and no change of frequency; or the frequency has     *)
(* changed since, and nothing will be added to it.                         *)
Current(s, h) == h.cut < s.first /\ h.changed <= s.first /\ s.settings[2] = h.nominal
Outdated(s, h) == h.cut < s.first /\ s.first < h.changed /\ s.last < h.changed

SlotSound(s, k, now, h) ==
  /\ Placed(s, now, h)
  /\ ~k.disc => \/ Current(s, h)
                \/ Outdated(s, h) /\ s.settings[2] # h.nominal /\ k.primary.cycles # 0

AggregatesSound(k, now, h) ==
  /\ k.open.blocks # 0 => SlotSound(k.open, k, now, h) /\ (k.open.overlap \/ Once(k.open))
  /\ k.openShadow.blocks # 0 =>
       /\ SlotSound(k.openShadow, k, now, h) /\ (k.openShadow.overlap \/ Once(k.openShadow))
       /\ k.openShadow.blocks < k.open.blocks
       /\ k.openShadow.last = k.open.last /\ k.openShadow.settings = k.open.settings
  /\ k.open.blocks < BlocksPerAggregate

TenSound(k, now, h) == k.ten.blocks # 0 => SlotSound(k.ten, k, now, h) /\ Once(k.ten)

(* The two-hour chain is as sound as its last ten-minute interval was; a    *)
(* hole in the present one contaminates it and ends the chain with it.     *)
TwoSound(k, now, h) ==
  k.two.intervals # 0 =>
    /\ Placed(k.two, now, h) /\ Once(k.two)
    /\ ~k.disc /\ ~k.ten.contaminated =>
         \/ Current(k.two, h)
         \/ /\ Outdated(k.two, h)
            /\ IF k.ten.blocks # 0
               THEN k.ten.first < h.changed \/ k.ten.settings[2] # k.two.settings[2]
               ELSE k.two.settings[2] # h.nominal /\ k.primary.cycles # 0

(* What the deferred passes of the present frame will publish.              *)
PendingSound(k, now, h) ==
  /\ k.pending # {} => ~k.disc
  /\ Aggregate \in k.pending => /\ Placed(k.closed, now, h) /\ Current(k.closed, h)
                                /\ k.closed.overlap \/ Once(k.closed)
  /\ TenMinute \in k.pending => TwoHour \notin k.pending /\ OpenTen \notin k.pending
  /\ k.pending # {} /\ k.ten.blocks # 0 => Current(k.ten, h)
  /\ TenMinute \in k.pending \/ OpenTen \in k.pending => k.ten.blocks # 0
  /\ TwoHour \in k.pending => OpenTwo \notin k.pending
  /\ TwoHour \in k.pending <=> k.two.intervals = IntervalsPerTwoHour
  /\ k.two.intervals <= IntervalsPerTwoHour
  /\ TwoHour \in k.pending \/ OpenTwo \in k.pending => k.two.intervals # 0 /\ Current(k.two, h)

HistorySound(now, h) == h.cut <= now /\ (h.changed < now \/ h.changed = 0) /\ h.unlocked < now

KernelSound(k, now, h) ==
  /\ BlocksSound(k, now, h) /\ BlockOpen(k) /\ Expecting(k)
  /\ AggregatesSound(k, now, h) /\ TenSound(k, now, h) /\ TwoSound(k, now, h)
  /\ PendingSound(k, now, h)

(* What a Basic result says, when "next" is the first sample after it.      *)
BasicSound(r, next, g) ==
  /\ r.first <= r.last /\ r.last = next - 1 /\ r.samples = next - r.first
  /\ g.cut <= r.first /\ g.changed <= r.first /\ r.settings[2] = g.nominal
  /\ r.eligible => ~r.afterGap /\ g.unlocked < r.first
  /\ ~r.afterGap => g.cut < r.first

--------------------------------------------------------------------------------
(* One frame.  HeardUpTo is the first sample the kernel has not heard of.  *)
HeardUpTo(k, h) == IF k.expected = None THEN h.cut ELSE FirstSample(k.expected)
NextFirst(k, now) == IF k.primary.cycles = 0 THEN now ELSE k.primary.first

(* The two-hour chain.  Its sequence number is always the one the next      *)
(* ten-minute interval will have, and as long as nothing contaminates that  *)
(* interval it begins no later than the chain ends: the samples between two *)
(* aligned intervals can overlap, but none can be missing.                  *)
ChainReaches(k, now) ==
  IF k.ten.blocks # 0 THEN k.ten.first <= k.two.nextFirst
  ELSE k.disc \/ NextFirst(k, now) <= k.two.nextFirst

CascadeSound(k, now) ==
  /\ k.two.intervals # 0 => /\ k.two.nextSeq = k.ten.sequence + 1
                            /\ k.ten.contaminated \/ ChainReaches(k, now)
  /\ TenMinute \in k.pending => NextFirst(k, now) <= k.ten.nextFirst

(* The deferred passes.  What they publish.                                *)
IntervalResult(r, now, h) ==
  /\ r.first \in Int /\ r.last \in Int
  /\ h.cut < r.first /\ h.changed <= r.first /\ r.first <= r.last /\ r.last < now
  /\ r.first <= h.unlocked => r.last < h.unlocked

OutputSound(r, now, h) ==
  \/ r = Nothing
  \/ r \in BasicResults /\ BasicSound(r, now, h)
  \/ /\ r.tier = "aggregate" /\ IntervalResult(r, now, h)
     /\ r.settings \in Settings /\ r.valid \in BOOLEAN /\ (r.overlap \/ Once(r))
  \/ /\ r.tier = "ten" /\ IntervalResult(r, now, h)
     /\ r.valid \in BOOLEAN /\ r.aligned \in BOOLEAN /\ Once(r)
  \/ r.tier = "two" /\ IntervalResult(r, now, h) /\ Once(r)
  \/ r.tier \in {"openTen", "openTwo"} /\ IntervalResult(r, now, h)

--------------------------------------------------------------------------------
(* The energy session and the samples the kernel's next block begins with.  *)
EnergyStates == [started : BOOLEAN, first : Int, firstBlock : Int, last : Int, lastSample : Int,
                 accepted : Int, skipped : Int, acceptedSamples : Int,
                 incomplete : BOOLEAN, discontinuity : BOOLEAN]

Accounted(e) ==
  e.started => /\ 0 <= e.last /\ e.accepted + e.skipped = e.last - e.firstBlock + 1
               /\ e.incomplete \/ e.acceptedSamples >= e.lastSample - e.first + 1

Unstarted(e) ==
  ~e.started => e.last = None /\ e.accepted = 0 /\ e.skipped = 0 /\ e.acceptedSamples = 0

EnergySound(e, k, now) ==
  /\ Unstarted(e) /\ Accounted(e) /\ e.last <= k.sequence
  /\ e.started /\ ~k.disc => NextFirst(k, now) <= e.lastSample + 1

(* The window of demand: its oldest bucket reaches no hole that its newest  *)
(* does not lie before.                                                    *)
Buckets == [first : Int, last : Int, generation : Nat]
Methods == {"sliding", "fixed"}

BucketSound(b, last, h) ==
  /\ b.first < h.cut => last < h.cut
  /\ b.first <= h.unlocked => last < h.unlocked

WindowSound(buckets, now, h) ==
  /\ buckets \in Seq(Buckets) /\ Len(buckets) <= WindowBuckets
  /\ \A i \in 1 .. Len(buckets) : /\ buckets[Len(buckets)].last < now
                                  /\ BucketSound(buckets[i], buckets[Len(buckets)].last, h)

DemandResultSound(r, h) ==
  \/ r = Nothing
  \/ /\ r.tier = "demand" /\ r.first \in Int /\ r.last \in Int
     /\ r.valid => BucketSound(r, r.last, h)

DemandSound(d, now, h) ==
  /\ d = [method |-> d.method, buckets |-> d.buckets, result |-> d.result]
  /\ d.method \in Methods /\ WindowSound(d.buckets, now, h) /\ DemandResultSound(d.result, h)

--------------------------------------------------------------------------------
(* The inductive invariant of the tiers.                                   *)
CycleSources == [frame : Nat, cycle : Nat, nominal : Nominals, generation : Nat, enable : BOOLEAN,
            update : {0, 1}, target : Int]
Feeds == [last : Int, reported : BOOLEAN]

(* A frame that is still to come carries samples that were not heard yet.   *)
FeedInOrder(s, f, now) ==
  /\ None <= f.last /\ f.last < s.frame /\ s.frame <= s.cycle
  /\ now <= FirstSample(s.cycle + 1 + f.last - s.frame)

Now == HeardUpTo(kernel, history)

PassesInOrder == passes \in 0 .. 5 /\ \A p \in kernel.pending : passes <= p

MeasurementInvariant ==
  /\ kernel \in Kernels /\ history \in Histories
  /\ KernelSound(kernel, Now, history) /\ HistorySound(Now, history)
  /\ CascadeSound(kernel, Now)
  /\ PassesInOrder /\ OutputSound(output, Now, history)
  /\ energy \in EnergyStates /\ EnergySound(energy, kernel, Now)
  /\ DemandSound(demand, Now, history)

TierInvariant ==
  /\ source \in CycleSources /\ feed \in Feeds /\ FeedInOrder(source, feed, Now)
  /\ MeasurementInvariant

--------------------------------------------------------------------------------
(* What travels between the PL and an engine.                              *)
Flags == {"disc", "drop", "jump", "malformed", "saturated", "invalid"}
Frames == [sequence : Nat, sample : Nat, generation : Nat, flags : SUBSET Flags]
NoNewest == [sequence |-> NoFrame]
Streams == [next : Nat, sample : Nat, generation : Nat, staged : Nat,
            newest : Frames \cup {NoNewest}, faults : Int]
Tracks == [since : Int, next : Int, owed : SUBSET Channels]

StreamTypes == stream \in Streams /\ external \in BOOLEAN /\ track \in Tracks

(* Numbers and samples are lost together, so the newest frame is as many    *)
(* numbers back as samples; what was heard lies behind the stream.         *)
StreamOrder ==
  /\ stream.newest # NoNewest =>
       /\ stream.newest.sequence < stream.next
       /\ stream.sample - stream.newest.sample = stream.next - stream.newest.sequence
  /\ track.next # NoFrame => 0 <= track.since /\ track.since < track.next
  /\ track.since = NoFrame => track.next = NoFrame /\ track.owed = {}

(* What the records of a step may say after a loss: a valid one lies behind *)
(* it, and the first of a channel that owes a mark carries it.             *)
ReportedSound(rs, since, owed) ==
  \A i \in DOMAIN rs :
    /\ rs[i].valid => rs[i].first >= since
    /\ /\ rs[i].channel \in owed
       /\ \A j \in 1 .. i - 1 : rs[j].channel # rs[i].channel
       => rs[i].marked
Announced(rs) == {rs[i].channel : i \in DOMAIN rs}

--------------------------------------------------------------------------------
(* Ten-second frequency.  While the engine is ready its number is that of   *)
(* the newest frame, the one its last record has; every record is marked    *)
(* that has to be, so the channel owes nothing between steps.              *)
FrequencyReports ==
  [channel : {"interval"}, kind : {"frequency"}, sequence : Int, valid : BOOLEAN,
   first : Int, last : Int, marked : BOOLEAN]
FrequencyTypes ==
  /\ frequency \in [ready : BOOLEAN, sequence : Int, last : Int]
  /\ published \in Int /\ records \in Seq(FrequencyReports)

FrequencySound ==
  /\ "interval" \notin Owing
  /\ frequency.ready =>
       /\ frequency.sequence = stream.newest.sequence
       /\ track.since # NoFrame =>
             frequency.sequence # NoFrame /\ track.next = stream.newest.sample + 1
       /\ frequency.sequence # NoFrame => track.since # NoFrame
       /\ IF records = <<>> THEN published = frequency.sequence
          ELSE records[Len(records)].sequence = frequency.sequence

NumberedFrom(number, rs) ==
  /\ number # NoFrame => rs[1].sequence = number + 1
  /\ \A i \in 2 .. Len(rs) : rs[i].sequence = rs[i - 1].sequence + 1

FrequencyInvariant ==
  /\ FrequencyTypes /\ FrequencySound
  /\ records # <<>> => NumberedFrom(published, records)

--------------------------------------------------------------------------------
(* Events.  Of a state of the engine, with the records it has not published *)
(* yet: what is told of each slot is the event that is open there; an open  *)
(* event began after the loss; the records are sound; and a mark that is    *)
(* still owed is pending.                                                  *)
EventKinds == {"start", "update", "end", "abort"}
PqReports ==
  [channel : {"event"}, kind : EventKinds, slot : Slots, id : Nat, first : Int, last : Int,
   valid : BOOLEAN, marked : BOOLEAN]
PqEvents == [id : Nat, first : Int, last : Int, emitted : Int]
PqStates ==
  [active : Int, sequence : Int, counter : Nat, state : [Slots -> PqEvents],
   history : BOOLEAN \X BOOLEAN, armed : BOOLEAN, firstAfter : BOOLEAN,
   records : Seq(PqReports), told : [Slots -> Int]]

PqFresh(p) == p.firstAfter /\ \A slot \in Slots : ~Open(p, slot)
PqCarries(p, since, owed) ==
  /\ \A slot \in Slots : p.told[slot] = p.state[slot].id
  /\ \A slot \in Slots : Open(p, slot) => p.state[slot].first >= since
  /\ ReportedSound(p.records, since, owed)
  /\ "event" \in owed \ Announced(p.records) => p.firstAfter

PqInvariant ==
  /\ pq \in PqStates /\ pq.records = <<>>
  /\ EventRecordsPair
  /\ \A slot \in Slots : Open(pq, slot) => pq.state[slot].first >= track.since
  /\ "event" \in Owing => pq.firstAfter
  /\ pq.active = NoFrame => PqFresh(pq)
  /\ \/ PqFresh(pq)
     \/ /\ stream.newest # NoNewest
        /\ pq.sequence = stream.newest.sequence /\ track.next = stream.newest.sample + 1

--------------------------------------------------------------------------------
(* Signalling windows, in the same way.                                     *)
WindowReports ==
  [channel : {"window"}, kind : {"mains"}, valid : BOOLEAN, first : Int, last : Int,
   marked : BOOLEAN]
Windows == [span : Nat, first : Int, valid : BOOLEAN]
MainsStates ==
  [active : Int, sequence : Int, newest : Int, window : Windows, discontinuity : BOOLEAN,
   records : Seq(WindowReports)]

MainsFresh(m) == m.window.span = 0 /\ m.discontinuity
MainsCarries(m, since, owed) ==
  /\ m.window.span # 0 => m.window.first >= since
  /\ ReportedSound(m.records, since, owed)
  /\ "window" \in owed \ Announced(m.records) => m.discontinuity

MainsInvariant ==
  /\ mains \in MainsStates /\ mains.records = <<>> /\ mains.window.span < WindowBatches
  /\ mains.window.span # 0 => mains.window.first >= track.since
  /\ "window" \in Owing => mains.discontinuity
  /\ \/ MainsFresh(mains)
     \/ external
     \/ /\ stream.newest # NoNewest
        /\ mains.sequence = stream.newest.sequence /\ mains.newest = stream.newest.sample
        /\ track.next = mains.newest + 1

--------------------------------------------------------------------------------
(* Flicker, in the same way; every reset leaves both parts with a mark.     *)
FlickerReports ==
  [channel : {"live", "interval"}, kind : {"live", "pst", "plt"}, valid : BOOLEAN,
   first : Int, last : Int, marked : BOOLEAN]
Parts == [ticks : Nat, first : Int, discontinuity : BOOLEAN, contaminated : BOOLEAN]
FlickerStates ==
  [active : Int, sequence : Int, newest : Int, settling : Nat, live : Parts, interval : Parts,
   overflow : BOOLEAN, rolling : Seq(Int), firstAfter : BOOLEAN, records : Seq(FlickerReports)]

FlickerBounds(f) ==
  /\ Len(f.rolling) <= PltPeriods
  /\ f.live.ticks < LiveBatches /\ f.interval.ticks < IntervalBatches

FlickerFresh(f) ==
  /\ f.live.ticks = 0 /\ f.interval.ticks = 0 /\ f.rolling = <<>>
  /\ f.live.discontinuity /\ f.interval.discontinuity

FlickerKept(f, since) ==
  /\ f.live.ticks # 0 => f.live.first >= since
  /\ f.interval.ticks # 0 => f.interval.first >= since
  /\ \A i \in 1 .. Len(f.rolling) : f.rolling[i] >= since

FlickerCarries(f, since, owed) ==
  /\ FlickerKept(f, since)
  /\ ReportedSound(f.records, since, owed)
  /\ "live" \in owed \ Announced(f.records) => f.live.discontinuity
  /\ "interval" \in owed \ Announced(f.records) => f.interval.discontinuity

FlickerInvariant ==
  /\ flicker \in FlickerStates /\ flicker.records = <<>> /\ FlickerBounds(flicker)
  /\ FlickerKept(flicker, track.since)
  /\ "live" \in Owing => flicker.live.discontinuity
  /\ "interval" \in Owing => flicker.interval.discontinuity
  /\ \/ FlickerFresh(flicker)
     \/ external
     \/ flicker.newest # NoFrame /\ track.next = flicker.newest + 1

--------------------------------------------------------------------------------
(* Harmonics: three tiers, each with a mark of its own.                     *)
FamilyReports ==
  [channel : {"three", "ten", "two"}, kind : {"harmonic"}, valid : BOOLEAN,
   first : Int, last : Int, marked : BOOLEAN]
Spectra == [contributors : Nat, generation : Int, first : Int, firstAfter : BOOLEAN]
HarmonicStates ==
  [sequence : Int, expected : Int, target : Int, three : Spectra, ten : Spectra, two : Spectra,
   contaminated : BOOLEAN, records : Seq(FamilyReports)]

HarmonicBounds(h) ==
  /\ h.three.contributors < FamiliesPerAggregate
  /\ h.two.contributors < IntervalsPerTwoHours

HarmonicFresh(h) ==
  /\ h.three.contributors = 0 /\ h.three.firstAfter
  /\ h.ten.contributors = 0 /\ h.ten.firstAfter
  /\ h.two.contributors = 0 /\ h.two.firstAfter

TierCarries(tier, since, owes) ==
  /\ tier.contributors # 0 => tier.first >= since
  /\ owes => tier.firstAfter

HarmonicCarries(h, since, owed) ==
  /\ ReportedSound(h.records, since, owed)
  /\ TierCarries(h.three, since, "three" \in owed \ Announced(h.records))
  /\ TierCarries(h.ten, since, "ten" \in owed \ Announced(h.records))
  /\ TierCarries(h.two, since, "two" \in owed \ Announced(h.records))

HarmonicInvariant ==
  /\ harmonic \in HarmonicStates /\ harmonic.records = <<>> /\ HarmonicBounds(harmonic)
  /\ TierCarries(harmonic.three, track.since, "three" \in Owing)
  /\ TierCarries(harmonic.ten, track.since, "ten" \in Owing)
  /\ TierCarries(harmonic.two, track.since, "two" \in Owing)
  /\ \/ HarmonicFresh(harmonic)
     \/ harmonic.sequence # NoFrame /\ track.next = harmonic.expected

--------------------------------------------------------------------------------
(* The engines together.  The one that runs keeps its invariant and the     *)
(* stream's; the others keep their state, so what is said of every engine's *)
(* own state at all times does not depend on which one runs.               *)
EngineBounds ==
  /\ FlickerBounds(flicker) /\ mains.window.span < WindowBatches
  /\ HarmonicBounds(harmonic) /\ EventRecordsPair

EngineInvariant ==
  /\ engine \in StreamEngines
  /\ StreamTypes /\ StreamOrder /\ ReportedSound(records, track.since, track.owed)
  /\ EngineBounds
  /\ engine = "tiers" => records = <<>>
  /\ engine = "flicker" => FlickerInvariant
  /\ engine = "mains" => MainsInvariant
  /\ engine = "pq" => PqInvariant
  /\ engine = "frequency" => FrequencyInvariant
  /\ engine = "harmonic" => HarmonicInvariant
================================================================================
