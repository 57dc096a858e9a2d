----------------------------- MODULE EngineStreams -----------------------------
(***************************************************************************)
(* The measuring engines of R5C1, each with the stream AGG_VAL feeds it.   *)
(* They share the record ring and nothing else, so one of them runs and    *)
(* the others rest; EnergyDemandEngine runs inside R5AggregationEngine.    *)
(***************************************************************************)
EXTENDS EnergyDemand, HarmonicTiers

VARIABLE engine   \* the engine that runs

StreamEngines == {"tiers", "flicker", "mains", "pq", "frequency", "harmonic"}

streamEngineVars == <<streamVars, flicker, mains, pq, frequencyVars, harmonic>>
engineStreamVars == <<engine, allTierVars, streamEngineVars>>

EngineInit ==
  /\ engine \in StreamEngines
  /\ Init /\ InitEnergy
  /\ InitStream /\ InitFlicker /\ InitMains /\ InitPq /\ InitFrequency
  /\ InitHarmonic

TiersRun == engine = "tiers" /\ TierNext /\ UNCHANGED <<engine, streamEngineVars>>

FlickerRuns ==
  /\ engine = "flicker" /\ FlickerNext
  /\ UNCHANGED <<engine, allTierVars, mains, pq, frequencyVars, harmonic>>

MainsRuns ==
  /\ engine = "mains" /\ MainsNext
  /\ UNCHANGED <<engine, allTierVars, flicker, pq, frequencyVars, harmonic>>

PqRuns ==
  /\ engine = "pq" /\ PqNext
  /\ UNCHANGED <<engine, allTierVars, flicker, mains, frequencyVars, harmonic>>

FrequencyRuns ==
  /\ engine = "frequency" /\ FrequencyNext
  /\ UNCHANGED <<engine, allTierVars, flicker, mains, pq, harmonic>>

HarmonicRuns ==
  /\ engine = "harmonic" /\ HarmonicNext
  /\ UNCHANGED <<engine, allTierVars, flicker, mains, pq, frequencyVars>>

EngineNext ==
  TiersRun \/ FlickerRuns \/ MainsRuns \/ PqRuns \/ FrequencyRuns \/ HarmonicRuns

EngineSpec == EngineInit /\ [][EngineNext]_engineStreamVars
--------------------------------------------------------------------------------
(* The variables have their types, and process() of R5AggregationEngine has *)
(* drained every deferred pass before it gives up with fail(): no pass asks *)
(* for itself or for another one without end.                              *)
StreamTypeOK ==
  /\ kernel.pending \subseteq {Aggregate, TenMinute, TwoHour, OpenTen, OpenTwo}
  /\ passes \in 0 .. MaxDeferredPasses
  /\ kernel.pending # {} => passes < MaxDeferredPasses
  /\ kernel.primary.cycles < met_expected_cycles(kernel.primary.nominal)
  /\ kernel.open.blocks \in 0 .. BlocksPerAggregate - 1
  /\ kernel.openShadow.blocks \in 0 .. BlocksPerAggregate - 1
  /\ kernel.two.intervals \in 0 .. IntervalsPerTwoHour
  /\ Len(demand.buckets) \in 0 .. WindowBuckets
  /\ Len(flicker.rolling) \in 0 .. PltPeriods
  /\ flicker.live.ticks < LiveBatches /\ flicker.interval.ticks < IntervalBatches
  /\ mains.window.span < WindowBatches
  /\ harmonic.three.contributors < FamiliesPerAggregate
  /\ harmonic.two.contributors < IntervalsPerTwoHours

(* No result covers a hole: neither an interval of the aggregation tiers,   *)
(* nor a demand that is called valid, nor a valid flicker or signalling     *)
(* result, nor an event that ended as if it had been followed throughout,   *)
(* reaches across samples that were lost, measured under another           *)
(* configuration or, beyond the Basic block, without a locked frequency.    *)
(* No interval mixes nominal frequencies; a demand may.                     *)
Crosses(r, sample) == r.first < sample /\ sample <= r.last
Unbroken(r) ==
  /\ ~Crosses(r, history.cut)
  /\ r.tier # "basic" => ~(r.first <= history.unlocked /\ history.unlocked <= r.last)

NoResultSpansAGap ==
  /\ output # Nothing => Unbroken(output) /\ ~Crosses(output, history.changed)
  /\ demand.result # Nothing /\ demand.result.valid => Unbroken(demand.result)
  /\ \A i \in DOMAIN records : records[i].valid => records[i].first >= track.since

(* The first record a part of an engine publishes after a loss says that it *)
(* follows one, whichever way the engine learnt of it, and however often    *)
(* the pending discontinuity was taken by another frame before.  The one    *)
(* loss an engine does not learn of is JumpForgotten of MainsWindows.       *)
LossIsMarked ==
  \A i \in DOMAIN records :
    /\ records[i].channel \in track.owed
    /\ \A j \in 1 .. i - 1 : records[j].channel # records[i].channel
    => records[i].marked

(* Blocks that overlap at an UTC mark are not counted twice: the samples of *)
(* a result are those of its span, save in an aggregate that is flagged.    *)
SamplesCountedOnce ==
  /\ output.tier \in {"basic", "ten", "two"} => output.samples = output.last - output.first + 1
  /\ output.tier = "aggregate" =>
       output.overlap \/ output.samples = output.last - output.first + 1

(* Energy that is not called incomplete integrates every sample since it    *)
(* began, and every block in between is either accepted or skipped.         *)
EnergyAccountsForEveryBlock ==
  energy.started =>
    /\ energy.accepted + energy.skipped = energy.last - energy.firstBlock + 1
    /\ energy.incomplete \/ energy.acceptedSamples >= energy.lastSample - energy.first + 1

(* The records tell of exactly the events that are open: each start is      *)
(* followed by one end or abort of the same event, across reconfiguration,  *)
(* loss and repeated frames.                                               *)
EventRecordsPair == \A slot \in Slots : pq.told[slot] = pq.state[slot].id

(* Frequency records are numbered as the observations are, without a hole   *)
(* and without a repetition, until the engine fails.                       *)
FrequencySequenceHasNoHole ==
  engine = "frequency" /\ records # <<>> =>
    /\ published # NoFrame => records[1].sequence = published + 1
    /\ \A i \in 2 .. Len(records) : records[i].sequence = records[i - 1].sequence + 1
================================================================================
