# TLA+ verification of the MSAP1 RPU firmware

The firmware runs on two ARM Cortex-R5 cores under FreeRTOS. **R5C1** owns the
measurement aggregation: complete frames arrive in an AXI FIFO, are validated and
aggregated by six engines, and leave as complete 256-byte records through the
same FIFO. **R5C0** owns the control plane: ADC, metering pipeline, LED, and the
RPMsg requests of Linux. This directory models the parts whose correctness
depends on interleaving, ordering, bounds and failure, checks them with TLC on
small instances, and proves the central results with TLAPS for every instance.

## 1. Inventory

### R5C1, data plane

```
 PL --> AXI FIFO --irq--> AGG_RX(3) --frame ring--> AGG_VAL(1) --record ring--> AGG_TX(2) --> AXI FIFO --> PL
                                                    decoders, six engines
```

The number is the task priority. One core, preemptive: the interrupt preempts
everything, AGG_RX preempts AGG_TX and AGG_VAL, AGG_TX preempts AGG_VAL. The RPMsg
task (4) and the one-shot bootstrap task (5) outrank them all.

| component | state it keeps | operations | what is hard | what makes it correct |
|---|---|---|---|---|
| software rings (`aggregation_frame_ring`, `aggregation_record_ring`) | two free-running 32-bit indices, slots | `try_push`, `try_pop`, `size`, `available_capacity` | two unsynchronised ends, wrapping indices, multi-word elements | a bounded queue; the two ends never share a slot |
| AXI FIFO transport | hardware FIFO, interrupt enable and status, latched errors | `wait_for_frame`, `read`, `write`, `handle_interrupt`, `take_interrupt_errors` | interrupt masked and rearmed around an occupancy check; a notification that coalesces | no sleep on a waiting packet; no error lost |
| shadow service (AGG_RX `run_input`, AGG_VAL `run_validator`) | `input_frame_`, `validator_frame_`, `validator_notification_ticks_` | batch of reads and pushes, notify, drain, dispatch | AGG_RX preempts AGG_VAL everywhere; capacity is read before a read that cannot be undone | every frame processed once and in order, AGG_VAL is neither asleep on work nor starved |
| output service (AGG_TX `run`, `try_enqueue`) | record in hand, fault latch | push and notify; pop, write, retry | push against sleep; transport full or faulty | no record lost once accepted, AGG_VAL never waits, a fault stays visible |
| runtime | three task handles, `started_` | `start`, partial discard, start notifications | task creation fails half-way; initialisation fails after `start` returned | no worker runs before initialisation; all or nothing |
| engines (`r5_aggregation`, `harmonic`, `pq_event_lifecycle`, `flicker`, `mains_signal`, `frequency_10s`, `energy_demand`) | stream position, pending discontinuity, accumulators, `ready_` | `process`, `note_transport_discontinuity`, `configure` | flags set by AGG_RX and consumed by AGG_VAL; gaps, repeats and stale frames; a refused record | a gap is never aggregated over, a failed engine emits no more |
| HLS kernel (`aggregation_engine.cpp`) | tier accumulators, boundaries | one pass per input block | cascade of tiers, UTC boundaries | each interval contains its blocks once |
| health | saturating counters, last sequence | `record_*`, `snapshot` | written by three tasks, read by a fourth | counters say what happened |
| decoders, CRC | none | `decode` | malformed words | reject before exposing a view |
| RPMsg service of R5C1 | none of its own | stage demand profile and power-quality configuration | sequence locks read by AGG_VAL; three engines staged in turn | no torn or half-applied configuration |

The parts interact by calls inside a task, by the two rings between tasks, by
FreeRTOS notifications (counts, taken with clear-on-exit), by atomic words
(`interrupt_errors_`, `validator_notification_ticks_`, discontinuity flags), and
by the two configuration mailboxes.

### R5C0, control plane

| component | state | operations | what is hard |
|---|---|---|---|
| control service (`common/src/control_service.cpp`) | endpoint, sequence counters | validate and dispatch a message, respond, bind and unbind | the remote side resets while a capture runs |
| R5C0 service and handlers | none of its own | capture start and stop, diagnostics, health, simulator events, meter configuration | requests in any order against ADC state |
| meter configuration | none of its own | one transaction over ADC and metering | rollback after partial failure |
| ADC controller, AD7771, simulator | active device, capture state, error state | initialise, configure, capture, recover | switching devices, errors during a capture |
| metering pipeline | applied profile, generation | stage and commit | commit seen by the PL or not |
| LED controller | mode, level, heartbeat count | set mode, heartbeat | heartbeat task against a request |

`PROJECT.json` lists every component with its files and the hazards with their
source lines.

## 2. Plan

Ordered by how much of the system depends on the part. Written so far:

1. `BoundedFifo`, `SpscRing`: the ring and the queue it implements.
2. `AggregationInput`: interrupt, AGG_RX, frame ring, AGG_VAL.
3. `AggregationOutput`: engines, record ring, AGG_TX, transport.
4. `AggregationRuntime`: bootstrap, RPMsg recovery, partial start, initialisation
   order, suspension of AGG_RX.
5. `ProfileRegister`, `DemandProfile`, `StagedConfiguration`: the two sequence locks and
   the staging of three engines, refining atomic registers.
6. `AtomicConfiguration`, `MeterConfig`: the configuration transaction over
   `AdcController` and `MeteringPipeline`, refining an atomic configuration change.
7. `AggregationTiers`, `EnergyDemand`: the tiers of R5AggregationEngine and its kernel,
   and the energy and demand engine that observes them.
8. `FrameStream`, `FlickerIntervals`, `MainsWindows`, `PqEventLifecycle`,
   `FrequencyIntervals`, `HarmonicTiers`: the other engines, each over its own stream of
   frames.
9. `EngineStreams`: all of them under one specification, with the properties they
   have in common.

Which composes which: `SpscRing` implements `BoundedFifo`, which `AggregationInput` and
`AggregationOutput` take for granted. `DemandProfile` instantiates `ProfileRegister` once,
`StagedConfiguration` once per engine. `EngineStreams` extends `EnergyDemand` (over
`AggregationTiers`) and `HarmonicTiers` (over the other four engines and `FrameStream`).
What a full ring does to an engine is in `AggregationOutput`, how a configuration reaches it
in `StagedConfiguration`, what it does with its stream in `EngineStreams`.

Every safety invariant, every action property and every refinement the passing runs check is
also proved; section 5 says how, and what is left to TLC.

## 3. Modules

### BoundedFifo and SpscRing

`BoundedFifo` is what a ring promises: `Push`, `RefusePush`, `Pop`, `FindEmpty` on a
bounded sequence. `SpscRing` is what the code does, one action per shared access:
`BeginPush` is the index loads and the full test of `try_push`, `CopyCountIn` and
`CopyWordsIn` the two field copies, `Publish` the release store; `try_pop` is split
the same way, and the two loads of `size()` are two actions for each end. The
record ring is the same algorithm with an element of one field.

`IndexModulus` is 2^32 in the code and any multiple of the capacity here; the
indices really wrap. `room` is a history variable: the producer saw capacity and
has not pushed since. The refinement maps the queue to `Content`, the slots
between the indices; `Publish` and `Release` are where the calls take effect.

The memory order of the code is acquire and release on one core; accesses are
modelled as sequentially consistent.

### AggregationInput

`hardwareFifo`, `interruptPending` and `receiveEnabled` are the FIFO's registers.
`RearmClear` and `RearmEnable` are the two register accesses of
`rearm_receive_interrupt`; `CheckFrame` and `RecheckFrame` are the occupancy checks
around them; `TakeNotification` and `TakeTimeout` are `ulTaskNotifyTake`. `CollectErrors`
begins an activation, `ReadFrame`, `ReadMalformed` and `PushFrame` are its loop,
`EndBatch` its exit by any of the three guards, `EndActivation` the notification and
the block. `Tick` ends a delay. AGG_VAL's actions carry `RxBlocked`: it has the
processor only while AGG_RX is blocked. Every action of AGG_VAL can be followed by
an interrupt and a whole activation of AGG_RX, which is how AGG_VAL is preempted.
The ring is a sequence here, because `SpscRing` is shown to implement it.

Frames are named by arrival number modulo `IdModulus`, which exceeds the frames
that can be in flight, so a lost, duplicated or swapped frame shows. `InFlight` lists the
frames between the PL and the engines in order.
`discontinuity` stands for the six engines' pending flags: some engine has been
told and has not consumed it; a frame AGG_VAL processes may consume it, leave it (it
belongs to another engine) or, if it does not decode, note one.

Both builds are covered: `Init` chooses whether the interrupt is installed; without
it AGG_RX polls.

### AggregationOutput

AGG_VAL calls `process()` of an engine (`BeginProcess`), which publishes records
(`PublishAccepted` and `NotifyOutput` are the two halves of `try_enqueue`,
`PublishDropped` its refusal together with the engine's reaction). `RecordEngines`
stand for the engines that ask `ready_` before each record; `FamilyEngines` for
the harmonic engine, which drops the result of `emit_family` and goes on to the
10-minute family of the same call (`NextFamily`). AGG_TX is `PopRecord`,
`FindRingEmpty`, `TakeNotification`, the three answers of `write`, and `Tick`.
`TransportChanges` is the outside world: the meter path takes records, holds them
back or faults.

The AXI transport reports `hardware_error` only when it was never initialised;
other implementations of `AggregationTransport` (the host tests have one) fault at
run time, and the service's code for it is what the model follows.

### ProfileRegister, DemandProfile and StagedConfiguration

`ProfileRegister` is what a configuration mailbox promises: `Stage` replaces the
staged configuration, `Adopt` takes the one that is staged at that moment, whole.

`DemandProfile` is the mailbox of the demand profile, one action per atomic
access: `Open`, `StoreWord`, `StoreGeneration`, `Close` are `configure_demand`, `LoadRevision` to
`RecheckAndApply` are `apply_demand_configuration`, which starts every `process()`. `Staged`
maps the mailbox to the register: a change counts from the moment the lock opens,
because from then on no reader can succeed with the old one. The generation wraps
at `GenerationModulus` (2^32 in the code) and skips zero; that it must not come round
to the applied one between two frames is a guard of `Open`.

`StagedConfiguration` is the same for the power-quality configuration: one request
(`Request`) goes through three mailboxes in the order `StagedAfter`, each with its own
lock and `WordCount` words; the reader copies them to `candidate`, retries (`Retry`,
`GiveUp`) and adopts only what has the frame's generation (`Adoptable`). `Commit`, the
PL's change of generation, is external and independent of the staging, so both
orders occur; frames of the earlier generation may still be in the rings.
`Rejected` stands for the comparison of a configuration with the frame's own
parameters and the enable bits of flicker and mains. A word is named by the
configuration it belongs to, so a torn copy shows.

The validity check is the same function in the service and in the engines'
`configure`, so a request never fails between two engines.

### AggregationRuntime

`BeginStart` to `FinishStart` are `AggregationRuntime::start`, one `CreateWorker` per
`xTaskCreate`, `CreationFails` the branch with `discard_partial_start`. It is called by
the bootstrap task (which may not exist: its creation is allowed to fail) and at
every RPMsg endpoint. `PlatformUp` and `RpmsgFails` are `ControlService::run`; how the
platform library waits is not in the repository, and the model takes it that it
blocks. `MayRunRx`, `MayRunTx` and `MayRunVal` are the priorities. `Initialize` to `ReleaseOutput`
are `run_input` up to the service's loop; of the workers' later behaviour
only what sets a health flag or a notification is kept.

### AtomicConfiguration and MeterConfig

R5C0 serves its requests in one task, so a `METER_CONFIG_SET` is never interleaved with
another request. What is hard is partial failure: `apply_meter_config` calls the ADC
controller and the metering pipeline in turn, each call is a long series of hardware
accesses that may fail anywhere, and the rollback consists of the same calls.

`ConfigureAdc` and `ConfigureMeter` are therefore sets of outcomes, one for each place
where the call may end that leaves a different state: registers keep the old
configuration, take the new one, or are `Torn`. They are composed as the code composes
them (`SelectSource` and `PutBack` are the two halves of `AdcController::configure`;
`ApplySimulator` commits the shadow bank and the mux together). The actions are the
calls of the handler: `Request` is the guard and the snapshot, then `ApplyAdc`,
`ApplyMeter`, and on failure `ReapplyAdc`, or `RollBackAdc` and `RollBackMeter`.
`StageProfile`, `StartCapture`, `StopCapture` and `RunDiagnostic` are the other requests
that touch the same state.

A configuration is named by its generation: rate, gains, signal, wiring and thresholds
of one request are one value. The code verifies the operating point, most pipeline
registers and the profile bank by readback, so a call that returns success has written
them all. That APPLY commits the profile bank with the other shadow registers is what
`metering.cpp` (222-224) says of the PL; nothing else is assumed of it. A failed APPLY is
taken as latched or not when the call returns; that it takes effect later still is not
modelled. Nor is a restart of R5C0 alone.

`AtomicConfiguration` is what Linux relies on: with each answer everything is
accepted, or everything is as before, or the outcome is `rollback_failed`; in each case no
profile stays pending. The refinement mapping shows `InForce`, what hardware and records
agree on, between requests, and what was in force at its start during one.

### AggregationTiers

One frame of R5AggregationEngine is one grid cycle. `Process` is `process()` up to and
including the kernel's first invocation: the stale test and the gap (`Stale`,
`HoleBefore`), the context that travels with a cycle (`AdoptMark`, `ApplyConfiguration`),
continuity (`CheckContinuity`), the merge into the primary and the shadow block
(`MergeCycle`) and, when the block is complete, pass 0 (`CloseBlock`: the ten-minute
fold `FoldTen`, the aggregate fold `FoldAggregates`). The deferred passes that the same
call drains are one action each, lowest bit first (`Turn`). Interference comes between:
lost, dropped, repeated and flawed frames, a change of frequency, a configuration, a UTC
mark. The accumulators are replaced by where an interval begins and ends, how many samples
went in and what they were measured with; `history` is auxiliary and remembers the newest
hole, change of frequency and cycle without lock.

The kernel's two block slots and two aggregate slots become `primary`/`shadow` and
`open`/`openShadow`/`closed`. The sample counter is the cycle number times `CycleSamples`.
The toggle of a configuration is its parity, as in the code: two configurations between
two delivered cycles look like none, and the engine then discards cycles until a third.

### EnergyDemand

`Observe` is `EnergyDemandEngine::observe`, called with each family in the step that
publishes it. `AfterBasic` is the energy session with its accounting of skipped blocks,
`AfterAggregate` the sliding window, `AfterTenMinutes` the fixed demand. `ApplyProfile`
replaces the method; how a profile gets there is `DemandProfile`.

### FrameStream and the engines over it

`FrameStream` is what the other engines hear: numbered frames that continue one another in
samples, with losses, jumps, flags, repeats, a reported discontinuity at any time
(`NoteDiscontinuity`) and a configuration that Linux stages and the PL adopts in either
order. `track` is auxiliary: since when the engine has heard every sample, and which of its
channels still owes a mark for a loss.

`FlickerIntervals`, `MainsWindows`, `PqEventLifecycle`, `FrequencyIntervals` and
`HarmonicTiers` have one operator per method, which takes the engine's state to the next
(`FlickerProcess`, `MainsProcess`, `PqProcess`, `FrequencyProcess`, `HarmonicProcess` are the
whole `process()`). The three
phases are one, the outcome of a detector is chosen, a batch is one sample. Of the
detectors there are two: an ordinary one and the rapid voltage change, which is armed by
its first recovered comparison and needs the half cycles before. `ObserveTarget` is
`observe_timing_context` with a new UTC mark; a family whose first sample is off by at most two
ADC samples continues the one before, as `accept_sequence` has it.

The engines share the record ring and nothing else, so `EngineStreams` lets one of them run
per behaviour (`engine`); what they do to each other through the ring is in
`AggregationOutput`.

What a frame may say of itself comes in every combination its decoder accepts: a batch may
carry `batch_discontinuity`, a source drop with it, a jump of its first sample with or
without it, and a malformed, saturated or invalid sample (`BatchFlaws`); half cycles and
harmonic families in the same way (`HalfCycleFlaws`, `HarmonicFlaws`).

`track.owed` holds the channels that owe a mark for a loss. There is one loss that is
not entered: `JumpForgotten`, a jump of the samples in a batch that carries
`batch_discontinuity` and neither a source drop nor a gap of the packet numbers. The mains
engine resets without a mark for the bit, and the reset forgets the last sample, so the
jump is not seen either: a defect of the code (section 6). Every other
loss must be marked. `NoResultSpansAGap` makes no exception.

Taken for granted: a frame with the discontinuity bit and no jump, drop or gap of the numbers
has lost no samples; and the PL sets the bit where it leaves out samples between two half
cycles or two ten-second observations, because the engines of these two compare the frames'
numbers only. A note that comes between an engine's test of its plain flag and its clearing is
lost, which is the behaviour in which it was not given: the properties hold there too,
because the loss shows in the numbers of the next frame.

## 4. Runs

| run | bounds | states | shows |
|---|---|---|---|
| SpscRing | 2 slots, indices modulo 6, 2 frames | 76 000 | no shared slot, sizes within capacity, room stays, refinement of the queue |
| AggregationInput | FIFO of 1, ring of 2, batch of 2, names modulo 6 | 361 000 | order and no loss, both wake-ups, time stamp, every frame and every error gets through |
| AggregationOutput | one engine of each kind, families of 2, ring of 2 | 289 000 | record streams without hole, wake-up, fault visibility, AGG_VAL never waits, drain |
| DemandProfile | 3 profiles, generations 1 to 3, 5 changes | 9 000 | no torn or replaced profile, the staged one is applied |
| StagedConfiguration | 2 configurations of 2 words, 3 requests, 2 attempts | 278 000 | no torn configuration, adopted only with the frame's generation and in the end |
| AggregationRuntime | none: the module has no parameter | 142 | all tasks or none, initialisation first, health flags backed, comes into service |
| MeterConfig | 2 configurations, 3 requests | 1 477 000 | accepted whole, undone whole or reported; configured and captured as reported |
| EngineStreams | 16 cycles or 6 to 14 frames, 2 disturbances each | 911 000 | no result across a hole, losses marked, overlaps counted once, energy accounts for every block, events pair up, frequency numbers have no hole |
| TwoHourCascade | 24 cycles, no disturbance | violation | see section 6 |
| ProfileRollback | 2 configurations, 2 requests | violation | see section 6 |
| HarmonicFailClosed | ring of 1 | violation | see section 6 |
| RpmsgIndependence | none | violation | see section 6 |

Why these bounds are enough. *Ring*: two slots are the smallest number at which
full, empty and in-between differ; six index values let the wrap fall at each
fill level. *Input*: the FIFO and the ring both fill, a batch ends for each of its
reasons (bound, no packet, no slot), packets arrive at each step of AGG_RX. *Output*:
a ring as large as a family can refuse its first or its second record. *Mailboxes*:
two words are the smallest configuration that can be torn, three requests let a
reader meet a write, retry into the next one and give up; five changes take the
generation past its wrap. *Configuration*: three requests are one that is accepted, one that fails and leaves
whatever it leaves, and one that starts from there; the simulator refuses one of the
two configurations, so that refusals before the first write occur. *Runtime*: TLC covers every behaviour.
*Engines*: a block of 2 or 3 cycles, an aggregate of 2 blocks, a ten-minute interval of 9
samples (so that marks fall inside, at the start and at the end of a block), a chain of 2;
flicker settles 1, lives 2, classifies 2 batches and makes a Plt of 2 Pst; events are updated
after 2 half cycles; 2 placeholders; a harmonic spectrum of 2 families, a ten-minute one of 3,
a two-hour one of 2 of those. Every engine has room for two of its longest intervals (two
hours, demand window, Plt, event), with two disturbances of any kind anywhere in them.
`StreamTypeOK` keeps the code's eight deferred passes.

Deadlock is checked except in the two runs of `AggregationRuntime`, where the
pipeline really may stop (RPMsg spins, or the RPMsg task waits and AGG_RX is
suspended), and in `EngineStreams` and `TwoHourCascade`, where a
behaviour ends with the last frame the bound allows.

### Fairness

* `AggregationInput`: weak fairness of the interrupt (it preempts), of the tick,
  and of AGG_RX (the highest of the tasks modelled). AGG_VAL gets strong fairness:
  it is enabled only while AGG_RX is blocked, and the scheduler runs it then. Packets,
  errors and the 100 ms timeout owe nothing: no property needs the timeout.
  `EveryFrameProcessed` additionally assumes that error interrupts stop; each of them
  wakes AGG_RX and an activation without a packet does not block, so a storm would
  starve AGG_VAL.
* `AggregationOutput`: weak fairness of AGG_TX, strong fairness of a call of
  `process()` that has begun (it runs while AGG_TX is blocked; AGG_TX blocks for a
  tick on every answer but success). A call need not begin. `RecordsDrain` assumes
  that the transport takes records for good from some time on.
* `DemandProfile`, `StagedConfiguration`: weak fairness of a write that has begun (RPMsg
  outranks the workers) and of the reader's steps. Frames measured under the present
  generation keep coming (strong fairness of `BeginFrame`, because frames of another
  generation may come in between). No request and no commit is owed.
* `AggregationRuntime`: weak fairness of the running call of `start`, of the platform
  coming up and of the workers' first steps. `StartedComesIntoService` assumes that RPMsg
  does not spin; without the assumption it fails, see section 6.

## 5. Proofs

The modules `*Proofs` prove for every value of the constants, from the
assumptions stated in the modules (positive capacities; the capacity divides the
index range and is smaller; names modulo more than can be in flight; disjoint kinds
of engine; an initial profile that is valid; more than two generations; at least one
word and one attempt):

* **SpscRing**: `TypeOK`, `NoSlotShared`, `SizeWithinCapacity`, `RoomObservationHolds`
  and the refinement `ImplementsFifo`. The inductive invariant `IndexInvariant` says how
  the distance of the indices and each end's place in its call are related: at most
  `Capacity`, less than it while the producer copies, more than zero while the
  consumer copies, and for a `size()` in progress how the loaded index relates to the
  present ones. `NoSlotShared` alone is not inductive: it says nothing about the
  distance that the next push or pop tests. The refinement needs `DataInvariant` in
  addition: the slots between the indices hold whole frames, the slot being filled
  holds the fields already copied, and so does the out-parameter. The arithmetic of
  wrapped indices is in lemmas of its own (`DistanceAfterPublish`, `SlotsDiffer`, ...);
  `SlotsDiffer` is where the capacity must divide 2^32.
* **AggregationInput**: `TypeOK`, `NoLostReceiveWakeup`, `NoLostValidatorWakeup`,
  `StampHasWakeup`, and `PushNeverRefused` (the dropped-frame branch of `run_input` is
  dead). The wake-up properties need `ReceiveArmed`: between the unmasking and the take
  the interrupt is enabled, or the handler has already notified. `NoFrameLost` is the order:
  the frames in AGG_VAL's hands, in the ring, in AGG_RX's hands and in the hardware FIFO
  (`InFlight`) are each the successor of the one before, from the last processed to the last
  accepted. With the types and `BuffersEmpty` (only a task that is about to pass a frame on
  holds one) it is inductive: a task moves one packet across a boundary of the concatenation,
  which leaves `InFlight` as it is.
* **AggregationOutput**: `TypeOK`, `NoLostOutputWakeup`, `FaultVisibleWhileHeld`, from
  `HeldWhileWriting` (AGG_TX owns a record exactly while it writes or waits to) and
  `CallHasEngine`. `NoHoleInRecordStream` is `RecordStreamHasNoHole`: what waits
  of an engine in hand and ring continues what the transport took, number by number. It is
  inductive with `CallMayPublish`: a call that goes on belongs to an engine that is ready,
  and one that was refused a record is not.

* **DemandProfile**: `TypeOK` and the refinement `ImplementsRegister`. The invariant
  `MailboxInvariant` has three parts: the types; `LockInvariant`, that the revision is odd
  exactly while the writer is between `Open` and `Close` and what is already stored; and
  `ReadInvariant`, that a reader whose revision is still the present one has loaded what
  is staged. The last is what makes the recheck enough, and it needs that revisions
  only grow.
* **StagedConfiguration**: `TypeOK`, the refinement `ImplementsRegisters` along the same
  argument, word by word for any number of words, engines taken one at a time, and
  `ReplacedOnlyByFramesOwn`, which needs the refinement's invariant: that the generation
  word fits says nothing of the other words unless the copy is whole.
* **MeterConfig**: `TypeOK` and `ConfiguredIsInForce`, for every set of configurations
  and any number of failures. One lemma per call says that each of its outcomes is
  well formed. `ConfiguredIsInForce` is not inductive: an APPLY commits the profile bank
  whether or not a profile is staged. `PipelineHolds` adds that an active profile is
  always staged again, so the bank holds it. `CapturesAreTrue`
  (`CapturesWhatIsReported`) follows from `AdcInForce`: unless a rollback failed or a
  diagnostic did, the registers, the mux and the simulator's bank hold what the controller
  reports of its active device. `TransactionIsAtomic` is the refinement of `AtomicConfiguration`:
  the steps inside a request stutter, its last one is an `Accept`, `RollBack` or `RollBackFails` of
  the abstract specification.
* **EngineStreams**, in `EngineStreamsProofs`, with the invariants in `EngineInvariants`: for the engines that hear frames,
  `FirstRecordTellsOfLoss` (`LossIsMarked`), `StartsAndEndsPair` (`EventRecordsPair`),
  `FrequencyNumbersContinue` (`FrequencySequenceHasNoHole`), and `EnginesSound`, from which
  their part of `StreamTypeOK` and of `NoResultSpansAGap` follows. The frames carry any combination
  of flags; the one loss left out is `JumpForgotten` of section 3. `EngineInvariant` has a part for
  the stream (`StreamOrder`), one for what the last step published (`ReportedSound`) and one
  for the engine that runs. The part of each engine says the same thing in
  its own terms: everything it has accumulated began no earlier than `track.since`; every
  channel that owes a mark has its pending flag set; and either the engine is empty with its
  flags set (`FlickerFresh`, ...) or its newest frame is the last one without a loss behind it,
  so a loss that nobody reported will show in the numbers of the next frame. `FrequencyStep`,
  `PqStep`, `MainsStep`, `FlickerStep` and `HarmonicStep` prove the steps of one engine each,
  from lemmas per method that list which fields it leaves alone, and one predicate
  per engine (`FlickerCarries`, ...) that its methods preserve. Without
  these flags and numbers `LossIsMarked` is not inductive: it speaks of the records only.

* **AggregationTiers and EnergyDemand**, in the first part of `EngineStreamsProofs`:
  `TiersSound`, and from it, together with `EnginesSound`, `EngineTypes` (`StreamTypeOK`),
  `NoResultCoversAHole` (`NoResultSpansAGap`), `OverlapIsNotCountedTwice`
  (`SamplesCountedOnce`) and `EnergyAccountIsComplete` (`EnergyAccountsForEveryBlock`).
  The properties speak of the last result; `TierInvariant` speaks of everything the kernel
  has accumulated. A block begins behind every hole and every change of
  frequency and ends with the last sample heard (`BlockSound`). A slot or interval lies behind,
  has the samples of its span unless it is flagged, contains no unlocked cycle (`Placed`, `Once`)
  and, unless a gap is pending in `disc`, is either `Current` or `Outdated`: the
  frequency has changed since, the settings differ from those of the open block, and so nothing
  will be added to it. The two-hour chain is only as sound as the ten-minute interval that
  will extend it: a hole contaminates that interval, and a contaminated interval ends the chain
  (`TwoSound`). `PendingSound` is what the deferred passes rely on: the pass bits exclude one
  another as the code sets them, and what each will publish is `Current`. `FeedInOrder`
  ties the next frame's samples to those already heard. For energy, the next block that follows no gap begins
  no later than the last integrated sample ends (`EnergySound`); for demand, no
  hole lies between the oldest and the newest bucket (`DemandSound`). Lemmas per operator
  say which fields it leaves alone; `MergedSound`, `CloseBlockSound` and
  `ProcessSound` take a frame through the kernel, `AggregatePass`, `TenMinutePass`,
  `TwoHourPass` and `PreviewKeeps` the deferred passes. The one assumption besides
  positive lengths is that `process()` allows as many passes as there are kinds of them
  (five; the code allows eight).
* **The two-hour chain**: `OnlyAnOverlapRestartsTwoHours` says how far the finding
  `TwoHourCascade` of section 6 reaches. An aligned ten-minute interval whose settings are
  those of the open chain is added to it, or begins before the chain ends
  (`OnlyAnOverlapBreaksTheChain`); of the three tests of the fold, only
  the one on the first sample can fail then, and only because of an overlap. The
  invariant needs `CascadeSound` for this: the chain always expects the number the next
  interval will have; that interval, unless it is contaminated, has begun no later than the chain ends
  or will begin with a block that does (`ChainReaches`); and while the pass of an interval is
  pending, the block after it has begun by its end or begins there. The property says nothing
  of a contaminated interval, which ends the chain as the code intends: a gap always
  contaminates. It was checked with TLC on 24 cycles with two disturbances first.
* **AggregationRuntime**, which has no constant, so that TLC's run already covers every
  instance; the proof says why it holds. `AllOrNothingHolds` (`AllOrNothing`),
  `NoWorkBeforeInitialisationHolds` (`NoWorkBeforeInitialisation`) and `HealthIsBackedAlways`
  (`HealthIsBacked`) follow from `RuntimeInvariant`. None of the three is inductive:
  `AllOrNothing` says nothing while `start()` runs, and the others nothing of where a worker
  is before its first step. `WorkersAccounted` says which workers exist from how many
  `start()` has created, `NothingBeforeStart` that nobody has moved
  before it returns, and `ReceiverLeads` what the other two workers, the queue and the health
  flags may be for each place of AGG_RX. One lemma per action keeps it.

Only model-checked: liveness (`EveryFrameProcessed`, `EveryErrorNoted`,
`ValidatorNeverWaits`, `RecordsDrain`, `StagedIsApplied`, `StagedIsAdopted`,
`StartedComesIntoService`), which TLAPS does not reach.

## 6. Findings

`HarmonicFailClosed` checks what the comments of `r5_aggregation_engine.cpp` (166-168)
and `aggregation_output_service.cpp` (69-72) say of completed records: none is
silently discarded, an engine whose record is refused fails closed. The harmonic
engine does set `ready_` to false, but `process()` ignores the result of
`emit_family` for the 150/180-cycle family and goes on to the 10-minute family of
the same call; if AGG_TX has freed slots by then, records of the failed engine
follow a hole. The engine's next call returns at once, so at most one family
follows. The record engines do not have this: `RecordStreamHasNoHole` passes.

`RpmsgIndependence` checks what `aggregation_runtime.hpp` (25-26) and
`aggregation/README.md` (63-65) say of the start: it is independent of RPMsg. The
tasks are created independently of it, but `ControlService::run` spins at priority 4
when the platform or the RPMsg device cannot be brought up, also after a later
reset. AGG_RX, at priority 3, never gets the processor then: it does not initialise the
transport, and a running pipeline stops. `StartedComesIntoService` passes once spinning
is excluded.

`ProfileRollback` checks what `meter_config.cpp` (60-62) and `metering.cpp` (427-429) say of
a rollback: the profile that was active is restored. When none was active yet there is
nothing to restore, and the rollback clears only `m18_staged_`. The rejected request has
already written the PL bank, and the APPLY that restores the previous pipeline
configuration commits it: R5C0 reports `ROLLED_BACK` and no profile while the PL holds
the rejected one. It takes an accepted configuration without a profile, then a first
one with a profile that fails in the pipeline; once a profile has been active, the bank
is rewritten in every rollback, and `ConfiguredIsInForce` covers it.

`TwoHourCascade` checks what `aggregation_engine.cpp` (457-459) and `aggregation_engine.hpp`
(55) say of the two-hour tier: it folds twelve complete, aligned ten-minute intervals, and
a closing one adds itself. The interval is closed by the first block that ends at or after
the UTC mark; the next interval begins with the shadow block, which begins with
the first cycle at or after the mark. Unless that cycle is also the first of a block the two
overlap, and the chain's test
`t10m_first_sample != a2h_expected_next_first` (line 1761) fails: the chain starts over at
this interval. No disturbance is needed. The 150/180-cycle tier has a branch for this overlap
(lines 1435-1441), the two-hour tier has not. Dropping the test instead would count the
overlap twice (`SamplesCountedOnce`). The reference tests put their marks on block boundaries.
Between aligned intervals of unchanged settings nothing else breaks the chain: see section 5.

Met while modelling, and kept as the code has them:

* A loss that leaves no mark (`JumpForgotten`). For a batch with `batch_discontinuity` and neither
  a source drop nor a gap of the packet numbers, `process()` of the mains engine calls
  `reset_signal_path(false)` (`mains_signal_engine.cpp` 537-539), which leaves
  `pending_discontinuity_` as it is but clears `have_last_input_sample_` (267). The jump test in
  `process_sample` (337-340) compares with the last sample only if there is one, so a jump in this
  very batch, which the decoder accepts, is not seen, and the next window goes out
  unmarked. The same jump without the bit is marked, and the flicker engine marks both. It is
  no window across the loss: the partial work is discarded. The host test of the engine
  ("sequence/sample gap discards partial work and marks recovery",
  `aggregation_shadow_tests.cpp` 2963) loses a packet number with the samples. No record owes a
  mark for this loss in the model; with `MainsHeard` reduced to `Heard(frame)`, `LossIsMarked` is
  violated in the sixth state. That it holds as it stands shows that nothing else goes
  unmarked.
* After an outage longer than ten minutes the ten-minute tier, and that of the harmonic engine,
  publishes one result per block, each called
  aligned and complete, until the target has caught up; the comment at
  `aggregation_engine.cpp` 1959-1962 counts on the intervals after the first being complete.
* A block that begins exactly at the mark closes the old interval and is part of it. An ineligible block at the mark
  closes nothing, and the next one does, late.
* Energy integrates the samples of overlapping blocks twice; the sliding demand window is
  emptied by the overlap at each mark, and may span a change of nominal frequency, which the
  interval tiers exclude.
* A stale frame of an old generation makes the event engine abort every open event.
* Flicker's `arithmetic_overflow_` is cleared by a reset only: one saturated sample makes every
  later Pst and Plt invalid until the next gap or configuration. The mains engine clears it per
  window.
* The harmonic engine compares a family's configuration with its 150/180-cycle and ten-minute
  tiers only. A change that meets both empty, at a common boundary, leaves the two-hour tier as
  it is, and it takes ten-minute spectra of two configurations (`HarmonicTiers` reaches this,
  unless the PL marks the change as a discontinuity).

## 7. Not modelled

Wire formats, CRC and the contents of records: pure functions under unit test. The
arithmetic of the engines (accumulators, filters, classifier, square roots, percentiles,
spectra): numeric, out of reach of these tools. Telemetry (health counters and snapshot, occupancies, run times, stack
marks): nothing in the pipeline reads it back. RPMsg message validation: a pure check. The
endpoint's life cycle: inside the RPMsg library, seen here as its callbacks. The LED: a level and a
counter that decide nothing. Session identity: a mixing function. Build scripts and linker layout:
no run-time behaviour.
