--------------------------- MODULE AggregationInput ---------------------------
(***************************************************************************)
(* The input half of the R5C1 pipeline: the AXI FIFO and its interrupt     *)
(* (AxiFifoAggregationTransport), the AGG_RX task that moves complete      *)
(* frames into the software ring, and the AGG_VAL task that drains it      *)
(* (AggregationShadowService).  One core, strict priorities: the interrupt *)
(* preempts AGG_RX, AGG_RX preempts AGG_VAL at any of its steps, AGG_VAL   *)
(* runs only while AGG_RX is blocked.  The software ring is the bounded    *)
(* queue of module BoundedFifo, which SpscRing is shown to implement.      *)
(*                                                                         *)
(* A well-formed frame is named by the number it got when the hardware     *)
(* FIFO took it, modulo IdModulus; whether it decodes is not decided here. *)
(***************************************************************************)
EXTENDS Integers, Sequences

CONSTANTS
  HardwareDepth,   \* complete packets the AXI FIFO holds
  RingCapacity,    \* AggregationFrameRing::capacity
  MaximumBatch,    \* scheduler_policy::maximum_input_batch
  IdModulus        \* frame names; more than can be in flight at once

ASSUME DepthAssumption == HardwareDepth \in Nat \ {0}
ASSUME RingAssumption == RingCapacity \in Nat \ {0}
ASSUME BatchAssumption == MaximumBatch \in Nat \ {0}
ASSUME IdAssumption ==
  /\ IdModulus \in Nat
  /\ IdModulus > HardwareDepth + RingCapacity + 2

VARIABLES
  hardwareFifo,       \* packets in the AXI FIFO, oldest first
  interruptPending,   \* the FIFO's interrupt status register
  receiveEnabled,     \* the receive-complete bit of its interrupt enable register
  interruptEnabled,   \* interrupt_enabled_: the handler is installed
  latchedErrors,      \* interrupt_errors_ is not zero
  inputNotified,      \* AGG_RX's notification value is not zero
  rxAt,               \* where AGG_RX stands in run_input or wait_for_frame
  rxFrame,            \* input_frame_
  processed,          \* packets taken in this activation
  queued,             \* frames pushed in this activation
  ring,               \* the frame ring
  discontinuity,      \* note_transport_discontinuity() called, not yet consumed by an engine
  validatorNotified,  \* AGG_VAL's notification value is not zero
  notificationTicks,  \* validator_notification_ticks_ is not zero
  valAt,              \* where AGG_VAL stands in run_validator
  validatorFrame,     \* validator_frame_
  lastAccepted,       \* name of the last well-formed frame the hardware FIFO took
  lastProcessed       \* name of the last frame AGG_VAL handed to decoder and engines

hardwareVars == <<hardwareFifo, interruptPending>>
interruptVars == <<receiveEnabled, interruptEnabled, latchedErrors>>
rxVars == <<rxAt, rxFrame, processed, queued>>
valVars == <<valAt, validatorFrame, lastProcessed>>
wakeVars == <<validatorNotified, notificationTicks>>
vars == <<hardwareVars, interruptVars, inputNotified, rxVars, ring, discontinuity,
          wakeVars, valVars, lastAccepted>>

Ids == 0 .. IdModulus - 1
NoFrame == -1      \* an empty frame buffer
Malformed == -2    \* a packet whose length read() refuses

TypeOK ==
  /\ hardwareFifo \in Seq(Ids \cup {Malformed})
  /\ Len(hardwareFifo) <= HardwareDepth
  /\ interruptPending \in SUBSET {"receive", "error", "full"}
  /\ receiveEnabled \in BOOLEAN
  /\ interruptEnabled \in BOOLEAN
  /\ latchedErrors \in BOOLEAN
  /\ inputNotified \in BOOLEAN
  /\ rxAt \in {"check", "clear", "enable", "recheck", "take", "poll", "collect",
               "loop", "push", "notify", "delay"}
  /\ rxFrame \in Ids \cup {NoFrame}
  /\ processed \in 0 .. MaximumBatch
  /\ queued \in 0 .. MaximumBatch
  /\ ring \in Seq(Ids)
  /\ Len(ring) <= RingCapacity
  /\ discontinuity \in BOOLEAN
  /\ validatorNotified \in BOOLEAN
  /\ notificationTicks \in BOOLEAN
  /\ valAt \in {"take", "exchange", "pop", "process"}
  /\ validatorFrame \in Ids \cup {NoFrame}
  /\ lastAccepted \in Ids
  /\ lastProcessed \in Ids

(* The transport initialised by AGG_RX before its loop: FIFO reset, all    *)
(* interrupts cleared and, with a handler installed, enabled.  Without one *)
(* (builds that do not require the interrupt) AGG_RX polls.                *)
Init ==
  /\ hardwareFifo = <<>>
  /\ interruptPending = {}
  /\ interruptEnabled \in BOOLEAN
  /\ receiveEnabled = interruptEnabled
  /\ latchedErrors = FALSE
  /\ inputNotified = FALSE
  /\ rxAt = "check"
  /\ rxFrame = NoFrame
  /\ processed = 0
  /\ queued = 0
  /\ ring = <<>>
  /\ discontinuity = FALSE
  /\ validatorNotified = FALSE
  /\ notificationTicks = FALSE
  /\ valAt = "take"
  /\ validatorFrame = NoFrame
  /\ lastAccepted = 0
  /\ lastProcessed = 0

RingFullOffByOne == Len(ring) > RingCapacity
RingFull == Len(ring) >= RingCapacity
FrameAvailable == hardwareFifo # <<>>

-----------------------------------------------------------------------------
(* The FIFO hardware.  A packet that does not fit is discarded upstream.   *)

Arrive(packet) ==
  /\ Len(hardwareFifo) < HardwareDepth
  /\ hardwareFifo' = Append(hardwareFifo, packet)
  /\ interruptPending' = interruptPending \cup {"receive"}
       \cup (IF Len(hardwareFifo) + 1 = HardwareDepth THEN {"full"} ELSE {})
  /\ UNCHANGED <<interruptVars, inputNotified, rxVars, ring, discontinuity, wakeVars, valVars>>

Successor(id) == (id + 1) % IdModulus

ArriveWellFormed ==
  /\ Arrive(Successor(lastAccepted))
  /\ lastAccepted' = Successor(lastAccepted)

ArriveMalformed ==
  /\ Arrive(Malformed)
  /\ UNCHANGED lastAccepted

RaiseError ==
  /\ interruptPending' = interruptPending \cup {"error"}
  /\ UNCHANGED <<hardwareFifo, interruptVars, inputNotified, rxVars, ring, discontinuity,
                 wakeVars, valVars, lastAccepted>>

-----------------------------------------------------------------------------
(* handle_interrupt: latch errors, mask and acknowledge receive-complete,  *)
(* wake AGG_RX.  Input pressure only adds to a health count and wakes it.  *)

Interrupting ==
  (interruptPending \cap {"error", "full"})
    \cup (IF receiveEnabled THEN interruptPending \cap {"receive"} ELSE {})

HandleInterruptWithoutWake ==
  /\ interruptEnabled
  /\ Interrupting # {}
  /\ latchedErrors' = (latchedErrors \/ "error" \in Interrupting)
  /\ receiveEnabled' = (receiveEnabled /\ "receive" \notin Interrupting)
  /\ interruptPending' = interruptPending \ Interrupting
  /\ inputNotified' = (inputNotified \/ "receive" \in Interrupting)
  /\ UNCHANGED <<hardwareFifo, interruptEnabled, rxVars, ring, discontinuity, wakeVars,
                 valVars, lastAccepted>>

HandleInterrupt ==
  /\ interruptEnabled
  /\ Interrupting # {}
  /\ latchedErrors' = (latchedErrors \/ "error" \in Interrupting)
  /\ receiveEnabled' = (receiveEnabled /\ "receive" \notin Interrupting)
  /\ interruptPending' = interruptPending \ Interrupting
  /\ inputNotified' = TRUE
  /\ UNCHANGED <<hardwareFifo, interruptEnabled, rxVars, ring, discontinuity, wakeVars,
                 valVars, lastAccepted>>

-----------------------------------------------------------------------------
(* wait_for_frame *)

RxGoto(from, to) ==
  /\ rxAt = from
  /\ rxAt' = to
  /\ UNCHANGED <<rxFrame, processed, queued>>

CheckFrame ==
  /\ \/ FrameAvailable /\ RxGoto("check", "collect")
     \/ ~FrameAvailable /\ interruptEnabled /\ RxGoto("check", "clear")
     \/ ~FrameAvailable /\ ~interruptEnabled /\ RxGoto("check", "poll")
  /\ UNCHANGED <<hardwareVars, interruptVars, inputNotified, ring, discontinuity, wakeVars,
                 valVars, lastAccepted>>

(* rearm_receive_interrupt, first access: clear what is pending. *)
RearmClear ==
  /\ RxGoto("clear", "enable")
  /\ interruptPending' = interruptPending \ {"receive"}
  /\ UNCHANGED <<hardwareFifo, interruptVars, inputNotified, ring, discontinuity, wakeVars,
                 valVars, lastAccepted>>

(* rearm_receive_interrupt, second access: unmask. *)
RearmEnable ==
  /\ RxGoto("enable", "recheck")
  /\ receiveEnabled' = TRUE
  /\ UNCHANGED <<hardwareVars, interruptEnabled, latchedErrors, inputNotified, ring, discontinuity,
                 wakeVars, valVars, lastAccepted>>

(* The wait without the second occupancy check. *)
RecheckSkipped ==
  /\ RxGoto("recheck", "take")
  /\ UNCHANGED <<hardwareVars, interruptVars, inputNotified, ring, discontinuity, wakeVars,
                 valVars, lastAccepted>>

RecheckFrame ==
  /\ RxGoto("recheck", IF FrameAvailable THEN "collect" ELSE "take")
  /\ UNCHANGED <<hardwareVars, interruptVars, inputNotified, ring, discontinuity, wakeVars,
                 valVars, lastAccepted>>

(* ulTaskNotifyTake(pdTRUE, timeout) returns with a notification ... *)
TakeNotification ==
  /\ inputNotified
  /\ RxGoto("take", "collect")
  /\ inputNotified' = FALSE
  /\ UNCHANGED <<hardwareVars, interruptVars, ring, discontinuity, wakeVars, valVars,
                 lastAccepted>>

(* ... or after the timeout. *)
TakeTimeout ==
  /\ ~inputNotified
  /\ RxGoto("take", "collect")
  /\ UNCHANGED <<hardwareVars, interruptVars, inputNotified, ring, discontinuity, wakeVars,
                 valVars, lastAccepted>>

-----------------------------------------------------------------------------
(* run_input *)

(* record_transport_errors and the start of an activation. *)
CollectErrors ==
  /\ rxAt = "collect"
  /\ rxAt' = "loop"
  /\ processed' = 0
  /\ queued' = 0
  /\ discontinuity' = (discontinuity \/ latchedErrors)
  /\ latchedErrors' = FALSE
  /\ UNCHANGED <<hardwareVars, receiveEnabled, interruptEnabled, inputNotified, rxFrame, ring,
                 wakeVars, valVars, lastAccepted>>

(* The loop ends: batch bound, no packet, or no ring slot for one. *)
MayReadIntoFullRing == processed < MaximumBatch /\ FrameAvailable
MayRead == processed < MaximumBatch /\ FrameAvailable /\ ~RingFull

EndBatch ==
  /\ ~MayRead
  /\ RxGoto("loop", "notify")
  /\ UNCHANGED <<hardwareVars, interruptVars, inputNotified, ring, discontinuity, wakeVars,
                 valVars, lastAccepted>>

(* read(): a complete frame is now held by AGG_RX alone. *)
ReadFrame ==
  /\ rxAt = "loop"
  /\ MayRead
  /\ Head(hardwareFifo) # Malformed
  /\ hardwareFifo' = Tail(hardwareFifo)
  /\ rxFrame' = Head(hardwareFifo)
  /\ processed' = processed + 1
  /\ rxAt' = "push"
  /\ UNCHANGED <<interruptPending, interruptVars, inputNotified, queued, ring, discontinuity,
                 wakeVars, valVars, lastAccepted>>

(* read(): the packet is drained whole and every engine told. *)
ReadMalformed ==
  /\ rxAt = "loop"
  /\ MayRead
  /\ Head(hardwareFifo) = Malformed
  /\ hardwareFifo' = Tail(hardwareFifo)
  /\ processed' = processed + 1
  /\ discontinuity' = TRUE
  /\ UNCHANGED <<interruptPending, interruptVars, inputNotified, rxAt, rxFrame, queued, ring,
                 wakeVars, valVars, lastAccepted>>

(* try_push; a refused frame is lost and noted. *)
PushFrame ==
  /\ rxAt = "push"
  /\ rxAt' = "loop"
  /\ rxFrame' = NoFrame
  /\ IF RingFull
     THEN /\ discontinuity' = TRUE
          /\ UNCHANGED <<ring, queued>>
     ELSE /\ ring' = Append(ring, rxFrame)
          /\ queued' = queued + 1
          /\ UNCHANGED discontinuity
  /\ UNCHANGED <<hardwareVars, interruptVars, inputNotified, processed, wakeVars, valVars,
                 lastAccepted>>

(* notify_validator: the compare-exchange on the time stamp, then the give; *)
(* nothing that touches either can run in between.                         *)
NotifyNeededOnlyWhenFull == RingFull
NotifyNeeded == queued # 0 \/ RingFull
DelayNever == FALSE
DelayNeeded == processed # 0 \/ RingFull

EndActivationAlwaysStamped ==
  /\ rxAt = "notify"
  /\ rxAt' = IF DelayNeeded THEN "delay" ELSE "check"
  /\ validatorNotified' = (validatorNotified \/ NotifyNeeded)
  /\ notificationTicks' = TRUE
  /\ processed' = 0
  /\ queued' = 0
  /\ UNCHANGED <<hardwareVars, interruptVars, inputNotified, rxFrame, ring, discontinuity,
                 valVars, lastAccepted>>

EndActivation ==
  /\ rxAt = "notify"
  /\ rxAt' = IF DelayNeeded THEN "delay" ELSE "check"
  /\ validatorNotified' = (validatorNotified \/ NotifyNeeded)
  /\ notificationTicks' = (notificationTicks \/ NotifyNeeded)
  /\ processed' = 0
  /\ queued' = 0
  /\ UNCHANGED <<hardwareVars, interruptVars, inputNotified, rxFrame, ring, discontinuity,
                 valVars, lastAccepted>>

(* The tick that ends vTaskDelay(validator_handoff_delay()) or a poll.     *)
Tick ==
  /\ \/ RxGoto("delay", "check")
     \/ RxGoto("poll", "collect")
  /\ UNCHANGED <<hardwareVars, interruptVars, inputNotified, ring, discontinuity, wakeVars,
                 valVars, lastAccepted>>

-----------------------------------------------------------------------------
(* run_validator.  AGG_VAL has the processor only while AGG_RX is blocked. *)

RxBlocked == rxAt \in {"delay", "poll"} \/ (rxAt = "take" /\ ~inputNotified)

ValidatorWakes ==
  /\ RxBlocked
  /\ valAt = "take"
  /\ validatorNotified
  /\ validatorNotified' = FALSE
  /\ valAt' = "exchange"
  /\ UNCHANGED <<hardwareVars, interruptVars, inputNotified, rxVars, ring, discontinuity,
                 notificationTicks, validatorFrame, lastProcessed, lastAccepted>>

ExchangeTicks ==
  /\ RxBlocked
  /\ valAt = "exchange"
  /\ notificationTicks' = FALSE
  /\ valAt' = "pop"
  /\ UNCHANGED <<hardwareVars, interruptVars, inputNotified, rxVars, ring, discontinuity,
                 validatorNotified, validatorFrame, lastProcessed, lastAccepted>>

PopFrame ==
  /\ RxBlocked
  /\ valAt = "pop"
  /\ ring # <<>>
  /\ validatorFrame' = Head(ring)
  /\ ring' = Tail(ring)
  /\ valAt' = "process"
  /\ UNCHANGED <<hardwareVars, interruptVars, inputNotified, rxVars, discontinuity, wakeVars,
                 lastProcessed, lastAccepted>>

RingDrained ==
  /\ RxBlocked
  /\ valAt = "pop"
  /\ ring = <<>>
  /\ valAt' = "take"
  /\ UNCHANGED <<hardwareVars, interruptVars, inputNotified, rxVars, ring, discontinuity,
                 wakeVars, validatorFrame, lastProcessed, lastAccepted>>

(* Decode and dispatch: a frame that does not decode notes a discontinuity, *)
(* one that does reaches an engine, which consumes what was noted for it.   *)
ProcessFrame ==
  /\ RxBlocked
  /\ valAt = "process"
  /\ lastProcessed' = validatorFrame
  /\ validatorFrame' = NoFrame
  /\ discontinuity' \in BOOLEAN
  /\ valAt' = "pop"
  /\ UNCHANGED <<hardwareVars, interruptVars, inputNotified, rxVars, ring, wakeVars,
                 lastAccepted>>

-----------------------------------------------------------------------------
Hardware == ArriveWellFormed \/ ArriveMalformed \/ RaiseError

Rx ==
  \/ CheckFrame \/ RearmClear \/ RearmEnable \/ RecheckFrame \/ TakeNotification
  \/ CollectErrors \/ EndBatch \/ ReadFrame \/ ReadMalformed \/ PushFrame \/ EndActivation

Validator == ValidatorWakes \/ ExchangeTicks \/ PopFrame \/ RingDrained \/ ProcessFrame

Next == Hardware \/ HandleInterrupt \/ Rx \/ TakeTimeout \/ Tick \/ Validator

(* The interrupt is taken, the timer ticks, AGG_RX runs when it can.       *)
(* AGG_VAL is only enabled while AGG_RX is blocked, so it needs strong     *)
(* fairness: when AGG_RX blocks again and again, AGG_VAL gets some of that *)
(* time.  The hardware and the timeout owe nothing.                        *)
Fairness ==
  /\ WF_vars(HandleInterrupt)
  /\ WF_vars(Tick)
  /\ WF_vars(Rx)
  /\ SF_vars(Validator)

Spec == Init /\ [][Next]_vars /\ Fairness

-----------------------------------------------------------------------------
Held(frame) == IF frame = NoFrame THEN <<>> ELSE <<frame>>

(* The packets between the hardware FIFO and the engines, oldest first.    *)
InFlight == Held(validatorFrame) \o ring \o Held(rxFrame) \o hardwareFifo

(* The last frame among the first n packets, or the last one processed if   *)
(* all of them are malformed.                                              *)
Latest(n, id) ==
  \/ \E j \in 1 .. n : InFlight[j] = id /\ \A k \in j + 1 .. n : InFlight[k] = Malformed
  \/ id = lastProcessed /\ \A k \in 1 .. n : InFlight[k] = Malformed

(* A well-formed frame the FIFO took is processed once and in order: the   *)
(* frames in flight are exactly the ones accepted since the last processed *)
(* one, in their order, wherever they are and however the tasks interleave. *)
NoFrameLostOrReordered ==
  /\ \A i \in DOMAIN InFlight :
       InFlight[i] # Malformed => \E id \in Ids : Latest(i - 1, id) /\ InFlight[i] = Successor(id)
  /\ Latest(Len(InFlight), lastAccepted)

(* The masked receive interrupt and the second occupancy check leave no    *)
(* window: AGG_RX never sleeps on a packet that no interrupt will announce. *)
NoLostReceiveWakeup ==
  (rxAt = "take" /\ FrameAvailable) =>
     \/ inputNotified
     \/ interruptEnabled /\ receiveEnabled /\ "receive" \in interruptPending

(* AGG_VAL never sleeps on a queued frame unless AGG_RX is still in the    *)
(* activation that will announce it.                                       *)
NoLostValidatorWakeup ==
  (valAt = "take" /\ ring # <<>>) => validatorNotified \/ queued # 0

(* A time stamp left in validator_notification_ticks_ belongs to a wake-up *)
(* AGG_VAL has yet to serve, so the schedule gap it reports starts there.  *)
StampHasWakeup == notificationTicks => validatorNotified \/ valAt = "exchange"

(* AGG_RX's bounded batches and its one-tick block let AGG_VAL through,    *)
(* however fast packets arrive: with frames in flight AGG_VAL takes one in *)
(* hand again and again, and by NoFrameLostOrReordered it is the oldest.   *)
(* Error interrupts must stop: each one wakes AGG_RX, and an activation    *)
(* that moves no packet does not block.                                    *)
EveryFrameProcessed ==
  <>[]("error" \notin interruptPending) =>
     /\ (\E i \in DOMAIN InFlight : InFlight[i] # Malformed) ~> (validatorFrame # NoFrame)
     /\ (validatorFrame # NoFrame) ~> (validatorFrame = NoFrame)

(* A FIFO error the interrupt can see reaches the engines.                 *)
EveryErrorNoted ==
  (interruptEnabled /\ "error" \in interruptPending) ~> discontinuity

=============================================================================
