------------------------ MODULE AggregationInputProofs ------------------------
(***************************************************************************)
(* Proofs about AggregationInput for every FIFO depth, ring capacity and   *)
(* batch bound: types, the three wake-up protocols between interrupt,      *)
(* AGG_RX and AGG_VAL, and the line of frames that passes through them.    *)
(***************************************************************************)
EXTENDS AggregationInput, TLAPS

(* A frame buffer holds a frame while its owner is about to use it.        *)
BuffersFull ==
  /\ rxAt = "push" => rxFrame \in Ids
  /\ valAt = "process" => validatorFrame \in Ids

(* Every frame pushed in this activation was taken in this activation, and *)
(* both counts are zero outside one.                                       *)
ActivationCounts ==
  /\ queued <= processed
  /\ rxAt = "push" => queued < processed
  /\ rxAt \notin {"loop", "push", "notify"} => queued = 0

(* The slot AGG_RX saw before it read the packet is still there: only it   *)
(* fills the ring.                                                         *)
PushNeverRefused == rxAt = "push" => ~RingFull

InputTypes == TypeOK /\ BuffersFull /\ ActivationCounts /\ PushNeverRefused

(* While AGG_RX rechecks and sleeps the receive interrupt is unmasked, or  *)
(* the handler that masked it has already given the notification; and it   *)
(* only sleeps where a handler is installed.                               *)
ReceiveArmed ==
  /\ rxAt \in {"recheck", "take"} => receiveEnabled \/ inputNotified
  /\ rxAt \in {"clear", "enable", "recheck", "take"} => interruptEnabled

WakeInvariant ==
  /\ InputTypes
  /\ ReceiveArmed
  /\ NoLostReceiveWakeup
  /\ NoLostValidatorWakeup
  /\ StampHasWakeup

-----------------------------------------------------------------------------
(* Frame names wrap inside their range.                                    *)
LEMMA NextId ==
  ASSUME NEW i \in Ids
  PROVE  (i + 1) % IdModulus \in Ids
  BY IdAssumption, DepthAssumption, RingAssumption, SMTT(20) DEF Ids

(* Length and range of the queues after the operations used on them.       *)
LEMMA QueueOperations ==
  ASSUME NEW S, NEW q \in Seq(S)
  PROVE  /\ Len(q) \in Nat
         /\ \A e \in S : Append(q, e) \in Seq(S) /\ Len(Append(q, e)) = Len(q) + 1
         /\ q # <<>> => /\ Head(q) \in S
                        /\ Tail(q) \in Seq(S)
                        /\ Len(Tail(q)) = Len(q) - 1
  OBVIOUS

(* The reset FIFO and the empty ring.                                      *)
LEMMA InitialTypes == Init => InputTypes
<1> SUFFICES ASSUME Init PROVE InputTypes
  OBVIOUS
<1>1. 0 \in Ids
  BY IdAssumption, DepthAssumption, RingAssumption, SMTT(20) DEF Ids
<1>2. hardwareFifo \in Seq(Ids \cup {Malformed}) /\ ring \in Seq(Ids)
  BY DEF Init
<1>3. Len(hardwareFifo) <= HardwareDepth /\ Len(ring) <= RingCapacity
  BY DepthAssumption, RingAssumption DEF Init
<1>4. /\ interruptEnabled \in BOOLEAN /\ receiveEnabled \in BOOLEAN
      /\ latchedErrors \in BOOLEAN /\ inputNotified \in BOOLEAN
      /\ discontinuity \in BOOLEAN /\ validatorNotified \in BOOLEAN
      /\ notificationTicks \in BOOLEAN
      /\ interruptPending \in SUBSET {"receive", "error", "full"}
  BY Zenon DEF Init
<1>5. TypeOK
  BY <1>1, <1>2, <1>3, <1>4, BatchAssumption DEF Init, TypeOK
<1> QED
  BY <1>5 DEF Init, InputTypes, BuffersFull, ActivationCounts, PushNeverRefused

(* No step of hardware, interrupt or task leaves the types or the counts.  *)
LEMMA InputTypesStep == InputTypes /\ [Next]_vars => InputTypes'
<1> SUFFICES ASSUME InputTypes, [Next]_vars PROVE InputTypes'
  OBVIOUS
<1>1. TypeOK /\ BuffersFull /\ ActivationCounts /\ PushNeverRefused
  BY DEF InputTypes
<1>2. CASE ArriveWellFormed
  <2>1. Successor(lastAccepted) \in Ids
    BY <1>1, NextId DEF TypeOK, Successor
  <2> QED
    BY <1>1, <1>2, <2>1, QueueOperations, DepthAssumption
       DEF ArriveWellFormed, Arrive, TypeOK, BuffersFull, ActivationCounts, PushNeverRefused, InputTypes,
           RingFull, interruptVars, rxVars, wakeVars, valVars
<1>3. CASE ArriveMalformed
  BY <1>1, <1>3, QueueOperations, DepthAssumption
     DEF ArriveMalformed, Arrive, TypeOK, BuffersFull, ActivationCounts, PushNeverRefused, InputTypes,
         RingFull, interruptVars, rxVars, wakeVars, valVars
<1>4. CASE RaiseError \/ HandleInterrupt
  <2>1. /\ interruptPending' \in SUBSET {"receive", "error", "full"}
        /\ receiveEnabled' \in BOOLEAN /\ latchedErrors' \in BOOLEAN
        /\ inputNotified' \in BOOLEAN
    BY <1>1, <1>4, Zenon DEF RaiseError, HandleInterrupt, TypeOK, interruptVars
  <2>2. UNCHANGED <<hardwareFifo, interruptEnabled, rxVars, ring, discontinuity, wakeVars, valVars,
                    lastAccepted>>
    BY <1>4 DEF RaiseError, HandleInterrupt, interruptVars
  <2> QED
    BY <1>1, <2>1, <2>2
       DEF TypeOK, BuffersFull, ActivationCounts, PushNeverRefused, InputTypes, RingFull, rxVars,
           wakeVars, valVars
<1>5. CASE CheckFrame \/ RearmClear \/ RearmEnable \/ RecheckFrame \/ TakeNotification
           \/ TakeTimeout \/ EndBatch \/ Tick
  <2>1. /\ rxAt # "push" /\ rxAt' \in {"check", "clear", "enable", "recheck", "take", "poll",
                                      "collect", "notify"}
        /\ rxAt \notin {"loop", "push", "notify"} \/ rxAt' = "notify"
    BY <1>5
       DEF CheckFrame, RearmClear, RearmEnable, RecheckFrame, TakeNotification, TakeTimeout,
           EndBatch, Tick, RxGoto
  <2>2. UNCHANGED <<rxFrame, processed, queued, ring, discontinuity, wakeVars, valVars,
                    lastAccepted, hardwareFifo, interruptEnabled, latchedErrors>>
    BY <1>5
       DEF CheckFrame, RearmClear, RearmEnable, RecheckFrame, TakeNotification, TakeTimeout,
           EndBatch, Tick, RxGoto, hardwareVars, interruptVars
  <2>3. /\ interruptPending' \in SUBSET {"receive", "error", "full"}
        /\ receiveEnabled' \in BOOLEAN
        /\ inputNotified' \in BOOLEAN
    BY <1>1, <1>5
       DEF CheckFrame, RearmClear, RearmEnable, RecheckFrame, TakeNotification, TakeTimeout,
           EndBatch, Tick, RxGoto, hardwareVars, interruptVars, TypeOK
  <2> QED
    BY <1>1, <2>1, <2>2, <2>3
       DEF TypeOK, BuffersFull, ActivationCounts, PushNeverRefused, InputTypes, wakeVars, valVars
<1>6. CASE CollectErrors
  <2>1. discontinuity' \in BOOLEAN /\ latchedErrors' \in BOOLEAN
    BY <1>6, Zenon DEF CollectErrors
  <2> QED
    BY <1>1, <1>6, <2>1, BatchAssumption
       DEF CollectErrors, TypeOK, BuffersFull, ActivationCounts, PushNeverRefused, InputTypes,
           hardwareVars, wakeVars, valVars
<1>7. CASE ReadFrame
  <2>1. Head(hardwareFifo) \in Ids /\ Tail(hardwareFifo) \in Seq(Ids \cup {Malformed})
        /\ Len(Tail(hardwareFifo)) <= HardwareDepth
    BY <1>1, <1>7, QueueOperations, DepthAssumption DEF ReadFrame, MayRead, FrameAvailable, TypeOK
  <2>2. processed + 1 \in 0 .. MaximumBatch
    BY <1>1, <1>7, BatchAssumption DEF ReadFrame, MayRead, TypeOK
  <2> QED
    BY <1>1, <1>7, <2>1, <2>2, BatchAssumption
       DEF ReadFrame, MayRead, TypeOK, BuffersFull, ActivationCounts, PushNeverRefused,
           InputTypes, RingFull, interruptVars, wakeVars, valVars
<1>8. CASE ReadMalformed
  <2>1. Tail(hardwareFifo) \in Seq(Ids \cup {Malformed}) /\ Len(Tail(hardwareFifo)) <= HardwareDepth
    BY <1>1, <1>8, QueueOperations, DepthAssumption DEF ReadMalformed, MayRead, FrameAvailable, TypeOK
  <2>2. processed + 1 \in 0 .. MaximumBatch
    BY <1>1, <1>8, BatchAssumption DEF ReadMalformed, MayRead, TypeOK
  <2> QED
    BY <1>1, <1>8, <2>1, <2>2, BatchAssumption
       DEF ReadMalformed, MayRead, TypeOK, BuffersFull, ActivationCounts, PushNeverRefused, InputTypes,
           RingFull, interruptVars, wakeVars, valVars
<1>9. CASE PushFrame
  <2>1. rxFrame \in Ids /\ ~RingFull /\ queued < processed
    BY <1>1, <1>9 DEF PushFrame, BuffersFull, PushNeverRefused, ActivationCounts
  <2>2. ring' \in Seq(Ids) /\ Len(ring') <= RingCapacity
    BY <1>1, <1>9, <2>1, QueueOperations, RingAssumption DEF PushFrame, TypeOK, RingFull
  <2> QED
    BY <1>1, <1>9, <2>1, <2>2, BatchAssumption
       DEF PushFrame, TypeOK, BuffersFull, ActivationCounts, PushNeverRefused, InputTypes, hardwareVars,
           interruptVars, wakeVars, valVars
<1>10. CASE EndActivation
  <2>1. validatorNotified' \in BOOLEAN /\ notificationTicks' \in BOOLEAN
    BY <1>10, Zenon DEF EndActivation
  <2>2. rxAt' \in {"delay", "check"}
    BY <1>10 DEF EndActivation
  <2>3. UNCHANGED <<hardwareVars, interruptVars, inputNotified, rxFrame, ring, discontinuity,
                    valVars, lastAccepted>> /\ processed' = 0 /\ queued' = 0
    BY <1>10 DEF EndActivation
  <2> QED
    BY <1>1, <2>1, <2>2, <2>3, BatchAssumption
       DEF TypeOK, BuffersFull, ActivationCounts, PushNeverRefused, InputTypes, hardwareVars,
           interruptVars, valVars
<1>11. CASE ValidatorWakes \/ ExchangeTicks \/ RingDrained \/ ProcessFrame
  <2>1. /\ validatorNotified' \in BOOLEAN /\ notificationTicks' \in BOOLEAN
        /\ discontinuity' \in BOOLEAN
        /\ valAt' \in {"take", "exchange", "pop"}
    BY <1>1, <1>11
       DEF ValidatorWakes, ExchangeTicks, RingDrained, ProcessFrame, TypeOK, wakeVars
  <2>2. validatorFrame' \in Ids \cup {NoFrame} /\ lastProcessed' \in Ids
    BY <1>1, <1>11
       DEF ValidatorWakes, ExchangeTicks, RingDrained, ProcessFrame, TypeOK, BuffersFull
  <2>3. UNCHANGED <<hardwareVars, interruptVars, inputNotified, rxVars, ring, lastAccepted>>
    BY <1>11 DEF ValidatorWakes, ExchangeTicks, RingDrained, ProcessFrame
  <2> QED
    BY <1>1, <2>1, <2>2, <2>3
       DEF TypeOK, BuffersFull, ActivationCounts, PushNeverRefused, InputTypes, RingFull,
           hardwareVars, interruptVars, rxVars
<1>12. CASE PopFrame
  <2>1. Head(ring) \in Ids /\ Tail(ring) \in Seq(Ids) /\ Len(Tail(ring)) <= Len(ring)
    BY <1>1, <1>12, QueueOperations DEF PopFrame, TypeOK
  <2> QED
    BY <1>1, <1>12, <2>1, QueueOperations, RingAssumption
       DEF PopFrame, TypeOK, BuffersFull, ActivationCounts, PushNeverRefused, InputTypes, RingFull,
           hardwareVars, interruptVars, rxVars, wakeVars
<1>13. CASE UNCHANGED vars
  BY <1>1, <1>13
     DEF vars, TypeOK, BuffersFull, ActivationCounts, PushNeverRefused, InputTypes, RingFull, hardwareVars,
         interruptVars, rxVars, wakeVars, valVars
<1> QED
  BY <1>2, <1>3, <1>4, <1>5, <1>6, <1>7, <1>8, <1>9, <1>10, <1>11, <1>12, <1>13
     DEF Next, Hardware, Rx, Validator
-----------------------------------------------------------------------------
(* The wake-up protocols.                                                  *)

(* The empty queues need no wake-up.                                       *)
LEMMA InitialWakes == Init => WakeInvariant
  BY InitialTypes
     DEF Init, WakeInvariant, ReceiveArmed, NoLostReceiveWakeup, NoLostValidatorWakeup,
         StampHasWakeup, FrameAvailable

(* AGG_RX goes to sleep with the interrupt armed, and only the handler,    *)
(* which wakes it, disarms it.                                             *)
LEMMA ReceiveArmedStep == WakeInvariant /\ [Next]_vars => ReceiveArmed'
<1> SUFFICES ASSUME WakeInvariant, [Next]_vars PROVE ReceiveArmed'
  OBVIOUS
<1>1. ReceiveArmed /\ TypeOK
  BY DEF WakeInvariant, InputTypes
<1>2. CASE Hardware
  BY <1>1, <1>2
     DEF ReceiveArmed, Hardware, ArriveWellFormed, ArriveMalformed, Arrive, RaiseError,
         interruptVars, rxVars
<1>3. CASE HandleInterrupt
  BY <1>1, <1>3 DEF ReceiveArmed, HandleInterrupt, rxVars
<1>4. CASE CheckFrame \/ RearmClear \/ RearmEnable
  BY <1>1, <1>4
     DEF ReceiveArmed, CheckFrame, RearmClear, RearmEnable, RxGoto, interruptVars
<1>5. CASE RecheckFrame
  BY <1>1, <1>5 DEF ReceiveArmed, RecheckFrame, RxGoto, interruptVars
<1>6. CASE TakeNotification \/ TakeTimeout \/ EndBatch \/ Tick
  BY <1>1, <1>6
     DEF ReceiveArmed, TakeNotification, TakeTimeout, EndBatch, Tick, RxGoto, interruptVars
<1>7. CASE CollectErrors \/ ReadFrame \/ ReadMalformed \/ PushFrame \/ EndActivation
  BY <1>1, <1>7
     DEF ReceiveArmed, CollectErrors, ReadFrame, ReadMalformed, PushFrame, EndActivation
<1>8. CASE Validator
  BY <1>1, <1>8
     DEF ReceiveArmed, Validator, ValidatorWakes, ExchangeTicks, PopFrame, RingDrained,
         ProcessFrame, interruptVars, rxVars
<1>9. CASE UNCHANGED vars
  BY <1>1, <1>9 DEF ReceiveArmed, vars, interruptVars, rxVars
<1> QED
  BY <1>2, <1>3, <1>4, <1>5, <1>6, <1>7, <1>8, <1>9 DEF Next, Rx

(* A packet that arrives while AGG_RX sleeps sets the interrupt; one that  *)
(* was there before is seen by the second occupancy check.                 *)
LEMMA NoLostReceiveWakeupStep == WakeInvariant /\ [Next]_vars => NoLostReceiveWakeup'
<1> SUFFICES ASSUME WakeInvariant, [Next]_vars PROVE NoLostReceiveWakeup'
  OBVIOUS
<1>1. ReceiveArmed /\ NoLostReceiveWakeup /\ TypeOK
  BY DEF WakeInvariant, InputTypes
<1>2. CASE ArriveWellFormed \/ ArriveMalformed
  BY <1>1, <1>2
     DEF ReceiveArmed, NoLostReceiveWakeup, ArriveWellFormed, ArriveMalformed, Arrive,
         interruptVars, rxVars
<1>3. CASE RaiseError
  BY <1>1, <1>3 DEF NoLostReceiveWakeup, RaiseError, FrameAvailable, interruptVars, rxVars
<1>4. CASE HandleInterrupt
  BY <1>1, <1>4 DEF NoLostReceiveWakeup, HandleInterrupt
<1>5. CASE RecheckFrame
  BY <1>1, <1>5 DEF NoLostReceiveWakeup, RecheckFrame, RxGoto, FrameAvailable, hardwareVars
<1>6. CASE CheckFrame \/ RearmClear \/ RearmEnable \/ TakeNotification \/ TakeTimeout
           \/ EndBatch \/ Tick
  BY <1>1, <1>6
     DEF NoLostReceiveWakeup, CheckFrame, RearmClear, RearmEnable, TakeNotification, TakeTimeout,
         EndBatch, Tick, RxGoto
<1>7. CASE CollectErrors \/ ReadFrame \/ ReadMalformed \/ PushFrame \/ EndActivation
  BY <1>1, <1>7
     DEF NoLostReceiveWakeup, CollectErrors, ReadFrame, ReadMalformed, PushFrame, EndActivation
<1>8. CASE Validator
  BY <1>1, <1>8
     DEF NoLostReceiveWakeup, Validator, ValidatorWakes, ExchangeTicks, PopFrame, RingDrained,
         ProcessFrame, FrameAvailable, hardwareVars, interruptVars, rxVars
<1>9. CASE UNCHANGED vars
  BY <1>1, <1>9
     DEF NoLostReceiveWakeup, vars, FrameAvailable, hardwareVars, interruptVars, rxVars
<1> QED
  BY <1>2, <1>3, <1>4, <1>5, <1>6, <1>7, <1>8, <1>9 DEF Next, Hardware, Rx

(* The activation that pushed a frame gives the notification when it ends, *)
(* and AGG_VAL goes back to sleep only when it found the ring empty.       *)
LEMMA NoLostValidatorWakeupStep == WakeInvariant /\ [Next]_vars => NoLostValidatorWakeup'
<1> SUFFICES ASSUME WakeInvariant, [Next]_vars PROVE NoLostValidatorWakeup'
  OBVIOUS
<1>1. NoLostValidatorWakeup /\ ActivationCounts /\ TypeOK
  BY DEF WakeInvariant, InputTypes
<1>2. CASE Hardware \/ HandleInterrupt
  BY <1>1, <1>2
     DEF NoLostValidatorWakeup, Hardware, ArriveWellFormed, ArriveMalformed, Arrive, RaiseError,
         HandleInterrupt, rxVars, valVars, wakeVars
<1>3. CASE CheckFrame \/ RearmClear \/ RearmEnable \/ RecheckFrame \/ TakeNotification
           \/ TakeTimeout \/ EndBatch \/ Tick
  BY <1>1, <1>3
     DEF NoLostValidatorWakeup, CheckFrame, RearmClear, RearmEnable, RecheckFrame,
         TakeNotification, TakeTimeout, EndBatch, Tick, RxGoto, valVars, wakeVars
<1>4. CASE CollectErrors
  BY <1>1, <1>4 DEF NoLostValidatorWakeup, ActivationCounts, CollectErrors, valVars, wakeVars
<1>5. CASE ReadFrame \/ ReadMalformed
  BY <1>1, <1>5 DEF NoLostValidatorWakeup, ReadFrame, ReadMalformed, valVars, wakeVars
<1>6. CASE PushFrame
  BY <1>1, <1>6
     DEF NoLostValidatorWakeup, PushFrame, TypeOK, valVars, wakeVars
<1>7. CASE EndActivation
  <2>1. valAt' = valAt /\ ring' = ring /\ (validatorNotified' <=> validatorNotified \/ NotifyNeeded)
    BY <1>7, Zenon DEF EndActivation, valVars
  <2>2. queued # 0 => NotifyNeeded
    BY DEF NotifyNeeded
  <2> QED
    BY <1>1, <2>1, <2>2 DEF NoLostValidatorWakeup
<1>8. CASE Validator
  BY <1>1, <1>8
     DEF NoLostValidatorWakeup, Validator, ValidatorWakes, ExchangeTicks, PopFrame, RingDrained,
         ProcessFrame, rxVars, wakeVars
<1>9. CASE UNCHANGED vars
  BY <1>1, <1>9 DEF NoLostValidatorWakeup, vars, rxVars, valVars, wakeVars
<1> QED
  BY <1>2, <1>3, <1>4, <1>5, <1>6, <1>7, <1>8, <1>9 DEF Next, Rx

(* The time stamp is set with the notification and taken after it.         *)
LEMMA StampHasWakeupStep == WakeInvariant /\ [Next]_vars => StampHasWakeup'
<1> SUFFICES ASSUME WakeInvariant, [Next]_vars PROVE StampHasWakeup'
  OBVIOUS
<1>1. StampHasWakeup
  BY DEF WakeInvariant
<1>2. CASE EndActivation
  <2>1. /\ notificationTicks' <=> notificationTicks \/ NotifyNeeded
        /\ validatorNotified' <=> validatorNotified \/ NotifyNeeded
        /\ valAt' = valAt
    BY <1>2, Zenon DEF EndActivation, valVars
  <2> QED
    BY <1>1, <2>1 DEF StampHasWakeup
<1>3. CASE Validator
  BY <1>1, <1>3
     DEF StampHasWakeup, Validator, ValidatorWakes, ExchangeTicks, PopFrame, RingDrained,
         ProcessFrame, wakeVars
<1>4. ASSUME UNCHANGED <<valVars, wakeVars>> PROVE StampHasWakeup'
  BY <1>1, <1>4 DEF StampHasWakeup, valVars, wakeVars
<1>5. CASE Hardware \/ HandleInterrupt \/ UNCHANGED vars
  BY <1>4, <1>5
     DEF Hardware, ArriveWellFormed, ArriveMalformed, Arrive, RaiseError, HandleInterrupt, vars
<1>6. CASE CheckFrame \/ RearmClear \/ RearmEnable \/ RecheckFrame \/ TakeNotification
           \/ TakeTimeout \/ EndBatch \/ Tick \/ CollectErrors \/ ReadFrame \/ ReadMalformed
           \/ PushFrame
  BY <1>4, <1>6
     DEF CheckFrame, RearmClear, RearmEnable, RecheckFrame, TakeNotification, TakeTimeout,
         EndBatch, Tick, CollectErrors, ReadFrame, ReadMalformed, PushFrame
<1> QED
  BY <1>2, <1>3, <1>5, <1>6 DEF Next, Rx

-----------------------------------------------------------------------------
(* The frames in flight.  A buffer outside of its owner's hands is empty.  *)
BuffersEmpty ==
  /\ rxAt # "push" => rxFrame = NoFrame
  /\ valAt # "process" => validatorFrame = NoFrame

FlightInvariant == InputTypes /\ BuffersEmpty /\ NoFrameLostOrReordered

Packets == Ids \cup {Malformed}
Front == Held(validatorFrame) \o ring \o Held(rxFrame)

(* Concatenation, for the packets a task moves from one place to the next. *)
LEMMA Concatenation ==
  ASSUME NEW S, NEW a \in Seq(S), NEW b \in Seq(S)
  PROVE  /\ a \o b \in Seq(S) /\ Len(a \o b) = Len(a) + Len(b)
         /\ \A i \in 1 .. Len(a) : (a \o b)[i] = a[i]
         /\ \A i \in 1 .. Len(b) : (a \o b)[Len(a) + i] = b[i]
         /\ a \o <<>> = a /\ <<>> \o a = a
  OBVIOUS

LEMMA Reassociation ==
  ASSUME NEW a \in Seq(Packets), NEW b \in Seq(Packets), NEW c \in Seq(Packets)
  PROVE  (a \o b) \o c = a \o (b \o c)
  OBVIOUS

LEMMA Moving ==
  ASSUME NEW S, NEW x \in S, NEW a \in Seq(S)
  PROVE  /\ Append(a, x) = a \o <<x>>
         /\ a # <<>> => <<Head(a)>> \o Tail(a) = a /\ Head(a) \in S /\ Tail(a) \in Seq(S)
<1>1. Append(a, x) = a \o <<x>>
  OBVIOUS
<1>2. ASSUME a # <<>>
      PROVE  Head(a) \in S /\ Tail(a) \in Seq(S) /\ <<Head(a)>> \o Tail(a) = a
  BY <1>2
<1> QED
  BY <1>1, <1>2

LEMMA FlightShape ==
  ASSUME InputTypes
  PROVE  /\ Held(validatorFrame) \in Seq(Ids) /\ Held(rxFrame) \in Seq(Ids)
         /\ Held(validatorFrame) \in Seq(Packets) /\ Held(rxFrame) \in Seq(Packets)
         /\ ring \in Seq(Packets) /\ hardwareFifo \in Seq(Packets)
         /\ Front \in Seq(Packets) /\ InFlight = Front \o hardwareFifo
         /\ InFlight \in Seq(Packets)
<1>1. ASSUME NEW frame \in Ids \cup {NoFrame}
      PROVE  Held(frame) \in Seq(Ids) /\ Held(frame) \in Seq(Packets)
  <2>1. CASE frame = NoFrame
    BY <2>1 DEF Held
  <2>2. CASE frame # NoFrame
    <3>1. Held(frame) = <<frame>> /\ frame \in Ids /\ frame \in Packets
      BY <1>1, <2>2 DEF Held, Packets
    <3> QED
      BY <3>1
  <2> QED
    BY <2>1, <2>2
<1>2. /\ Held(validatorFrame) \in Seq(Packets) /\ Held(rxFrame) \in Seq(Packets)
      /\ Held(validatorFrame) \in Seq(Ids) /\ Held(rxFrame) \in Seq(Ids)
  BY <1>1 DEF InputTypes, TypeOK
<1>3. ring \in Seq(Packets) /\ hardwareFifo \in Seq(Packets)
  BY DEF InputTypes, TypeOK, Packets
<1>4. Held(validatorFrame) \o ring \in Seq(Packets)
  BY <1>2, <1>3, Concatenation
<1>5. Front \in Seq(Packets)
  BY <1>2, <1>4, Concatenation DEF Front
<1>6. InFlight = Front \o hardwareFifo
  BY DEF InFlight, Front
<1> QED
  BY <1>2, <1>3, <1>5, <1>6, Concatenation

(* Names wrap inside their range, so no frame looks malformed.             *)
LEMMA SuccessorIsId ==
  ASSUME NEW i \in Ids
  PROVE  Successor(i) \in Ids /\ Successor(i) # Malformed /\ i # Malformed
<1>1. Successor(i) \in Ids
  BY NextId DEF Successor
<1> QED
  BY <1>1, IdAssumption DEF Ids, Malformed

(* A packet at the end of the FIFO is behind all others.                   *)
LEMMA ArrivalStep ==
  ASSUME FlightInvariant, NEW x \in Packets, Arrive(x), InputTypes',
         \/ x = Malformed /\ UNCHANGED lastAccepted
         \/ x = Successor(lastAccepted) /\ lastAccepted' = x
  PROVE  NoFrameLostOrReordered'
<1>1. InputTypes
  BY DEF FlightInvariant
<1>2. PICK n \in Nat : n = Len(InFlight) /\ DOMAIN InFlight = 1 .. n
  BY <1>1, FlightShape
<1>3. Len(InFlight') = n + 1 /\ InFlight'[n + 1] = x /\ DOMAIN InFlight' = 1 .. n + 1
        /\ \A i \in 1 .. n : InFlight'[i] = InFlight[i]
  <2>1. <<x>> \in Seq(Packets) /\ Len(<<x>>) = 1 /\ <<x>>[1] = x
    OBVIOUS
  <2>2. Append(hardwareFifo, x) = hardwareFifo \o <<x>>
    BY <1>1, FlightShape, Moving
  <2>3. Front' = Front /\ hardwareFifo' = hardwareFifo \o <<x>>
    BY <2>2 DEF Arrive, Front, rxVars, valVars
  <2>4. InFlight' = Front' \o hardwareFifo' /\ InFlight = Front \o hardwareFifo
    BY DEF InFlight, Front
  <2>5. InFlight' = InFlight \o <<x>>
    <3>1. Front \in Seq(Packets) /\ hardwareFifo \in Seq(Packets)
      BY <1>1, FlightShape
    <3>2. (Front \o hardwareFifo) \o <<x>> = Front \o (hardwareFifo \o <<x>>)
      BY <2>1, <3>1, Reassociation
    <3> QED
      BY <2>3, <2>4, <3>2
  <2>6. InFlight \in Seq(Packets)
    BY <1>1, FlightShape
  <2>7. Len(InFlight \o <<x>>) = n + 1 /\ InFlight \o <<x>> \in Seq(Packets)
        /\ \A i \in 1 .. n : (InFlight \o <<x>>)[i] = InFlight[i]
        /\ (InFlight \o <<x>>)[n + 1] = x
    BY <1>2, <2>1, <2>6, Concatenation
  <2> QED
    BY <2>5, <2>7
<1>4. lastProcessed' = lastProcessed /\ lastAccepted \in Ids
  BY <1>1 DEF Arrive, valVars, InputTypes, TypeOK
<1>5. \A id : \A m \in 0 .. n : Latest(m, id)' <=> Latest(m, id)
  BY <1>3, <1>4 DEF Latest
<1>6. /\ \A i \in 1 .. n : InFlight[i] # Malformed =>
             \E id \in Ids : Latest(i - 1, id) /\ InFlight[i] = Successor(id)
      /\ Latest(n, lastAccepted)
  BY <1>2 DEF FlightInvariant, NoFrameLostOrReordered
<1>7. ASSUME NEW i \in 1 .. n + 1, InFlight'[i] # Malformed
      PROVE  \E id \in Ids : Latest(i - 1, id)' /\ InFlight'[i] = Successor(id)
  <2>1. CASE i \in 1 .. n
    <3>1. PICK id \in Ids : Latest(i - 1, id) /\ InFlight[i] = Successor(id)
      BY <1>3, <1>6, <1>7, <2>1
    <3> QED
      BY <1>3, <1>5, <2>1, <3>1
  <2>2. CASE i = n + 1
    <3>1. PICK id \in Ids : id = lastAccepted
      BY <1>4
    <3>2. Latest(n, id)' /\ i - 1 = n
      BY <1>5, <1>6, <2>2, <3>1
    <3>3. InFlight'[i] = Successor(id)
      BY <1>3, <1>7, <2>2, <3>1
    <3> QED
      BY <3>2, <3>3
  <2> QED
    BY <2>1, <2>2
<1>8. ASSUME NEW id, id = lastAccepted'
      PROVE  Latest(n + 1, id)'
  <2>1. CASE x = Malformed
    <3>1. Latest(n, id)'
      BY <1>4, <1>5, <1>6, <1>8, <2>1, SuccessorIsId
    <3>2. /\ \A k \in 1 .. n + 1 : k \in 1 .. n \/ k = n + 1
          /\ \A j \in 1 .. n : j \in 1 .. n + 1 /\ \A k \in j + 1 .. n + 1 : k \in j + 1 .. n \/ k = n + 1
      OBVIOUS
    <3> QED
      BY <1>3, <2>1, <3>1, <3>2 DEF Latest
  <2>2. CASE x # Malformed
    <3>1. id = x /\ n + 1 \in 1 .. n + 1 /\ \A k \in (n + 1) + 1 .. n + 1 : FALSE
      BY <1>8, <2>2
    <3> QED
      BY <1>3, <3>1 DEF Latest
  <2> QED
    BY <2>1, <2>2
<1>9. Latest(Len(InFlight), lastAccepted)'
  BY <1>3, <1>8 DEF Latest
<1> QED
  BY <1>3, <1>7, <1>9 DEF NoFrameLostOrReordered

(* A packet that only moves, or a step elsewhere, changes nothing.         *)
LEMMA MovingStep ==
  ASSUME NoFrameLostOrReordered, InFlight' = InFlight,
         UNCHANGED <<lastAccepted, lastProcessed>>
  PROVE  NoFrameLostOrReordered'
  BY DEF NoFrameLostOrReordered, Latest

(* A malformed packet taken out of the line is nobody's predecessor.       *)
LEMMA RemovalStep ==
  ASSUME NoFrameLostOrReordered, lastAccepted \in Ids,
         InFlight \in Seq(Packets), InFlight' \in Seq(Packets),
         NEW p \in 1 .. Len(InFlight), InFlight[p] = Malformed,
         Len(InFlight') = Len(InFlight) - 1,
         \A i \in 1 .. Len(InFlight) - 1 :
           InFlight'[i] = InFlight[IF i < p THEN i ELSE i + 1],
         UNCHANGED <<lastAccepted, lastProcessed>>
  PROVE  NoFrameLostOrReordered'
<1>1. PICK n \in Nat : n = Len(InFlight) /\ DOMAIN InFlight = 1 .. n
  OBVIOUS
<1>2. /\ p \in 1 .. n /\ n - 1 \in Nat /\ Len(InFlight') = n - 1 /\ DOMAIN InFlight' = 1 .. n - 1
      /\ \A i \in 1 .. n - 1 : i < p => InFlight'[i] = InFlight[i]
      /\ \A i \in 1 .. n - 1 : i >= p => InFlight'[i] = InFlight[i + 1]
  <2>1. n \in Nat \ {0} /\ p \in 1 .. n /\ Len(InFlight') = n - 1
    BY <1>1
  <2>2. DOMAIN InFlight' = 1 .. n - 1
    BY <2>1
  <2>3. \A i \in 1 .. n - 1 : InFlight'[i] = InFlight[IF i < p THEN i ELSE i + 1]
    BY <1>1
  <2>4. \A i \in 1 .. n - 1 : i < p => InFlight'[i] = InFlight[i]
    BY <2>3
  <2>5. \A i \in 1 .. n - 1 : i >= p => InFlight'[i] = InFlight[i + 1]
    BY <2>1, <2>3
  <2> QED
    BY <2>1, <2>2, <2>4, <2>5
<1>3. lastProcessed' = lastProcessed /\ lastAccepted' = lastAccepted
  OBVIOUS
<1>4. ASSUME NEW id \in Ids, NEW m \in 0 .. n - 1, m < p, Latest(m, id)
      PROVE  Latest(m, id)'
  BY <1>2, <1>3, <1>4 DEF Latest
<1>5. ASSUME NEW id \in Ids, NEW m \in 0 .. n - 1, m >= p, Latest(m + 1, id)
      PROVE  Latest(m, id)'
  <2>1. CASE \E j \in 1 .. m + 1 :
               InFlight[j] = id /\ \A k \in j + 1 .. m + 1 : InFlight[k] = Malformed
    <3>1. PICK j \in 1 .. m + 1 :
            InFlight[j] = id /\ \A k \in j + 1 .. m + 1 : InFlight[k] = Malformed
      BY <2>1
    <3>2. CASE j < p
      <4>1. j \in 1 .. m /\ InFlight'[j] = id
        BY <1>2, <1>5, <3>1, <3>2
      <4>2. ASSUME NEW k \in j + 1 .. m PROVE InFlight'[k] = Malformed
        BY <1>2, <1>5, <3>1, <3>2
      <4> QED
        BY <4>1, <4>2 DEF Latest
    <3>3. CASE j > p
      <4>1. j - 1 \in 1 .. m /\ InFlight'[j - 1] = id
        BY <1>2, <1>5, <3>1, <3>3
      <4>2. ASSUME NEW k \in (j - 1) + 1 .. m PROVE InFlight'[k] = Malformed
        BY <1>2, <1>5, <3>1, <3>3
      <4> QED
        BY <4>1, <4>2 DEF Latest
    <3>4. j # p
      BY <3>1, SuccessorIsId
    <3> QED
      BY <1>2, <3>2, <3>3, <3>4
  <2>2. CASE id = lastProcessed /\ \A k \in 1 .. m + 1 : InFlight[k] = Malformed
    <3>1. \A k \in 1 .. m : InFlight'[k] = Malformed
      BY <1>2, <1>5, <2>2
    <3> QED
      BY <1>3, <2>2, <3>1 DEF Latest
  <2> QED
    BY <1>5, <2>1, <2>2 DEF Latest
<1>6. ASSUME NEW id \in Ids, Latest(p, id)
      PROVE  Latest(p - 1, id)
  <2>1. id # InFlight[p]
    BY SuccessorIsId
  <2>2. CASE \E j \in 1 .. p : InFlight[j] = id /\ \A k \in j + 1 .. p : InFlight[k] = Malformed
    <3>1. PICK j \in 1 .. p : InFlight[j] = id /\ \A k \in j + 1 .. p : InFlight[k] = Malformed
      BY <2>2
    <3>2. j \in 1 .. p - 1 /\ \A k \in j + 1 .. p - 1 : InFlight[k] = Malformed
      BY <1>2, <2>1, <3>1
    <3> QED
      BY <3>1, <3>2 DEF Latest
  <2>3. CASE id = lastProcessed /\ \A k \in 1 .. p : InFlight[k] = Malformed
    BY <1>2, <2>3 DEF Latest
  <2> QED
    BY <1>6, <2>2, <2>3 DEF Latest
<1>7. /\ \A i \in 1 .. n : InFlight[i] # Malformed =>
             \E id \in Ids : Latest(i - 1, id) /\ InFlight[i] = Successor(id)
      /\ Latest(n, lastAccepted)
  BY <1>1 DEF NoFrameLostOrReordered
<1>8. ASSUME NEW i \in 1 .. n - 1, InFlight'[i] # Malformed
      PROVE  \E id \in Ids : Latest(i - 1, id)' /\ InFlight'[i] = Successor(id)
  <2>1. CASE i < p
    <3>1. PICK id \in Ids : Latest(i - 1, id) /\ InFlight[i] = Successor(id)
      BY <1>2, <1>7, <1>8, <2>1
    <3>2. Latest(i - 1, id)'
      BY <1>2, <1>4, <2>1, <3>1
    <3> QED
      BY <1>2, <2>1, <3>1, <3>2
  <2>2. CASE i > p
    <3>1. PICK id \in Ids : Latest(i, id) /\ InFlight[i + 1] = Successor(id)
      BY <1>2, <1>7, <1>8, <2>2
    <3>2. Latest(i - 1, id)'
      <4>1. (i - 1) + 1 = i /\ i - 1 \in 0 .. n - 1 /\ i - 1 >= p
        BY <1>2, <2>2
      <4> QED
        BY <1>5, <3>1, <4>1
    <3> QED
      BY <1>2, <2>2, <3>1, <3>2
  <2>3. CASE i = p
    <3>1. PICK id \in Ids : Latest(p, id) /\ InFlight[i + 1] = Successor(id)
      BY <1>2, <1>7, <1>8, <2>3
    <3>2. Latest(p - 1, id)
      BY <1>6, <3>1
    <3>3. Latest(i - 1, id)'
      BY <1>2, <1>4, <2>3, <3>2
    <3> QED
      BY <1>2, <2>3, <3>1, <3>3
  <2> QED
    BY <1>2, <2>1, <2>2, <2>3
<1>9. Latest(n - 1, lastAccepted)'
  <2>1. PICK id \in Ids : id = lastAccepted
    OBVIOUS
  <2>2. Latest(n, id)
    BY <1>7, <2>1
  <2>3. Latest(n - 1, id)'
    <3>1. CASE n - 1 >= p
      <4>1. (n - 1) + 1 = n /\ n - 1 \in 0 .. n - 1
        BY <1>2
      <4> QED
        BY <1>5, <2>2, <3>1, <4>1
    <3>2. CASE n = p
      <4>1. Latest(n - 1, id) /\ n - 1 \in 0 .. n - 1 /\ n - 1 < p
        BY <1>2, <1>6, <2>2, <3>2
      <4> QED
        BY <1>4, <4>1
    <3> QED
      BY <1>2, <3>1, <3>2
  <2> QED
    BY <1>3, <2>1, <2>3 DEF Latest
<1> QED
  BY <1>2, <1>8, <1>9 DEF NoFrameLostOrReordered

(* The frame handed on is the one every later frame of the line follows.   *)
LEMMA HandOnStep ==
  ASSUME NoFrameLostOrReordered, lastAccepted \in Ids,
         InFlight \in Seq(Packets), InFlight' \in Seq(Packets),
         1 <= Len(InFlight), InFlight[1] \in Ids, lastProcessed' = InFlight[1],
         Len(InFlight') = Len(InFlight) - 1,
         \A i \in 1 .. Len(InFlight) - 1 : InFlight'[i] = InFlight[i + 1],
         UNCHANGED lastAccepted
  PROVE  NoFrameLostOrReordered'
<1>1. PICK n \in Nat : n = Len(InFlight) /\ DOMAIN InFlight = 1 .. n
  OBVIOUS
<1>2. /\ n \in Nat \ {0} /\ Len(InFlight') = n - 1 /\ DOMAIN InFlight' = 1 .. n - 1
      /\ \A i \in 1 .. n - 1 : InFlight'[i] = InFlight[i + 1]
  BY <1>1
<1>3. ASSUME NEW id \in Ids, NEW m \in 0 .. n - 1, Latest(m + 1, id)
      PROVE  Latest(m, id)'
  <2>1. ~ \A k \in 1 .. m + 1 : InFlight[k] = Malformed
    BY SuccessorIsId
  <2>2. PICK j \in 1 .. m + 1 :
          InFlight[j] = id /\ \A k \in j + 1 .. m + 1 : InFlight[k] = Malformed
    BY <1>3, <2>1 DEF Latest
  <2>3. ASSUME NEW k \in 1 .. m, k >= j PROVE InFlight'[k] = Malformed
    BY <1>2, <2>2, <2>3
  <2>4. CASE j = 1
    BY <2>2, <2>3, <2>4 DEF Latest
  <2>5. CASE j > 1
    <3>1. j - 1 \in 1 .. m /\ InFlight'[j - 1] = id
      BY <1>2, <2>2, <2>5
    <3>2. \A k \in (j - 1) + 1 .. m : InFlight'[k] = Malformed
      BY <2>2, <2>3
    <3> QED
      BY <3>1, <3>2 DEF Latest
  <2> QED
    BY <2>4, <2>5
<1>4. ASSUME NEW i \in 1 .. n - 1, InFlight'[i] # Malformed
      PROVE  \E id \in Ids : Latest(i - 1, id)' /\ InFlight'[i] = Successor(id)
  <2>1. PICK id \in Ids : Latest(i, id) /\ InFlight[i + 1] = Successor(id)
    BY <1>1, <1>2, <1>4 DEF NoFrameLostOrReordered
  <2>2. (i - 1) + 1 = i /\ i - 1 \in 0 .. n - 1
    BY <1>2
  <2>3. Latest(i - 1, id)'
    BY <1>3, <2>1, <2>2
  <2> QED
    BY <1>2, <2>1, <2>3
<1>5. Latest(n - 1, lastAccepted)'
  <2>1. PICK id \in Ids : id = lastAccepted
    OBVIOUS
  <2>2. Latest(n, id) /\ (n - 1) + 1 = n /\ n - 1 \in 0 .. n - 1
    BY <1>1, <1>2, <2>1 DEF NoFrameLostOrReordered
  <2>3. Latest(n - 1, id)'
    BY <1>3, <2>2
  <2> QED
    BY <2>1, <2>3 DEF Latest
<1> QED
  BY <1>2, <1>4, <1>5 DEF NoFrameLostOrReordered

(* A buffer with a frame in it and an empty one.                           *)
LEMMA HeldValues ==
  /\ Held(NoFrame) = <<>>
  /\ \A id \in Ids : Held(id) = <<id>>
  BY IdAssumption DEF Held, Ids, NoFrame

(* AGG_RX takes a frame out of the FIFO: it stays where it was in the line. *)
LEMMA ReadFrameMoves ==
  ASSUME InputTypes, BuffersEmpty, ReadFrame
  PROVE  InFlight' = InFlight
<1>1. PICK before \in Seq(Packets) : before = Held(validatorFrame) \o ring
  BY FlightShape, Concatenation
<1>2. PICK f \in Seq(Packets) : f = hardwareFifo /\ f # <<>> /\ Head(f) \in Ids
  BY FlightShape DEF ReadFrame, MayRead, FrameAvailable, Packets
<1>3. InFlight = (before \o <<>>) \o f
  BY <1>1, <1>2, HeldValues DEF InFlight, ReadFrame, BuffersEmpty
<1>4. InFlight' = (before \o <<Head(f)>>) \o Tail(f)
  <2>1. rxFrame' = Head(f) /\ hardwareFifo' = Tail(f) /\ UNCHANGED <<ring, validatorFrame>>
    BY <1>2 DEF ReadFrame, valVars
  <2>2. Held(rxFrame') = <<Head(f)>>
    BY <1>2, <2>1, HeldValues
  <2> QED
    BY <1>1, <2>1, <2>2 DEF InFlight, Held
<1>5. before \o <<>> = before
  BY <1>1, Concatenation
<1>6. <<Head(f)>> \in Seq(Packets) /\ Tail(f) \in Seq(Packets) /\ <<Head(f)>> \o Tail(f) = f
  BY <1>2, Moving DEF Packets
<1>7. (before \o <<Head(f)>>) \o Tail(f) = before \o (<<Head(f)>> \o Tail(f))
  BY <1>1, <1>6, Reassociation
<1> QED
  BY <1>3, <1>4, <1>5, <1>6, <1>7

(* AGG_RX puts it at the end of the ring.                                  *)
LEMMA PushFrameMoves ==
  ASSUME InputTypes, PushFrame
  PROVE  InFlight' = InFlight
<1>1. /\ rxFrame \in Ids /\ ring' = Append(ring, rxFrame) /\ rxFrame' = NoFrame
      /\ validatorFrame' = validatorFrame /\ hardwareFifo' = hardwareFifo
  BY DEF PushFrame, InputTypes, BuffersFull, PushNeverRefused, hardwareVars, valVars
<1>2. PICK v : v = Held(validatorFrame) /\ v \in Seq(Packets)
  BY FlightShape
<1>3. ring \in Seq(Packets) /\ <<rxFrame>> \in Seq(Packets) /\ Append(ring, rxFrame) = ring \o <<rxFrame>>
  <2>1. rxFrame \in Packets
    BY <1>1 DEF Packets
  <2> QED
    BY <2>1, FlightShape, Moving
<1>4. InFlight = ((v \o ring) \o <<rxFrame>>) \o hardwareFifo
  BY <1>1, <1>2, HeldValues DEF InFlight
<1>5. Held(validatorFrame)' = v
  BY <1>1, <1>2 DEF Held
<1>6. InFlight' = ((v \o (ring \o <<rxFrame>>)) \o <<>>) \o hardwareFifo
  BY <1>1, <1>3, <1>5, HeldValues DEF InFlight
<1>7. ring \o <<rxFrame>> \in Seq(Packets)
  BY <1>3, Concatenation
<1>8. (v \o (ring \o <<rxFrame>>)) \in Seq(Packets)
  BY <1>2, <1>7, Concatenation
<1>9. (v \o (ring \o <<rxFrame>>)) \o <<>> = v \o (ring \o <<rxFrame>>)
  BY <1>8, Concatenation
<1>10. (v \o ring) \o <<rxFrame>> = v \o (ring \o <<rxFrame>>)
  BY <1>2, <1>3, Reassociation
<1> QED
  BY <1>4, <1>6, <1>9, <1>10

(* AGG_VAL takes it from the front of the ring.                            *)
LEMMA PopFrameMoves ==
  ASSUME InputTypes, BuffersEmpty, PopFrame
  PROVE  InFlight' = InFlight
<1>1. /\ validatorFrame = NoFrame /\ validatorFrame' = Head(ring) /\ ring' = Tail(ring)
      /\ ring # <<>> /\ ring \in Seq(Ids)
      /\ rxFrame' = rxFrame /\ hardwareFifo' = hardwareFifo
  BY DEF PopFrame, InputTypes, TypeOK, BuffersEmpty, hardwareVars, rxVars
<1>2. Head(ring) \in Ids /\ <<Head(ring)>> \o Tail(ring) = ring
  BY <1>1, Moving
<1>3. <<>> \o ring = ring
  BY <1>1, Concatenation
<1>4. PICK r : r = Held(rxFrame)
  OBVIOUS
<1>5. Held(rxFrame)' = r
  BY <1>1, <1>4 DEF Held
<1>6. InFlight = ((<<>> \o ring) \o r) \o hardwareFifo
  BY <1>1, <1>4, HeldValues DEF InFlight
<1>7. InFlight' = ((<<Head(ring)>> \o Tail(ring)) \o r) \o hardwareFifo
  BY <1>1, <1>2, <1>5, HeldValues DEF InFlight
<1> QED
  BY <1>2, <1>3, <1>6, <1>7

(* read() drains a malformed packet: the ones before and behind it close up. *)
LEMMA ReadMalformedRemoves ==
  ASSUME InputTypes, NoFrameLostOrReordered, ReadMalformed, InputTypes'
  PROVE  NoFrameLostOrReordered'
<1>1. PICK a : a = Front /\ a \in Seq(Packets)
  BY FlightShape
<1>2. PICK f : f = hardwareFifo /\ f \in Seq(Packets) /\ f # <<>> /\ f[1] = Malformed
               /\ Len(f) \in Nat \ {0}
  BY FlightShape DEF ReadMalformed, MayRead, FrameAvailable
<1>3. InFlight = a \o f
  BY <1>1, <1>2, FlightShape
<1>4. InFlight' = a \o Tail(f)
  <2>1. Front' = a /\ hardwareFifo' = Tail(f)
    BY <1>1, <1>2 DEF ReadMalformed, Front, Held, valVars
  <2> QED
    BY <2>1 DEF InFlight, Front
<1>5. /\ Tail(f) \in Seq(Packets) /\ Len(Tail(f)) = Len(f) - 1
      /\ \A i \in 1 .. Len(f) - 1 : Tail(f)[i] = f[i + 1]
  BY <1>2
<1>6. PICK p \in Nat \ {0} : p = Len(a) + 1
  BY <1>1
<1>7. p \in 1 .. Len(InFlight) /\ InFlight[p] = Malformed /\ Len(InFlight) = Len(a) + Len(f)
      /\ InFlight \in Seq(Packets)
  <2>1. Len(a \o f) = Len(a) + Len(f) /\ (a \o f)[Len(a) + 1] = f[1] /\ a \o f \in Seq(Packets)
    BY <1>1, <1>2, Concatenation
  <2> QED
    BY <1>1, <1>2, <1>3, <1>6, <2>1
<1>8. Len(InFlight') = Len(InFlight) - 1 /\ InFlight' \in Seq(Packets)
  BY <1>1, <1>2, <1>4, <1>5, <1>7, Concatenation
<1>9. ASSUME NEW i \in 1 .. Len(InFlight) - 1
      PROVE  InFlight'[i] = InFlight[IF i < p THEN i ELSE i + 1]
  <2>1. CASE i < p
    BY <1>1, <1>2, <1>3, <1>4, <1>5, <1>6, <2>1, Concatenation
  <2>2. CASE i >= p
    <3>1. PICK k \in 1 .. Len(f) - 1 : i = Len(a) + k
      <4>1. i - Len(a) \in 1 .. Len(f) - 1 /\ i = Len(a) + (i - Len(a))
        BY <1>1, <1>2, <1>6, <1>7, <2>2
      <4> QED
        BY <4>1
    <3>2. (a \o Tail(f))[Len(a) + k] = Tail(f)[k] /\ Tail(f)[k] = f[k + 1]
      BY <1>1, <1>5, Concatenation
    <3>3. (a \o f)[Len(a) + (k + 1)] = f[k + 1]
      BY <1>1, <1>2, Concatenation
    <3>4. i + 1 = Len(a) + (k + 1)
      BY <1>1, <3>1
    <3> QED
      BY <1>3, <1>4, <2>2, <3>1, <3>2, <3>3, <3>4
  <2> QED
    BY <1>6, <1>7, <2>1, <2>2
<1>10. lastAccepted \in Ids /\ UNCHANGED <<lastAccepted, lastProcessed>>
  BY DEF InputTypes, TypeOK, ReadMalformed, valVars
<1> QED
  BY <1>7, <1>8, <1>9, <1>10, RemovalStep

(* AGG_VAL hands on the first frame of the line.                           *)
LEMMA ProcessFrameHandsOn ==
  ASSUME InputTypes, NoFrameLostOrReordered, ProcessFrame
  PROVE  NoFrameLostOrReordered'
<1>1. /\ validatorFrame \in Ids /\ validatorFrame' = NoFrame /\ lastProcessed' = validatorFrame
      /\ UNCHANGED <<ring, rxFrame, hardwareFifo, lastAccepted>>
      /\ lastAccepted \in Ids /\ validatorFrame \in Packets
  BY DEF ProcessFrame, InputTypes, TypeOK, BuffersFull, hardwareVars, rxVars, Packets
<1>2. PICK r \in Seq(Packets) : r = Held(rxFrame) /\ Held(rxFrame)' = r
  <2>1. Held(rxFrame) \in Seq(Packets)
    BY FlightShape
  <2>2. Held(rxFrame)' = Held(rxFrame)
    BY <1>1 DEF Held
  <2> QED
    BY <2>1, <2>2
<1>3. PICK v \in Seq(Packets) : v = <<validatorFrame>> /\ Len(v) = 1 /\ v[1] = validatorFrame
  <2>1. <<validatorFrame>> \in Seq(Packets)
    BY <1>1
  <2> QED
    BY <2>1
<1>4. ring \in Seq(Packets) /\ hardwareFifo \in Seq(Packets)
  BY FlightShape
<1>5. PICK b \in Seq(Packets) : b = (ring \o r) \o hardwareFifo
  BY <1>2, <1>4, Concatenation
<1>6. InFlight' = b
  <2>1. InFlight' = ((<<>> \o ring) \o r) \o hardwareFifo
    BY <1>1, <1>2, HeldValues DEF InFlight
  <2> QED
    BY <1>4, <1>5, <2>1, Concatenation
<1>7. InFlight = v \o b
  <2>1. InFlight = ((v \o ring) \o r) \o hardwareFifo
    BY <1>1, <1>2, <1>3, HeldValues DEF InFlight
  <2>2. (v \o ring) \o r = v \o (ring \o r)
    BY <1>2, <1>3, <1>4, Reassociation
  <2>3. ring \o r \in Seq(Packets)
    BY <1>2, <1>4, Concatenation
  <2>4. (v \o (ring \o r)) \o hardwareFifo = v \o ((ring \o r) \o hardwareFifo)
    BY <1>3, <1>4, <2>3, Reassociation
  <2> QED
    BY <1>5, <2>1, <2>2, <2>4
<1>8. /\ v \o b \in Seq(Packets) /\ Len(v \o b) = 1 + Len(b) /\ (v \o b)[1] = validatorFrame
      /\ \A i \in 1 .. Len(b) : (v \o b)[1 + i] = b[i]
  BY <1>3, <1>5, Concatenation
<1>9. PICK n \in Nat : n = Len(b)
  BY <1>5
<1>10. /\ InFlight \in Seq(Packets) /\ Len(InFlight) = n + 1 /\ InFlight[1] = validatorFrame
       /\ InFlight' \in Seq(Packets) /\ Len(InFlight') = n
       /\ \A i \in 1 .. n : InFlight'[i] = InFlight[i + 1]
  <2>1. InFlight \in Seq(Packets) /\ Len(InFlight) = n + 1 /\ InFlight[1] = validatorFrame
    BY <1>7, <1>8, <1>9
  <2>2. InFlight' \in Seq(Packets) /\ Len(InFlight') = n
    BY <1>5, <1>6, <1>9
  <2>3. \A i \in 1 .. n : i + 1 = 1 + i /\ b[i] = (v \o b)[1 + i]
    BY <1>8, <1>9
  <2> QED
    BY <1>6, <1>7, <2>1, <2>2, <2>3
<1> QED
  BY <1>1, <1>10, HandOnStep

(* The frames in flight stay the frames accepted since the last processed. *)
LEMMA FlightStep == FlightInvariant /\ InputTypes' /\ [Next]_vars => FlightInvariant'
<1> SUFFICES ASSUME FlightInvariant, InputTypes', [Next]_vars
             PROVE  NoFrameLostOrReordered' /\ BuffersEmpty'
  BY DEF FlightInvariant
<1>1. InputTypes /\ BuffersEmpty /\ NoFrameLostOrReordered /\ TypeOK
  BY DEF FlightInvariant, InputTypes
<1>2. CASE ArriveWellFormed \/ ArriveMalformed
  <2>1. BuffersEmpty'
    BY <1>1, <1>2
       DEF ArriveWellFormed, ArriveMalformed, Arrive, BuffersEmpty, rxVars, valVars
  <2>2. Malformed \in Packets /\ Successor(lastAccepted) \in Packets
    BY <1>1, SuccessorIsId DEF Packets, TypeOK
  <2>3. PICK x \in Packets :
          /\ Arrive(x)
          /\ \/ x = Malformed /\ UNCHANGED lastAccepted
             \/ x = Successor(lastAccepted) /\ lastAccepted' = x
    BY <1>2, <2>2 DEF ArriveMalformed, ArriveWellFormed
  <2>4. NoFrameLostOrReordered'
    BY <2>3, ArrivalStep
  <2> QED
    BY <2>1, <2>4
<1>3. CASE ReadFrame
  <2>1. BuffersEmpty' /\ UNCHANGED <<lastAccepted, lastProcessed>>
    BY <1>1, <1>3 DEF ReadFrame, BuffersEmpty, valVars
  <2> QED
    BY <1>1, <1>3, <2>1, ReadFrameMoves, MovingStep
<1>4. CASE PushFrame
  <2>1. BuffersEmpty' /\ UNCHANGED <<lastAccepted, lastProcessed>>
    BY <1>1, <1>4 DEF PushFrame, BuffersEmpty, valVars
  <2> QED
    BY <1>1, <1>4, <2>1, PushFrameMoves, MovingStep
<1>5. CASE PopFrame
  <2>1. BuffersEmpty' /\ UNCHANGED <<lastAccepted, lastProcessed>>
    BY <1>1, <1>5 DEF PopFrame, BuffersEmpty, rxVars
  <2> QED
    BY <1>1, <1>5, <2>1, PopFrameMoves, MovingStep
<1>6. CASE ReadMalformed
  <2>1. BuffersEmpty'
    BY <1>1, <1>6 DEF ReadMalformed, BuffersEmpty, valVars
  <2> QED
    BY <1>1, <1>6, <2>1, ReadMalformedRemoves
<1>7. CASE ProcessFrame
  <2>1. BuffersEmpty'
    BY <1>1, <1>7 DEF ProcessFrame, BuffersEmpty, rxVars
  <2> QED
    BY <1>1, <1>7, <2>1, ProcessFrameHandsOn
<1>8. ASSUME UNCHANGED <<validatorFrame, ring, rxFrame, hardwareFifo, lastAccepted, lastProcessed>>
      PROVE  NoFrameLostOrReordered'
  <2>1. InFlight' = InFlight
    BY <1>8 DEF InFlight, Held
  <2> QED
    BY <1>1, <1>8, <2>1, MovingStep
<1>9. CASE RaiseError \/ HandleInterrupt \/ UNCHANGED vars
  <2>1. BuffersEmpty'
    BY <1>1, <1>9 DEF RaiseError, HandleInterrupt, vars, BuffersEmpty, rxVars, valVars
  <2> QED
    BY <1>8, <1>9, <2>1 DEF RaiseError, HandleInterrupt, vars, hardwareVars, rxVars, valVars
<1>10. CASE CheckFrame \/ RearmClear \/ RearmEnable \/ RecheckFrame \/ TakeNotification
            \/ TakeTimeout \/ EndBatch \/ Tick
  <2>1. rxAt # "push" /\ rxAt' # "push"
    BY <1>10
       DEF CheckFrame, RearmClear, RearmEnable, RecheckFrame, TakeNotification, TakeTimeout,
           EndBatch, Tick, RxGoto
  <2>2. UNCHANGED <<rxFrame, valVars, ring, lastAccepted, hardwareFifo>>
    BY <1>10
       DEF CheckFrame, RearmClear, RearmEnable, RecheckFrame, TakeNotification, TakeTimeout,
           EndBatch, Tick, RxGoto, hardwareVars
  <2> QED
    BY <1>1, <1>8, <2>1, <2>2 DEF BuffersEmpty, valVars
<1>11. CASE CollectErrors \/ EndActivation
  <2>1. BuffersEmpty'
    BY <1>1, <1>11 DEF CollectErrors, EndActivation, BuffersEmpty, valVars
  <2> QED
    BY <1>8, <1>11, <2>1 DEF CollectErrors, EndActivation, hardwareVars, valVars
<1>12. CASE ValidatorWakes \/ ExchangeTicks \/ RingDrained
  <2>1. BuffersEmpty'
    BY <1>1, <1>12 DEF ValidatorWakes, ExchangeTicks, RingDrained, BuffersEmpty, rxVars
  <2> QED
    BY <1>8, <1>12, <2>1
       DEF ValidatorWakes, ExchangeTicks, RingDrained, hardwareVars, rxVars
<1> QED
  BY <1>2, <1>3, <1>4, <1>5, <1>6, <1>7, <1>9, <1>10, <1>11, <1>12
     DEF Next, Hardware, Rx, Validator

(* Nothing is in flight, and number 0 was the last accepted and processed. *)
LEMMA InitialFlight == Init => FlightInvariant
<1> SUFFICES ASSUME Init PROVE FlightInvariant
  OBVIOUS
<1>1. InFlight = <<>>
  BY DEF Init, InFlight, Held
<1> QED
  BY <1>1, InitialTypes DEF Init, FlightInvariant, BuffersEmpty, NoFrameLostOrReordered, Latest

-----------------------------------------------------------------------------
(* The theorems.                                                           *)

(* Whatever hardware, interrupt and tasks do, the wake-up invariant holds. *)
THEOREM WakeInvariantHolds == Spec => []WakeInvariant
<1>1. WakeInvariant /\ [Next]_vars => WakeInvariant'
  BY InputTypesStep, ReceiveArmedStep, NoLostReceiveWakeupStep, NoLostValidatorWakeupStep,
     StampHasWakeupStep
     DEF WakeInvariant
<1> QED
  BY InitialWakes, <1>1, PTL DEF Spec

(* Every variable of the input half keeps its type: in particular neither  *)
(* the FIFO nor the ring exceeds its capacity and a batch ends in time.    *)
THEOREM InputTypeCorrect == Spec => []TypeOK
<1>1. WakeInvariant => TypeOK
  BY DEF WakeInvariant, InputTypes
<1> QED
  BY <1>1, WakeInvariantHolds, PTL

(* try_push in run_input is never refused, so no frame is dropped there.   *)
THEOREM InputPushAccepted == Spec => []PushNeverRefused
<1>1. WakeInvariant => PushNeverRefused
  BY DEF WakeInvariant, InputTypes
<1> QED
  BY <1>1, WakeInvariantHolds, PTL

(* wait_for_frame never sleeps on a packet no interrupt will announce.     *)
THEOREM ReceiveWakeupNotLost == Spec => []NoLostReceiveWakeup
<1>1. WakeInvariant => NoLostReceiveWakeup
  BY DEF WakeInvariant
<1> QED
  BY <1>1, WakeInvariantHolds, PTL

(* run_validator never sleeps on a frame no activation will announce.      *)
THEOREM ValidatorWakeupNotLost == Spec => []NoLostValidatorWakeup
<1>1. WakeInvariant => NoLostValidatorWakeup
  BY DEF WakeInvariant
<1> QED
  BY <1>1, WakeInvariantHolds, PTL

(* The schedule gap is measured from a notification still to be served.    *)
THEOREM StampBelongsToWakeup == Spec => []StampHasWakeup
<1>1. WakeInvariant => StampHasWakeup
  BY DEF WakeInvariant
<1> QED
  BY <1>1, WakeInvariantHolds, PTL

(* A well-formed frame the FIFO took is neither lost, doubled nor          *)
(* reordered on its way through FIFO, AGG_RX, ring and AGG_VAL.            *)
THEOREM NoFrameLost == Spec => []NoFrameLostOrReordered
<1>1. WakeInvariant => InputTypes
  BY DEF WakeInvariant
<1>2. FlightInvariant => NoFrameLostOrReordered
  BY DEF FlightInvariant
<1> QED
  BY <1>1, <1>2, WakeInvariantHolds, InitialFlight, FlightStep, PTL DEF Spec

=============================================================================
